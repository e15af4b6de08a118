----------------------------- MODULE RelayPromise -----------------------------
(***************************************************************************)
(* What the anti-cycle floor promises about a relay (charger_reconciler.py,*)
(* CONTACTOR_MIN_ON_S and CONTACTOR_MIN_OFF_S): a relay SEM has opened is  *)
(* not closed by SEM for MinOff, and a relay SEM has closed is opened by   *)
(* SEM within MinOn only on demand.  The clocks count SEM's own moves; what*)
(* the box does to its own relay is no part of the promise.                *)
(***************************************************************************)
EXTENDS Integers

CONSTANTS MinOn, MinOff, Steps

VARIABLES contactor, mover, sinceOpen, sinceClose, demand
promise == <<contactor, mover, sinceOpen, sinceClose, demand>>

Init ==
  /\ contactor \in {"open", "closed"} /\ mover = "box"
  /\ sinceOpen = MinOff /\ sinceClose = MinOn /\ demand \in BOOLEAN

Later(age, d, cap) == IF age + d < cap THEN age + d ELSE cap

\* Time passes, and the reason a stop would have may change.
Pass(d) ==
  /\ sinceOpen' = Later(sinceOpen, d, MinOff) /\ sinceClose' = Later(sinceClose, d, MinOn)
  /\ demand' \in BOOLEAN /\ UNCHANGED <<contactor, mover>>

Close ==
  /\ contactor = "open" /\ sinceOpen = MinOff
  /\ contactor' = "closed" /\ mover' = "sem" /\ sinceClose' = 0
  /\ UNCHANGED <<sinceOpen, demand>>

Open ==
  /\ contactor = "closed" /\ (demand \/ sinceClose = MinOn)
  /\ contactor' = "open" /\ mover' = "sem" /\ sinceOpen' = 0
  /\ UNCHANGED <<sinceClose, demand>>

BoxMoves ==
  /\ contactor' \in {"open", "closed"} \ {contactor} /\ mover' = "box"
  /\ UNCHANGED <<sinceOpen, sinceClose, demand>>

Next == Close \/ Open \/ BoxMoves \/ \E d \in Steps : Pass(d)
Spec == Init /\ [][Next]_promise
=============================================================================
