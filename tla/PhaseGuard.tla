----------------------------- MODULE PhaseGuard -----------------------------
(***************************************************************************)
(* The phase current guard and the chargers it stops and clamps:           *)
(*                                                                         *)
(*   active_phase_guard.py  the latch, its recovery, the filter of every   *)
(*                          charger's decision, the request to the loads   *)
(*   dual_phase_guard.py    what a reading is: over, unreadable, a margin  *)
(*   phase_shed.py          over_phases, CHARGERS_FIRST_CYCLES             *)
(*                                                                         *)
(* A cycle reads the meters once (Update), filters the decision of each    *)
(* charger in turn (Filter) and then asks the loads (AskLoads).  The       *)
(* house, the cars and the switch of the enforcement are free: from cycle  *)
(* to cycle the margin may be anything, and a charger may draw anything,   *)
(* whatever it was told.  Currents are those of the worst phase and lane,  *)
(* in whole amps, the amps the filter floors to.                           *)
(***************************************************************************)
EXTENDS Integers

CONSTANTS
  Phases,         \* the monitored phases
  Chargers,
  Limit,          \* the limit of a phase, in amps
  MinA, MaxA,     \* a charger's smallest and largest current
  RecoveryMargin, \* phase_guard_recovery_margin_a
  RequiredCycles, \* phase_guard_recovery_cycles
  FirstCycles     \* CHARGERS_FIRST_CYCLES

ASSUME AmpAssumption ==
  /\ Limit \in Nat /\ RecoveryMargin \in Nat
  /\ MinA \in Nat /\ MaxA \in Nat /\ 0 < MinA /\ MinA <= MaxA
ASSUME CycleAssumption == RequiredCycles \in Nat \ {0} /\ FirstCycles \in Nat \ {0, 1}

VARIABLES
  step,       \* "rest", "filter", "ask"
  pending,    \* chargers whose decision is still to be filtered
  enforcing, authorized, latched, asked, \* see PhaseLatch
  recovery,   \* _recovery_cycles
  overFor,    \* _over_cycles
  reserved,   \* _reserved_increase_a
  margin,     \* the smallest margin of the cycle's reading, negative when a phase is over
  draw,       \* the current of each charger in that reading
  \* kept for the properties only
  promised,   \* amps this cycle's commands may add to the draw
  calm,       \* cycles in a row, enforcing, with every margin back
  blockedFor, \* cycles in a row in which the chargers were stopped, this one included
  fresh       \* enforcement was switched on by this cycle's reading

guardVars == <<enforcing, authorized, latched, asked, recovery, overFor>>
meterVars == <<margin, draw>>
auxVars   == <<calm, blockedFor, fresh>>
vars == <<step, pending, guardVars, reserved, meterVars, promised, auxVars>>

Latch == INSTANCE PhaseLatch

Least(a, b) == IF a < b THEN a ELSE b
Most(a, b)  == IF a < b THEN b ELSE a

TypeOK ==
  /\ step \in {"rest", "filter", "ask"} /\ pending \subseteq Chargers
  /\ enforcing \in BOOLEAN /\ authorized \in BOOLEAN
  /\ latched \subseteq Phases /\ asked \subseteq Phases
  /\ recovery \in 0 .. RequiredCycles /\ overFor \in [Phases -> 0 .. FirstCycles]
  /\ reserved \in Nat /\ margin \in -1 .. Limit /\ draw \in [Chargers -> 0 .. MaxA]
  /\ promised \in Nat /\ calm \in 0 .. RequiredCycles
  /\ blockedFor \in 0 .. FirstCycles /\ fresh \in BOOLEAN

Init ==
  /\ step = "rest" /\ pending = {}
  /\ enforcing = FALSE /\ authorized = FALSE /\ latched = {} /\ asked = {}
  /\ recovery = 0 /\ overFor = [p \in Phases |-> 0] /\ reserved = 0
  /\ margin = Limit /\ draw = [c \in Chargers |-> 0]
  /\ promised = 0 /\ calm = 0 /\ blockedFor = 0 /\ fresh = FALSE

-----------------------------------------------------------------------------
(* The reading and the latch.  A reading is safe when it is complete and   *)
(* fresh and no phase is over; over names the phases measured over their   *)
(* limit, in an incomplete reading as well.                                *)

Ample(safe) == safe /\ margin' >= RecoveryMargin

\* _over_cycles: a phase not over in this reading starts again from nothing.
Counted(over) ==
  overFor' = [p \in Phases |-> IF p \in over THEN Least(overFor[p] + 1, FirstCycles) ELSE 0]

MutEnabled == [trusted |-> authorized, count |-> recovery]

\* What the latch starts from: enabling enforcement is itself a safety transition.
Enabled == IF enforcing THEN [trusted |-> authorized, count |-> recovery]
                        ELSE [trusted |-> FALSE, count |-> 0]

Watch ==
  /\ enforcing' = FALSE /\ authorized' = TRUE /\ latched' = {} /\ recovery' = 0

MutBlock(over) ==
  /\ enforcing' = TRUE /\ authorized' = FALSE /\ recovery' = 0
  /\ latched' = over

\* Unsafe, stale, unreadable: fail closed and start the recovery over.
Block(over) ==
  /\ enforcing' = TRUE /\ authorized' = FALSE /\ recovery' = 0
  /\ latched' = latched \cup over

StayTrusted ==
  /\ Enabled.trusted
  /\ enforcing' = TRUE /\ authorized' = TRUE /\ latched' = {} /\ UNCHANGED recovery

\* A safe reading of a guard that is not trusted yet.
Recovering(safe) ==
  LET count == IF Ample(safe) THEN Enabled.count + 1 ELSE 0
  IN /\ ~Enabled.trusted
     /\ enforcing' = TRUE /\ recovery' = count /\ authorized' = (count >= RequiredCycles)
     /\ latched' = IF count >= RequiredCycles THEN {} ELSE latched

Judge(safe, over, on) ==
  \/ ~on /\ Watch
  \/ on /\ ~safe /\ Block(over)
  \/ on /\ safe /\ (StayTrusted \/ Recovering(safe))

\* What the properties remember of the reading and of the verdict.
Remembered(safe, on) ==
  /\ calm' = IF on /\ Ample(safe) THEN Least(calm + 1, RequiredCycles) ELSE 0
  /\ blockedFor' = IF enforcing' /\ ~authorized' THEN Least(blockedFor + 1, FirstCycles) ELSE 0
  /\ fresh' = (on /\ ~enforcing)

Update ==
  \E safe \in BOOLEAN, on \in BOOLEAN, over \in SUBSET Phases :
    /\ step = "rest"
    /\ draw' \in [Chargers -> 0 .. MaxA]
    /\ margin' \in IF over = {} THEN 0 .. Limit ELSE {-1}
    /\ safe => over = {}
    /\ Counted(over) /\ Judge(safe, over, on) /\ Remembered(safe, on)
    /\ reserved' = 0 /\ promised' = 0 /\ asked' = {}
    /\ step' = "filter" /\ pending' = Chargers

-----------------------------------------------------------------------------
(* The filter of one charger's decision.                                   *)

\* The command adds to what the charger draws, reserved or not.
Commanded(c, amps) == promised' = promised + Most(0, amps - draw[c])
NoCurrent == UNCHANGED <<reserved, promised>>

Headroom == Most(0, margin - reserved)
MaxSafe(c) == draw[c] + Headroom

\* DISABLE, RELEASE and an IDLE of a trusted guard pass; everything else of a blocked one is stopped.
NotCharging(c) == NoCurrent

MutClamped(c, desired) ==
  LET target == Least(desired, MaxSafe(c))
  IN /\ target >= MinA
     /\ UNCHANGED reserved
     /\ Commanded(c, target)

\* Never more than the headroom left, and what is granted is reserved for this charger.
Clamped(c, desired) ==
  LET target == Least(desired, MaxSafe(c))
  IN /\ target >= MinA
     /\ reserved' = reserved + Most(0, target - draw[c])
     /\ Commanded(c, target)

\* Headroom below the charger's minimum, no context, no such phase count: an immediate stop.
Stopped(c) == NoCurrent

Charge(c, desired) ==
  \/ ~enforcing /\ UNCHANGED reserved /\ Commanded(c, desired)
  \/ enforcing /\ authorized /\ Clamped(c, desired)
  \/ enforcing /\ Stopped(c)

Filter(c) ==
  /\ step = "filter" /\ c \in pending
  /\ NotCharging(c) \/ \E desired \in 1 .. MaxA : Charge(c, desired)
  /\ pending' = pending \ {c}
  /\ step' = IF pending' = {} THEN "ask" ELSE "filter"
  /\ UNCHANGED <<guardVars, meterVars, auxVars>>

-----------------------------------------------------------------------------
(* The request to the loads: phases over their limit that no charger can   *)
(* relieve, or that stayed over although the chargers were told to stop.   *)

Drawing == \E c \in Chargers : draw[c] > 0

MutRequested == {p \in Phases : enforcing /\ overFor[p] > 0}

Requested == {p \in Phases : /\ enforcing /\ overFor[p] > 0
                             /\ ~Drawing \/ overFor[p] >= FirstCycles}

AskLoads ==
  /\ step = "ask"
  /\ asked' = Requested /\ step' = "rest"
  /\ reserved' = 0 /\ promised' = 0
  /\ UNCHANGED <<pending, enforcing, authorized, latched, recovery, overFor, meterVars, auxVars>>

Next == Update \/ (\E c \in Chargers : Filter(c)) \/ AskLoads

Spec == Init /\ [][Next]_vars

-----------------------------------------------------------------------------
(* Properties.                                                             *)

\* The amps a cycle's commands may add to the draw, all chargers together, never exceed the smallest
\* margin measured: every charger is filtered against what the ones before it have left.
HeadroomShared == enforcing => promised <= Most(0, margin)

\* An enforcing guard is only trusted again after the whole recovery count of readings with every margin
\* back, one after the other, counted from the last trip or from the moment enforcement was switched on.
RecoveryEarned ==
  [][enforcing' /\ authorized' /\ ~(enforcing /\ authorized) => calm' >= RequiredCycles]_vars

\* While a car draws, loads answer only when the chargers had been stopped in the cycle before as well.
\* The cycle that switches enforcement on is the exception: an observing guard has been counting too.
ChargersFirst ==
  [][asked' # asked /\ asked' # {} /\ Drawing => blockedFor >= FirstCycles \/ fresh]_vars

\* The guard keeps what it promises the loads: PhaseLatch.
KeepsLatch == Latch!Spec
=============================================================================
