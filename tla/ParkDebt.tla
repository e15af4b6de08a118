------------------------------ MODULE ParkDebt ------------------------------
(***************************************************************************)
(* Who owes a refusing wallbox its release (#935), and the dead man's OFF  *)
(* that SEM arms in the box behind every stop (#740, #1163):               *)
(*                                                                         *)
(*   devices/base.py   start_session, stop_session, park_off, the park     *)
(*                     record, adopt_park_state, release_to_user, the two  *)
(*                     failsafe arms, the read-back and its resends        *)
(*   __init__.py       adoption, reload, disabling, removal                *)
(*   coordinator.py    the observer mode told to the devices per cycle     *)
(*                                                                         *)
(* One box with an enable, a disable and a failsafe service.  A command is *)
(* a sequence of awaited calls; between them the read-backs, the resends   *)
(* and the adoption run as tasks of their own, the user flips observer     *)
(* mode, and the process may die.  Entries are unloaded between commands.  *)
(* A call may raise without reaching the box; a failsafe write may also    *)
(* get lost on the way.  The store takes every write it is given.          *)
(***************************************************************************)
EXTENDS Naturals

CONSTANTS
  Tries,    \* DEADMAN_MAX_TRIES
  MaxFaults \* bound: calls that fail in a behaviour

ASSUME TriesAssumption == Tries \in Nat \ {0}
ASSUME BoundAssumption == MaxFaults \in Nat

VARIABLES
  enabled,  \* the box: its contactor may close
  failsafe, \* the box: what it falls back to without SEM, the charging "floor" or "zero" amps
  dev,      \* the device object: _sem_parked, _session_active, observer_mode
  ask,      \* its dead man's OFF with the current _deadman_gen: not yet sent, or to be read back
  stray,    \* one of a device object that a reload has replaced
  op,       \* the command under way and the call it waits for
  record,   \* the box is named in sem.parked.<entry>
  observer, \* coordinator._observer_mode
  adopting, \* the adoption task: "none", "reading" the store, "found" the box in it
  life,     \* "up", "disabling", "removing", "gone"
  faults,
  \* kept for the properties only
  said,     \* the box says no because SEM told it to, and SEM has not told it yes since
  slip      \* something happened that the code does not promise to follow: a kill between a verb and
            \* its record, a debt adopted after it was paid, a park that failed and armed its OFF, a
            \* start without either of its arms, a resend of a replaced object, a hand-back that failed

box   == <<enabled, failsafe>>
asks  == <<ask, stray>>
entry == <<record, observer, adopting, life>>
ghost == <<said, slip>>
parkVars == <<enabled, failsafe, dev, ask, stray, op, record, observer, adopting, life, faults, said, slip>>

Asks == [at : {"settling", "waiting"}, try : 1 .. Tries] \cup {[at |-> "none", try |-> 0]}
NoAsk == [at |-> "none", try |-> 0]
Starting  == {"enable", "startRecord"}
Stopping  == {"stopSettle", "stopRecord", "parkRecord", "parkSettle"}
Releasing == {"releaseEnable", "releaseArm", "releaseRecord"}

ParkTypeOK ==
  /\ enabled \in BOOLEAN /\ failsafe \in {"floor", "zero"}
  /\ dev \in [parked : BOOLEAN, session : BOOLEAN, observer : BOOLEAN]
  /\ ask \in Asks /\ stray \in Asks
  /\ op \in {"none"} \cup Starting \cup Stopping \cup Releasing
  /\ record \in BOOLEAN /\ observer \in BOOLEAN /\ adopting \in {"none", "reading", "found"}
  /\ life \in {"up", "disabling", "removing", "gone"} /\ faults \in 0 .. MaxFaults
  /\ said \in BOOLEAN /\ slip \in BOOLEAN

Fault   == faults < MaxFaults /\ faults' = faults + 1
NoFault == UNCHANGED faults

\* A device object as setup builds it and tells it the mode.
NewDevice == [parked |-> FALSE, session |-> FALSE, observer |-> observer]
AdoptionStarts == adopting' = IF observer THEN "none" ELSE "reading"

ParkInit ==
  /\ enabled = TRUE /\ failsafe = "floor" /\ said = FALSE /\ slip = FALSE
  /\ observer \in BOOLEAN /\ record = FALSE /\ faults = 0 /\ life = "up"
  /\ dev = NewDevice /\ ask = NoAsk /\ stray = NoAsk /\ op = "none"
  /\ adopting = IF observer THEN "none" ELSE "reading"

-----------------------------------------------------------------------------
(* The calls.  In observer mode send withholds all of them.                *)

Says(yes) ==
  IF dev.observer THEN UNCHANGED <<enabled, said>> ELSE enabled' = yes /\ said' = ~yes

MutArmFloor ==
  /\ \/ failsafe' = (IF dev.observer THEN failsafe ELSE "floor") /\ NoFault
     \/ Fault /\ UNCHANGED failsafe
  /\ UNCHANGED ask

\* arm_failsafe: the charging failsafe; a dead man's OFF still out is void.
ArmFloor ==
  /\ ask' = NoAsk
  /\ \/ failsafe' = (IF dev.observer THEN failsafe ELSE "floor") /\ NoFault
     \/ Fault /\ UNCHANGED failsafe

\* arm_failsafe_off up to its sleep.
ArmOff(try) == ask' = [at |-> "settling", try |-> try]

\* ... and after it: landed, lost or raised.
SendOff ==
  /\ ask.at = "settling"
  /\ \/ dev.observer /\ ask' = NoAsk /\ UNCHANGED failsafe /\ NoFault
     \/ ~dev.observer /\ ask' = [ask EXCEPT !.at = "waiting"] /\ failsafe' = "zero" /\ NoFault
     \/ ~dev.observer /\ ask' \in {[ask EXCEPT !.at = "waiting"], NoAsk} /\ Fault /\ UNCHANGED failsafe

\* _remember_parked: observer mode takes no debt and pays none.
Owes(yes) == IF dev.observer THEN dev.parked ELSE yes
Recorded  == record' = IF dev.observer THEN record ELSE dev.parked

-----------------------------------------------------------------------------
(* Commands.                                                               *)

Ready == life = "up" /\ op = "none"

\* START_AND_WRITE: arm_failsafe, then start_session unless one is open.  The session's own arm does
\* what this one did: when both fail the box charges on over a dead man's OFF.
Start ==
  /\ Ready /\ ArmFloor
  /\ op' = IF dev.session THEN "none" ELSE "enable"
  /\ slip' = (slip \/ (failsafe' = "zero" /\ ~dev.observer))
  /\ UNCHANGED <<enabled, dev, stray, entry, said>>

Enable ==
  /\ op = "enable"
  /\ \/ /\ NoFault /\ Says(TRUE) /\ op' = "startRecord"
        /\ dev' = [dev EXCEPT !.session = TRUE, !.parked = Owes(FALSE)]
     \/ ~dev.observer /\ Fault /\ op' = "none" /\ UNCHANGED <<enabled, said, dev>>
  /\ UNCHANGED <<failsafe, asks, entry, slip>>

MutStartRecord ==
  /\ op = "startRecord" /\ op' = "none"
  /\ UNCHANGED <<record, box, dev, asks, observer, adopting, life, faults, ghost>>

StartRecord ==
  /\ op = "startRecord" /\ Recorded /\ op' = "none"
  /\ UNCHANGED <<box, dev, asks, observer, adopting, life, faults, ghost>>

\* stop_session.  Its debt is taken after the dead man's OFF has been sent.
Stop ==
  /\ Ready
  /\ \/ NoFault /\ Says(FALSE) /\ ArmOff(1) /\ op' = "stopSettle"
     \/ ~dev.observer /\ Fault /\ UNCHANGED <<enabled, said, ask, op>>
  /\ UNCHANGED <<failsafe, dev, stray, entry, slip>>

StopSettled ==
  /\ op = "stopSettle" /\ SendOff /\ op' = "stopRecord"
  /\ dev' = [dev EXCEPT !.parked = Owes(TRUE)]
  /\ UNCHANGED <<enabled, stray, entry, ghost>>

StopRecord ==
  /\ op = "stopRecord" /\ Recorded /\ op' = "none"
  /\ dev' = [dev EXCEPT !.session = FALSE]
  /\ UNCHANGED <<box, asks, observer, adopting, life, faults, ghost>>

\* park_off
Park ==
  /\ Ready /\ ~dev.observer /\ Says(FALSE)
  /\ dev' = [dev EXCEPT !.parked = TRUE] /\ op' = "parkRecord"
  /\ UNCHANGED <<failsafe, asks, entry, faults, slip>>

\* ... withheld or raised: no debt, and the dead man's OFF is armed all the same.
ParkUnheard ==
  /\ Ready /\ IF dev.observer THEN NoFault ELSE Fault
  /\ dev' = [dev EXCEPT !.session = FALSE] /\ ArmOff(1) /\ op' = "parkSettle"
  /\ slip' = (slip \/ ~dev.observer)
  /\ UNCHANGED <<box, stray, entry, said>>

ParkRecord ==
  /\ op = "parkRecord" /\ Recorded /\ ArmOff(1) /\ op' = "parkSettle"
  /\ dev' = [dev EXCEPT !.session = FALSE]
  /\ UNCHANGED <<box, stray, observer, adopting, life, faults, ghost>>

ParkSettled ==
  /\ op = "parkSettle" /\ SendOff /\ op' = "none"
  /\ UNCHANGED <<enabled, dev, stray, entry, ghost>>

-----------------------------------------------------------------------------
(* The read-back half a minute later, and its resends.  The sensor is      *)
(* polled and may show either failsafe.                                    *)

After(a, session) ==
  {NoAsk} \cup (IF a.try < Tries /\ ~session THEN {[at |-> "settling", try |-> a.try + 1]} ELSE {})

ReadBack ==
  /\ ask.at = "waiting" /\ ask' \in After(ask, dev.session)
  /\ UNCHANGED <<box, dev, stray, op, entry, faults, ghost>>

Resend ==
  /\ op \notin {"stopSettle", "parkSettle"} /\ SendOff
  /\ UNCHANGED <<enabled, dev, stray, op, entry, ghost>>

\* A reload cancels neither; the replaced object knows of no session and no hand-back.
StrayReadBack ==
  /\ stray.at = "waiting" /\ stray' \in After(stray, FALSE)
  /\ UNCHANGED <<box, dev, ask, op, entry, faults, ghost>>

StrayResend ==
  /\ stray.at = "settling" /\ failsafe' = "zero"
  /\ stray' = [stray EXCEPT !.at = "waiting"]
  /\ slip' = (slip \/ ~said \/ op = "enable")
  /\ UNCHANGED <<enabled, dev, ask, op, entry, faults, said>>

-----------------------------------------------------------------------------
(* Observer mode and the adoption.                                         *)

Toggle ==
  /\ observer' = ~observer
  /\ UNCHANGED <<box, dev, asks, op, record, adopting, life, faults, ghost>>

MutTell ==
  /\ Ready /\ dev.observer # observer /\ dev' = [dev EXCEPT !.observer = observer]
  /\ UNCHANGED <<box, asks, op, entry, faults, ghost>>

\* _push_observer_mode_to_devices; a cycle that commands again reads the record again.  A store
\* that is still being read has been read by the next cycle.
Tell ==
  /\ Ready /\ dev.observer # observer /\ dev' = [dev EXCEPT !.observer = observer]
  /\ IF observer THEN UNCHANGED adopting ELSE adopting = "none" /\ adopting' = "reading"
  /\ UNCHANGED <<box, asks, op, record, observer, life, faults, ghost>>

AdoptRead ==
  /\ adopting = "reading" /\ adopting' = IF record THEN "found" ELSE "none"
  /\ UNCHANGED <<box, dev, asks, op, record, observer, life, faults, ghost>>

\* What was read may have been paid in the meantime.
AdoptTake ==
  /\ adopting = "found" /\ adopting' = "none"
  /\ dev' = [dev EXCEPT !.parked = @ \/ ~dev.observer]
  /\ slip' = (slip \/ (~dev.observer /\ ~(record /\ said)))
  /\ UNCHANGED <<box, asks, op, record, observer, life, faults, said>>

-----------------------------------------------------------------------------
(* The entry's lifetime.                                                   *)

\* A reload leaves the box as it is, and the tasks of the old object alive.
Reload ==
  /\ Ready
  /\ dev' = NewDevice /\ AdoptionStarts /\ ask' = NoAsk
  /\ stray' = IF ask # NoAsk /\ ~dev.observer THEN ask ELSE stray
  /\ UNCHANGED <<box, op, record, observer, life, faults, ghost>>

\* The process ends, at any moment.
Kill ==
  /\ life # "gone"
  /\ life' = IF life = "disabling" THEN "gone" ELSE "up"
  /\ dev' = NewDevice /\ ask' = NoAsk /\ stray' = NoAsk /\ op' = "none"
  /\ IF life = "disabling" THEN adopting' = "none" ELSE AdoptionStarts
  /\ slip' = (slip \/ said # record \/ life # "up")
  /\ UNCHANGED <<box, record, observer, faults, said>>

\* Only a lifetime that commanded hands back, and only what it knows to be parked.
HandsBack == ~observer /\ dev.parked /\ ~dev.observer

\* SEM is switched off before it knew what it owes, or while it only watches.
Unaware == observer \/ dev.observer \/ adopting # "none"

Leave(how) ==
  /\ Ready /\ adopting' = "none"
  /\ slip' = (slip \/ (Unaware /\ said))
  /\ \/ HandsBack /\ life' = how /\ op' = "releaseEnable" /\ UNCHANGED record
     \/ /\ ~HandsBack /\ life' = "gone" /\ UNCHANGED op
        /\ record' = (record /\ how = "disabling")
  /\ UNCHANGED <<box, dev, asks, observer, faults, said>>

\* release_to_user
ReleaseEnable ==
  /\ op = "releaseEnable" /\ op' = "releaseArm"
  /\ \/ NoFault /\ Says(TRUE) /\ UNCHANGED slip
     \/ Fault /\ slip' = TRUE /\ UNCHANGED <<enabled, said>>
  /\ UNCHANGED <<failsafe, dev, asks, entry>>

ReleaseArm ==
  /\ op = "releaseArm" /\ ArmFloor /\ op' = "releaseRecord"
  /\ slip' = (slip \/ faults' # faults)
  /\ UNCHANGED <<enabled, dev, stray, entry, said>>

\* The record is cleared whether or not the calls went through; a removal takes the store with it.
ReleaseRecord ==
  /\ op = "releaseRecord" /\ op' = "none" /\ life' = "gone" /\ record' = FALSE
  /\ dev' = [dev EXCEPT !.parked = FALSE]
  /\ UNCHANGED <<box, asks, observer, adopting, faults, ghost>>

\* Enabled, or added, again.
Setup ==
  /\ life = "gone" /\ life' = "up"
  /\ dev' = NewDevice /\ AdoptionStarts /\ ask' = NoAsk
  /\ stray' = IF ask # NoAsk /\ ~dev.observer THEN ask ELSE stray
  /\ slip' = (slip \/ said # record)
  /\ UNCHANGED <<box, op, record, observer, faults, said>>

ParkNext ==
  \/ Start \/ Enable \/ StartRecord
  \/ Stop \/ StopSettled \/ StopRecord
  \/ Park \/ ParkUnheard \/ ParkRecord \/ ParkSettled
  \/ ReadBack \/ Resend \/ StrayReadBack \/ StrayResend
  \/ Toggle \/ Tell \/ AdoptRead \/ AdoptTake
  \/ Reload \/ Kill \/ Leave("disabling") \/ Leave("removing")
  \/ ReleaseEnable \/ ReleaseArm \/ ReleaseRecord \/ Setup

ParkSpec == ParkInit /\ [][ParkNext]_parkVars

-----------------------------------------------------------------------------
(* Properties.                                                             *)

\* Between commands SEM's books are true: the record names the box exactly when SEM's no stands, the
\* device never believes in a debt there is none of, and a commanding lifetime that has read the
\* record knows its debt - across lifetimes, observer mode and failing calls (#935, #1027).
BooksAreTrue ==
  Ready /\ ~slip =>
    /\ record = said
    /\ dev.parked => said
    /\ said /\ ~dev.observer /\ adopting = "none" => dev.parked

\* The box SEM leaves behind has no refusal of SEM's in it: neither the disable nor the dead man's
\* OFF, and no task that is still running puts one there (#935).
NoRefusalLeft == life = "gone" /\ ~slip => enabled /\ failsafe = "floor"

\* A dead man's OFF lands only behind a no of SEM's that still stands: never in a box that has been
\* told to charge since, by its own stop's late resend or by anybody's (#1163).  The hand-back, which
\* arms after its enable, undoes one that slips in between.
DeadManBehindNo ==
  [][failsafe # "zero" /\ failsafe' = "zero" => said \/ op = "releaseArm" \/ slip']_parkVars
=============================================================================
