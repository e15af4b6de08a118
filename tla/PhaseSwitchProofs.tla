-------------------------- MODULE PhaseSwitchProofs --------------------------
(***************************************************************************)
(* What PhaseSwitch promises for every delay, cap and box.                 *)
(***************************************************************************)
EXTENDS PhaseSwitch, TLAPS

USE DEF NoPhase, AutoMode

\* Older stays within its cap.
LEMMA OlderBounded ==
  ASSUME NEW cap \in Nat, NEW age \in 0 .. cap
  PROVE  Older(age, cap) \in 0 .. cap /\ Older(age, cap) >= age
BY DEF Older

\* A sustain clock stays within its cap or does not run.
LEMMA RunningBounded ==
  ASSUME NEW cap \in Nat, NEW age \in -1 .. cap
  PROVE  Running(age, cap) \in -1 .. cap
BY DEF Running, Older

\* The caps are natural numbers.
LEMMA CapsAreNat ==
  /\ Longest \in Nat /\ Rarest \in Nat /\ Larger(Settle + 1, StopWait) \in Nat
  /\ Gap <= Rarest /\ AutoInterval <= Rarest
  /\ UpDelay + 1 <= Longest /\ DownDelay + 1 <= Longest
BY DelayAssumption DEF Longest, Rarest, Larger

-----------------------------------------------------------------------------
(* Type correctness: the clocks and the values, one step per action.       *)

LEMMA InitTyped == Init => TypeOK
<1> SUFFICES ASSUME Init PROVE TypeOK
  OBVIOUS
<1> USE DelayAssumption, CapsAreNat
<1>1. ClocksOK
  BY DEF Init, ClocksOK
<1>2. ValuesOK
  BY DEF Init, ValuesOK
<1> QED BY <1>1, <1>2 DEF TypeOK

LEMMA StepTyped == TypeOK /\ [Next]_vars => TypeOK'
<1> SUFFICES ASSUME TypeOK, [Next]_vars PROVE TypeOK'
  OBVIOUS
<1> USE DelayAssumption, CapsAreNat
<1>0. ClocksOK /\ ValuesOK
  BY DEF TypeOK
<1>car. ASSUME CarTime
        PROVE  /\ pluggedFor' \in 0 .. Longest /\ lastSwitch' \in 0 .. Rarest
               /\ autoSwitches' \in 0 .. AutoMax + 1
  BY <1>car, <1>0, OlderBounded DEF CarTime, ClocksOK
<1>el. ASSUME Elapse
       PROVE  /\ since' \in 0 .. Larger(Settle + 1, StopWait) /\ gapAge' \in 0 .. Gap
              /\ autoAge' \in 0 .. AutoInterval
  <2>1. Older(since, Larger(Settle + 1, StopWait)) \in 0 .. Larger(Settle + 1, StopWait)
    BY <1>0, OlderBounded DEF ClocksOK
  <2>2. Older(gapAge, Gap) \in 0 .. Gap /\ Older(autoAge, AutoInterval) \in 0 .. AutoInterval
    BY <1>0, OlderBounded DEF ClocksOK
  <2>3. 0 \in 0 .. Larger(Settle + 1, StopWait)
    OBVIOUS
  <2> QED BY <1>el, <2>1, <2>2, <2>3 DEF Elapse
<1>m. CASE Measure
  <2>1. PICK est \in Estimates : believed' = Belief(est)
    BY <1>m DEF Measure
  <2>2. believed' \in {NoPhase, 1, 2, 3}
    BY <2>1, <1>0 DEF Estimates, Belief, ValuesOK
  <2>3. since' \in 0 .. Larger(Settle + 1, StopWait) /\ gapAge' \in 0 .. Gap
        /\ autoAge' \in 0 .. AutoInterval
    BY <1>m, <1>el DEF Measure
  <2>4. upFor' \in -1 .. UpDelay + 1 /\ downFor' \in -1 .. DownDelay + 1
        /\ switches' \in 0 .. AutoMax
    BY <1>m, <1>0, RunningBounded DEF Measure, NewSession, ClocksOK
  <2>5. pluggedFor' \in 0 .. Longest /\ lastSwitch' \in 0 .. Rarest
        /\ autoSwitches' \in 0 .. AutoMax + 1
    BY <1>m, <1>0, <1>car DEF Measure
  <2>6. count' \in 0 .. NotTaking
    BY <1>m, <1>0, OlderBounded DEF Measure, Contradiction, ClocksOK
  <2>7. ClocksOK'
    BY <2>3, <2>4, <2>5, <2>6 DEF ClocksOK
  <2>8. /\ tried' \in BOOLEAN /\ logged' \in BOOLEAN /\ missed' \in BOOLEAN
        /\ stopOut' \in BOOLEAN /\ plug' \in BOOLEAN /\ connected' \in BOOLEAN
        /\ pressing' \in BOOLEAN /\ ready' \in BOOLEAN
    BY <1>m, <1>0, Zenon DEF Measure, CarTime, StillMissed, ValuesOK
  <2>9. /\ target' \in {NoPhase, 1, 3} /\ asserted' \in {NoPhase, 1, 3}
        /\ desired' \in {NoPhase, 1, 3} /\ pending' \in {NoPhase, 1, 3}
        /\ pc' \in {"sense", "want", "tick"} /\ mode' \in {AutoMode, 1, 3}
        /\ state' \in {"idle", "stopping", "settling"}
    BY <1>m, <1>0 DEF Measure, Contradiction, ValuesOK, user
  <2>10. observer' \in BOOLEAN /\ drawing' \in BOOLEAN
    BY <1>m, <1>0 DEF Measure, ValuesOK, user
  <2>11. ValuesOK'
    BY <2>2, <2>8, <2>9, <2>10 DEF ValuesOK
  <2> QED BY <2>7, <2>11 DEF TypeOK
<1>sk. CASE Skip
  <2>1. UNCHANGED <<pc, locals, connected, user, state, pending, switches, believed, contra,
                    drawing, stopOut, blame>>
    BY <1>sk DEF Skip
  <2>2. /\ since' \in 0 .. Larger(Settle + 1, StopWait) /\ gapAge' \in 0 .. Gap
        /\ autoAge' \in 0 .. AutoInterval
    BY <1>sk, <1>el DEF Skip
  <2>3. pluggedFor' \in 0 .. Longest /\ lastSwitch' \in 0 .. Rarest
        /\ autoSwitches' \in 0 .. AutoMax + 1
    BY <1>sk, <1>car DEF Skip
  <2>4. upFor' \in -1 .. UpDelay + 1 /\ downFor' \in -1 .. DownDelay + 1
    BY <1>sk, <1>0, RunningBounded DEF Skip, ClocksOK
  <2>5. plug' \in BOOLEAN /\ missed' \in BOOLEAN
    BY <1>sk, <1>0, Zenon DEF Skip, CarTime, StillMissed, ValuesOK
  <2>6. ClocksOK'
    BY <2>1, <2>2, <2>3, <2>4, <1>0 DEF ClocksOK, contra
  <2>7. ValuesOK'
    BY <2>1, <2>5, <1>0 DEF ValuesOK, locals, user, contra, blame
  <2> QED BY <2>6, <2>7 DEF TypeOK
<1>aim. ASSUME NEW t \in {1, 3}, Aim(t)
        PROVE  /\ target' \in {NoPhase, 1, 3} /\ desired' \in {NoPhase, 1, 3}
               /\ count' \in 0 .. NotTaking /\ tried' \in BOOLEAN /\ logged' \in BOOLEAN
  <2>1. tried' \in BOOLEAN /\ logged' \in BOOLEAN
    BY <1>aim DEF Aim
  <2> QED BY <2>1, <1>aim, <1>0 DEF Aim, ClocksOK
<1>noaim. ASSUME NoAim
          PROVE  /\ target' \in {NoPhase, 1, 3} /\ desired' \in {NoPhase, 1, 3}
                 /\ count' \in 0 .. NotTaking /\ tried' \in BOOLEAN /\ logged' \in BOOLEAN
  BY <1>noaim, <1>0 DEF NoAim, blame, ClocksOK, ValuesOK
<1>want. ASSUME Wanting, upFor' \in -1 .. UpDelay + 1, downFor' \in -1 .. DownDelay + 1,
                target' \in {NoPhase, 1, 3}, desired' \in {NoPhase, 1, 3},
                count' \in 0 .. NotTaking, tried' \in BOOLEAN, logged' \in BOOLEAN
         PROVE  TypeOK'
  <2>1. ClocksOK'
    BY <1>want, <1>0 DEF Wanting, ClocksOK, seq
  <2>2. /\ observer' \in BOOLEAN /\ plug' \in BOOLEAN /\ connected' \in BOOLEAN
        /\ pressing' \in BOOLEAN /\ ready' \in BOOLEAN /\ drawing' \in BOOLEAN
        /\ missed' \in BOOLEAN /\ stopOut' \in BOOLEAN
    BY <1>want, <1>0, Zenon DEF Wanting, ValuesOK, user
  <2>3. /\ pc' \in {"sense", "want", "tick"} /\ mode' \in {AutoMode, 1, 3}
        /\ state' \in {"idle", "stopping", "settling"} /\ pending' \in {NoPhase, 1, 3}
        /\ believed' \in {NoPhase, 1, 2, 3} /\ asserted' \in {NoPhase, 1, 3}
    BY <1>want, <1>0 DEF Wanting, ValuesOK, seq, user
  <2>4. ValuesOK'
    BY <1>want, <2>2, <2>3 DEF ValuesOK
  <2> QED BY <2>1, <2>4 DEF TypeOK
<1>wm. CASE WantManual
  <2>1. mode \in {1, 3}
    BY <1>wm, <1>0 DEF WantManual, ValuesOK
  <2>2. upFor' \in -1 .. UpDelay + 1 /\ downFor' \in -1 .. DownDelay + 1
    BY <1>wm, <1>0 DEF WantManual, ClocksOK
  <2>3. Wanting /\ Aim(mode)
    BY <1>wm DEF WantManual
  <2> QED BY <2>1, <2>2, <2>3, <1>aim, <1>want
<1>wn. CASE WantNothing
  <2>1. upFor' \in -1 .. UpDelay + 1 /\ downFor' \in -1 .. DownDelay + 1
    BY <1>wn, <1>0 DEF WantNothing, ClocksOK
  <2>2. Wanting /\ NoAim
    BY <1>wn DEF WantNothing
  <2> QED BY <2>1, <2>2, <1>noaim, <1>want
<1>wa. CASE WantAuto
  <2>1. upFor' \in -1 .. UpDelay + 1 /\ downFor' \in -1 .. DownDelay + 1
    BY <1>wa, <1>0 DEF WantAuto, Since, ClocksOK
  <2>2. Wanting /\ (Aim(1) \/ Aim(3) \/ NoAim)
    BY <1>wa DEF WantAuto
  <2> QED BY <2>1, <2>2, <1>aim, <1>noaim, <1>want
<1>row. ASSUME Row,
               state' \in {"idle", "stopping", "settling"}, pending' \in {NoPhase, 1, 3},
               since' \in 0 .. Larger(Settle + 1, StopWait), gapAge' \in 0 .. Gap,
               upFor' \in -1 .. UpDelay + 1, downFor' \in -1 .. DownDelay + 1,
               autoAge' \in 0 .. AutoInterval, switches' \in 0 .. AutoMax,
               believed' \in {NoPhase, 1, 2, 3}, target' \in {NoPhase, 1, 3},
               count' \in 0 .. NotTaking, asserted' \in {NoPhase, 1, 3},
               autoSwitches' \in 0 .. AutoMax + 1, lastSwitch' \in 0 .. Rarest,
               stopOut' \in BOOLEAN, tried' \in BOOLEAN, logged' \in BOOLEAN
        PROVE  TypeOK'
  <2>1. ClocksOK'
    BY <1>row, <1>0 DEF Row, ClocksOK
  <2>2. ValuesOK'
    BY <1>row, <1>0 DEF Row, ValuesOK, user
  <2> QED BY <2>1, <2>2 DEF TypeOK
<1>quiet. ASSUME Quiet
          PROVE  /\ upFor' \in -1 .. UpDelay + 1 /\ downFor' \in -1 .. DownDelay + 1
                 /\ autoAge' \in 0 .. AutoInterval /\ switches' \in 0 .. AutoMax
                 /\ autoSwitches' \in 0 .. AutoMax + 1 /\ lastSwitch' \in 0 .. Rarest
                 /\ tried' \in BOOLEAN /\ logged' \in BOOLEAN
  BY <1>quiet, <1>0 DEF Quiet, planner, blame, ClocksOK, ValuesOK
<1>same. ASSUME UNCHANGED <<seq, believed, contra>>
         PROVE  /\ state' \in {"idle", "stopping", "settling"} /\ pending' \in {NoPhase, 1, 3}
                /\ since' \in 0 .. Larger(Settle + 1, StopWait) /\ gapAge' \in 0 .. Gap
                /\ believed' \in {NoPhase, 1, 2, 3} /\ target' \in {NoPhase, 1, 3}
                /\ count' \in 0 .. NotTaking /\ asserted' \in {NoPhase, 1, 3}
  BY <1>same, <1>0 DEF seq, contra, ClocksOK, ValuesOK
<1>abort. ASSUME Abort
          PROVE  /\ state' \in {"idle", "stopping", "settling"} /\ pending' \in {NoPhase, 1, 3}
                 /\ since' \in 0 .. Larger(Settle + 1, StopWait) /\ gapAge' \in 0 .. Gap
                 /\ stopOut' \in BOOLEAN
  <2>1. stopOut' \in BOOLEAN
    BY <1>abort DEF Abort
  <2> QED BY <2>1, <1>abort, <1>0 DEF Abort, ClocksOK
<1>1. CASE Rest
  <2>1. stopOut' \in BOOLEAN
    BY <1>1, <1>0 DEF Rest, ValuesOK
  <2> QED BY <2>1, <1>1, <1>row, <1>quiet, <1>same DEF Rest
<1>2. CASE StartStop
  <2>1. /\ Row /\ Quiet /\ state' = "stopping" /\ pending' = desired /\ since' = 0
        /\ UNCHANGED <<gapAge, believed, contra>>
    BY <1>2 DEF StartStop
  <2>2. /\ pending' \in {NoPhase, 1, 3} /\ since' \in 0 .. Larger(Settle + 1, StopWait)
        /\ gapAge' \in 0 .. Gap
        /\ believed' \in {NoPhase, 1, 2, 3} /\ target' \in {NoPhase, 1, 3}
        /\ count' \in 0 .. NotTaking /\ asserted' \in {NoPhase, 1, 3}
    BY <2>1, <1>0 DEF contra, ClocksOK, ValuesOK
  <2>3. stopOut' \in BOOLEAN
    BY <1>2 DEF StartStop, StopGoesOut
  <2> QED BY <2>1, <2>2, <2>3, <1>row, <1>quiet
<1>3. CASE AwaitStop
  <2>1. stopOut' \in BOOLEAN
    BY <1>3 DEF AwaitStop, StopGoesOut
  <2> QED BY <2>1, <1>3, <1>row, <1>quiet, <1>same DEF AwaitStop
<1>4. CASE GiveUp
  <2>1. Row /\ Abort
    BY <1>4 DEF GiveUp, GivingUp
  <2>2. /\ target' \in {NoPhase, 1, 3} /\ count' \in 0 .. NotTaking
        /\ believed' \in {NoPhase, 1, 2, 3} /\ asserted' \in {NoPhase, 1, 3}
    BY <1>4, <1>0 DEF GiveUp, GivingUp, ClocksOK, ValuesOK
  <2>3. tried' \in BOOLEAN /\ logged' \in BOOLEAN
    BY <1>4, <1>0, Zenon DEF GiveUp, blame, ValuesOK
  <2>4. /\ upFor' \in -1 .. UpDelay + 1 /\ downFor' \in -1 .. DownDelay + 1
        /\ autoAge' \in 0 .. AutoInterval /\ switches' \in 0 .. AutoMax
        /\ autoSwitches' \in 0 .. AutoMax + 1 /\ lastSwitch' \in 0 .. Rarest
    BY <1>4, <1>0 DEF GivingUp, GiveUp, planner, ClocksOK
  <2> QED BY <2>1, <2>2, <2>3, <2>4, <1>row, <1>abort
<1>5. CASE DropIt
  <2>1. /\ Row /\ Quiet /\ Abort /\ UNCHANGED <<believed, contra>>
    BY <1>5 DEF DropIt
  <2>2. /\ believed' \in {NoPhase, 1, 2, 3} /\ target' \in {NoPhase, 1, 3}
        /\ count' \in 0 .. NotTaking /\ asserted' \in {NoPhase, 1, 3}
    BY <2>1, <1>0 DEF contra, ClocksOK, ValuesOK
  <2> QED BY <2>1, <2>2, <1>row, <1>quiet, <1>abort
<1>6. CASE Fire
  <2>1. Row /\ NoteSwitched /\ state' = "settling" /\ pending' = desired /\ since' = 0 /\ gapAge' = 0
    BY <1>6 DEF Fire
  <2>2. /\ pending' \in {NoPhase, 1, 3} /\ since' \in 0 .. Larger(Settle + 1, StopWait)
        /\ gapAge' \in 0 .. Gap
        /\ believed' \in {NoPhase, 1, 2, 3} /\ target' \in {NoPhase, 1, 3}
        /\ count' \in 0 .. NotTaking /\ asserted' \in {NoPhase, 1, 3}
    BY <1>6, <2>1, <1>0 DEF Fire, contra, ClocksOK, ValuesOK
  <2>3. /\ upFor' \in -1 .. UpDelay + 1 /\ downFor' \in -1 .. DownDelay + 1
        /\ autoAge' \in 0 .. AutoInterval /\ switches' \in 0 .. AutoMax
    BY <2>1, <1>0, OlderBounded DEF NoteSwitched, ClocksOK
  <2>4. autoSwitches' \in 0 .. AutoMax + 1 /\ lastSwitch' \in 0 .. Rarest
    BY <1>6, <1>0, OlderBounded DEF Fire, ClocksOK
  <2>5. tried' \in BOOLEAN /\ logged' \in BOOLEAN /\ stopOut' \in BOOLEAN
    BY <1>6 DEF Fire
  <2> QED BY <2>1, <2>2, <2>3, <2>4, <2>5, <1>row
<1>7. CASE HoldStill
  <2>1. stopOut' \in BOOLEAN
    BY <1>7, <1>0 DEF HoldStill, ValuesOK
  <2> QED BY <2>1, <1>7, <1>row, <1>quiet, <1>same DEF HoldStill
<1>8. CASE SettleEnd
  <2>1. Row /\ Quiet /\ Abort
    BY <1>8 DEF SettleEnd
  <2>2. /\ believed' \in {NoPhase, 1, 2, 3} /\ target' \in {NoPhase, 1, 3}
        /\ count' \in 0 .. NotTaking /\ asserted' \in {NoPhase, 1, 3}
    BY <1>8, <1>0 DEF SettleEnd, ClocksOK, ValuesOK
  <2> QED BY <2>1, <2>2, <1>row, <1>quiet, <1>abort
<1>between. ASSUME Between, mode' \in {AutoMode, 1, 3}, observer' \in BOOLEAN, drawing' \in BOOLEAN
            PROVE  TypeOK'
  <2>1. ClocksOK'
    BY <1>between, <1>0 DEF Between, ClocksOK, seq, planner, contra, ghosts
  <2>2. ValuesOK'
    BY <1>between, <1>0 DEF Between, ValuesOK, seq, planner, contra, ghosts, blame, locals
  <2> QED BY <2>1, <2>2 DEF TypeOK
<1>9. CASE CarMoves
  <2>1. drawing' \in BOOLEAN
    BY <1>9 DEF CarMoves
  <2>2. Between /\ mode' = mode /\ observer' = observer
    BY <1>9 DEF CarMoves, user
  <2>3. mode' \in {AutoMode, 1, 3}
    BY <2>2, <1>0 DEF ValuesOK
  <2>4. observer' \in BOOLEAN
    BY <2>2, <1>0, Zenon DEF ValuesOK
  <2> QED BY <2>1, <2>2, <2>3, <2>4, <1>between, Zenon
<1>10. CASE UserChooses
  <2>1. Between /\ mode' \in {AutoMode, 1, 3}
    BY <1>10 DEF UserChooses
  <2>2. observer' \in BOOLEAN /\ drawing' \in BOOLEAN
    BY <1>10, <1>0, Zenon DEF UserChooses, ValuesOK
  <2> QED BY <2>1, <2>2, <1>between, Zenon
<1>11. CASE ToggleObserver
  <2>1. observer' \in BOOLEAN
    BY <1>11 DEF ToggleObserver
  <2>2. Between /\ mode' = mode /\ drawing' = drawing
    BY <1>11 DEF ToggleObserver
  <2>3. mode' \in {AutoMode, 1, 3}
    BY <2>2, <1>0 DEF ValuesOK
  <2>4. drawing' \in BOOLEAN
    BY <2>2, <1>0, Zenon DEF ValuesOK
  <2> QED BY <2>1, <2>2, <2>3, <2>4, <1>between, Zenon
<1>12. CASE UNCHANGED vars
  <2>1. ClocksOK'
    BY <1>12, <1>0 DEF vars, ClocksOK, seq, planner, contra, ghosts
  <2>2. ValuesOK'
    BY <1>12, <1>0 DEF vars, ValuesOK, seq, planner, contra, ghosts, blame, locals, user
  <2> QED BY <2>1, <2>2 DEF TypeOK
<1> QED
  BY <1>m, <1>sk, <1>wm, <1>wn, <1>wa, <1>1, <1>2, <1>3, <1>4, <1>5, <1>6, <1>7, <1>8, <1>9, <1>10,
     <1>11, <1>12 DEF Next, Cycle, Rows

\* The tick's memory never leaves its bounds, for every choice of delays and caps.
THEOREM TypeCorrect == Spec => []TypeOK
BY InitTyped, StepTyped, PTL DEF Spec

-----------------------------------------------------------------------------
(* The contactor.                                                          *)

\* The ages the guards look at are no older than the last switch, and a stop is only begun
\* when the gap has passed.
Spared ==
  /\ gapAge <= lastSwitch /\ autoAge <= lastSwitch
  /\ (state = "stopping" => gapAge = Gap)

\* The planner's clocks are the plugged car's own, but for a car it missed.
OwnClocks ==
  connected /\ plug /\ ~missed => upFor <= pluggedFor /\ downFor <= pluggedFor

\* An automatic target rests on those clocks and on the caps.
Earned ==
  /\ OwnClocks /\ autoSwitches <= switches /\ (~connected => autoSwitches = 0)
  /\ (pc # "sense" => plug = connected)
  /\ pc = "tick" /\ mode = AutoMode /\ desired # NoPhase =>
       /\ connected /\ switches < AutoMax /\ autoAge = AutoInterval
       /\ (desired = 3 => upFor > UpDelay) /\ (desired = 1 => downFor > DownDelay)

\* Waiting longer keeps an age below another whose cap is no smaller.
LEMMA OlderMonotone ==
  ASSUME NEW c \in Nat, NEW d \in Nat, c <= d, NEW a \in 0 .. c, NEW b \in 0 .. d, a <= b
  PROVE  Older(a, c) <= Older(b, d)
BY DEF Older

\* The same for a sustain clock.
LEMMA RunningMonotone ==
  ASSUME NEW c \in Nat, NEW d \in Nat, c <= d, NEW a \in -1 .. c, NEW b \in 0 .. d, a <= b
  PROVE  Running(a, c) <= Older(b, d)
BY DEF Older, Running

LEMMA StepSpared == TypeOK /\ Spared /\ [Next]_vars => Spared'
<1> SUFFICES ASSUME TypeOK, Spared, [Next]_vars PROVE Spared'
  OBVIOUS
<1> USE DelayAssumption
<1>0. ClocksOK /\ ValuesOK
  BY DEF TypeOK
<1>m. CASE Measure \/ Skip
  <2>1. gapAge' = Older(gapAge, Gap) /\ autoAge' = Older(autoAge, AutoInterval)
        /\ lastSwitch' = Older(lastSwitch, Rarest) /\ state' = state
    BY <1>m DEF Measure, Skip, Elapse, CarTime
  <2>2. gapAge' <= lastSwitch' /\ autoAge' <= lastSwitch'
    BY <2>1, <1>0, CapsAreNat, OlderMonotone DEF Spared, ClocksOK
  <2>3. state' = "stopping" => gapAge' = Gap
    BY <2>1, <1>0 DEF Spared, Older, ClocksOK
  <2> QED BY <2>2, <2>3 DEF Spared
<1>w. CASE WantManual \/ WantNothing \/ WantAuto
  BY <1>w DEF WantManual, WantNothing, WantAuto, Wanting, Spared, seq
<1>1. CASE Rest \/ AwaitStop \/ HoldStill
  BY <1>1 DEF Rest, AwaitStop, HoldStill, Quiet, planner, Spared, seq
<1>2. CASE StartStop
  BY <1>2 DEF StartStop, Quiet, planner, Spared
<1>4. CASE GiveUp \/ DropIt \/ SettleEnd
  BY <1>4 DEF GiveUp, GivingUp, DropIt, SettleEnd, Abort, Quiet, planner, Spared
<1>6. CASE Fire
  BY <1>6 DEF Fire, NoteSwitched, Spared
<1>9. CASE CarMoves \/ UserChooses \/ ToggleObserver
  BY <1>9 DEF CarMoves, UserChooses, ToggleObserver, Between, seq, planner, ghosts, Spared
<1>12. CASE UNCHANGED vars
  BY <1>12 DEF vars, seq, planner, ghosts, Spared
<1> QED
  BY <1>m, <1>w, <1>1, <1>2, <1>4, <1>6, <1>9, <1>12 DEF Next, Cycle, Rows

\* A cycle, passed over or not, ages the clocks of a car that stays no faster than its plug.
LEMMA ClocksAge ==
  ASSUME TypeOK, OwnClocks, CarTime, connected, plug', ~StillMissed,
         upFor' = Running(upFor, UpDelay + 1), downFor' = Running(downFor, DownDelay + 1)
  PROVE  upFor' <= pluggedFor' /\ downFor' <= pluggedFor'
<1>1. plug /\ ~missed
  BY DEF StillMissed, TypeOK, ValuesOK
<1>2. pluggedFor' = Older(pluggedFor, Longest) /\ upFor <= pluggedFor /\ downFor <= pluggedFor
  BY <1>1 DEF CarTime, OwnClocks
<1>3. /\ upFor \in -1 .. UpDelay + 1 /\ downFor \in -1 .. DownDelay + 1
      /\ pluggedFor \in 0 .. Longest
  BY DEF TypeOK, ClocksOK
<1> QED BY <1>2, <1>3, CapsAreNat, DelayAssumption, RunningMonotone

LEMMA StepEarned == TypeOK /\ Earned /\ [Next]_vars => Earned'
<1> SUFFICES ASSUME TypeOK, Earned, [Next]_vars PROVE Earned'
  OBVIOUS
<1> USE DelayAssumption
<1>0. ClocksOK /\ ValuesOK
  BY DEF TypeOK
<1>m. CASE Measure
  <2>1. pc' = "want" /\ CarTime /\ connected' = plug'
    BY <1>m DEF Measure
  <2>2. CASE Replugged
    <3>1. upFor' = -1 /\ downFor' = -1 /\ switches' = 0 /\ autoSwitches' = 0
      BY <1>m, <2>1, <2>2 DEF Measure, NewSession, CarTime, Replugged, Earned
    <3>2. pluggedFor' \in Nat
      BY <2>1, <1>0, CapsAreNat, OlderBounded DEF CarTime, ClocksOK
    <3> QED BY <2>1, <2>2, <3>1, <3>2 DEF Earned, OwnClocks, Replugged
  <2>3. CASE ~Replugged
    <3>1. /\ upFor' = Running(upFor, UpDelay + 1) /\ downFor' = Running(downFor, DownDelay + 1)
          /\ switches' = switches
      BY <1>m, <2>3 DEF Measure, NewSession
    <3>m. StillMissed => missed'
      BY <1>m, <2>3, Zenon DEF Measure
    <3>2. autoSwitches' <= switches'
      BY <2>1, <3>1, <1>0 DEF CarTime, Earned, ClocksOK
    <3>3. ~connected' => autoSwitches' = 0
      BY <2>1 DEF CarTime
    <3>4. OwnClocks'
      <4>1. SUFFICES ASSUME connected', plug', ~missed'
                     PROVE  upFor' <= pluggedFor' /\ downFor' <= pluggedFor'
        BY DEF OwnClocks
      <4>2. connected /\ ~StillMissed
        BY <2>3, <3>m, <4>1 DEF Replugged
      <4> QED BY <2>1, <3>1, <4>1, <4>2, ClocksAge DEF Earned
    <3> QED BY <2>1, <3>2, <3>3, <3>4 DEF Earned
  <2> QED BY <2>2, <2>3
<1>sk. CASE Skip
  <2>1. /\ CarTime /\ pc = "sense" /\ UNCHANGED <<pc, connected, switches>>
        /\ upFor' = Running(upFor, UpDelay + 1) /\ downFor' = Running(downFor, DownDelay + 1)
        /\ missed' = StillMissed
    BY <1>sk DEF Skip
  <2>2. autoSwitches' <= switches' /\ (~connected' => autoSwitches' = 0)
    BY <2>1, <1>0 DEF CarTime, Earned, ClocksOK
  <2>3. OwnClocks'
    <3>1. SUFFICES ASSUME connected', plug', ~missed'
                   PROVE  upFor' <= pluggedFor' /\ downFor' <= pluggedFor'
      BY DEF OwnClocks
    <3> QED BY <2>1, <3>1, ClocksAge DEF Earned
  <2> QED BY <2>1, <2>2, <2>3 DEF Earned
<1>wm. CASE WantManual \/ WantNothing
  <2>1. mode' # AutoMode \/ desired' = NoPhase
    BY <1>wm DEF WantManual, WantNothing, Wanting, user, NoAim
  <2>2. /\ UNCHANGED <<upFor, downFor, pluggedFor, autoSwitches, switches, plug, connected,
                       missed>>
        /\ pc = "want"
    BY <1>wm DEF WantManual, WantNothing, Wanting
  <2> QED BY <2>1, <2>2 DEF Earned, OwnClocks
<1>wa. CASE WantAuto
  <2>1. /\ UNCHANGED <<pluggedFor, autoSwitches, switches, autoAge, plug, connected, missed>>
        /\ pc = "want" /\ connected
    BY <1>wa DEF WantAuto, Wanting
  <2>2. OwnClocks'
    BY <1>wa, <2>1, <1>0 DEF WantAuto, Since, Earned, OwnClocks, ClocksOK
  <2>3. CASE Permitted /\ believed = 3 /\ downFor' > DownDelay
    BY <1>wa, <2>1, <2>2, <2>3 DEF WantAuto, Aim, Permitted, Earned
  <2>4. CASE ~(Permitted /\ believed = 3 /\ downFor' > DownDelay)
             /\ Permitted /\ believed = 1 /\ upFor' > UpDelay
    BY <1>wa, <2>1, <2>2, <2>4 DEF WantAuto, Aim, Permitted, Earned
  <2>5. CASE /\ ~(Permitted /\ believed = 3 /\ downFor' > DownDelay)
             /\ ~(Permitted /\ believed = 1 /\ upFor' > UpDelay)
    BY <1>wa, <2>1, <2>2, <2>5 DEF WantAuto, NoAim, Earned
  <2> QED BY <2>3, <2>4, <2>5
<1>row. ASSUME Row
        PROVE  pc' = "sense" /\ UNCHANGED <<pluggedFor, plug, connected, missed>>
  BY <1>row DEF Row
<1>1. CASE Rest \/ AwaitStop \/ HoldStill \/ StartStop \/ GiveUp \/ DropIt \/ SettleEnd
  <2>1. Row /\ UNCHANGED <<planner, autoSwitches>>
    BY <1>1 DEF Rest, AwaitStop, HoldStill, StartStop, GiveUp, DropIt, SettleEnd, GivingUp, Quiet
  <2> QED BY <2>1, <1>row DEF Earned, OwnClocks, planner
<1>6. CASE Fire
  <2>1. Row /\ NoteSwitched
    BY <1>6 DEF Fire
  <2>2. autoSwitches' <= switches'
    <3>1. pc = "tick" /\ desired # NoPhase
      BY <1>6 DEF Fire, Row, Reached
    <3>2. CASE mode = AutoMode
      <4>1. autoSwitches' = Older(autoSwitches, AutoMax + 1) /\ switches' = Older(switches, AutoMax)
        BY <1>6, <2>1, <3>2 DEF Fire, NoteSwitched
      <4>2. switches < AutoMax /\ autoSwitches <= switches
        BY <3>1, <3>2 DEF Earned
      <4> QED BY <4>1, <4>2, <1>0 DEF Older, ClocksOK
    <3>3. CASE mode # AutoMode
      BY <1>6, <2>1, <3>3, <1>0 DEF Fire, NoteSwitched, Older, Earned, ClocksOK
    <3> QED BY <3>2, <3>3
  <2>3. upFor' <= pluggedFor' /\ downFor' <= pluggedFor' /\ pc' = "sense"
    BY <2>1, <1>row, <1>0 DEF NoteSwitched, ClocksOK
  <2>4. ~connected' => autoSwitches' = 0
    <3>1. connected' = connected /\ (mode = AutoMode => connected)
      BY <1>6, <2>1, <1>row DEF Earned, Fire, Row, Reached
    <3> QED BY <1>6, <3>1 DEF Fire, Earned
  <2> QED BY <2>2, <2>3, <2>4 DEF Earned, OwnClocks
<1>9. CASE CarMoves \/ UserChooses \/ ToggleObserver
  <2>1. pc' = "sense" /\ UNCHANGED <<upFor, downFor, switches, pluggedFor, autoSwitches, plug,
                                     connected, missed>>
    BY <1>9 DEF CarMoves, UserChooses, ToggleObserver, Between, planner, ghosts
  <2> QED BY <2>1 DEF Earned, OwnClocks
<1>12. CASE UNCHANGED vars
  BY <1>12 DEF vars, locals, user, planner, ghosts, Earned, OwnClocks
<1> QED
  BY <1>m, <1>sk, <1>wm, <1>wa, <1>1, <1>6, <1>9, <1>12 DEF Next, Cycle, Rows

LEMMA Invariants == Spec => [](TypeOK /\ Spared /\ Earned)
<1>1. Init => TypeOK /\ Spared /\ Earned
  BY InitTyped, DelayAssumption, CapsAreNat DEF Init, Spared, Earned, OwnClocks
<1> QED BY <1>1, StepTyped, StepSpared, StepEarned, PTL DEF Spec

\* No two switches closer than Gap, no automatic one within AutoInterval of any other.
THEOREM ContactorIsSpared == Spec => ContactorSpared
<1>1. TypeOK /\ Spared /\ Earned /\ [Next]_vars
        => [Fired => lastSwitch >= Gap /\ (mode = AutoMode => lastSwitch >= AutoInterval)]_vars
  <2> SUFFICES ASSUME TypeOK, Spared, Earned, [Next]_vars, Fired
               PROVE  lastSwitch >= Gap /\ (mode = AutoMode => lastSwitch >= AutoInterval)
    OBVIOUS
  <2>1. Fire
    BY DEF Fired, Next, Cycle, Rows, Measure, Skip, WantManual, WantNothing, WantAuto, Wanting, seq,
           Rest, StartStop, AwaitStop, GiveUp, GivingUp, DropIt, HoldStill, SettleEnd, Abort,
           CarMoves, UserChooses, ToggleObserver, Between, vars
  <2>2. gapAge = Gap
    BY <2>1 DEF Fire, Spared
  <2>3. pc = "tick" /\ desired # NoPhase
    BY <2>1 DEF Fire, Row, Reached
  <2>4. mode = AutoMode => autoAge = AutoInterval
    BY <2>3 DEF Earned
  <2> QED BY <2>2, <2>4, DelayAssumption DEF Spared, TypeOK, ClocksOK
<1> QED BY <1>1, Invariants, PTL DEF Spec, ContactorSpared

\* A plugged-in car meets at most AutoMax automatic switches.
THEOREM BudgetIsKept == Spec => []BudgetKept
<1>1. TypeOK /\ Earned => BudgetKept
  BY DelayAssumption DEF TypeOK, ClocksOK, Earned, BudgetKept
<1> QED BY <1>1, Invariants, PTL

\* An automatic switch rests on a window that filled while this car was plugged in, unless
\* the tick missed it coming.
THEOREM WindowIsOwn == Spec => OwnWindow
<1>1. TypeOK /\ Earned /\ [Next]_vars
        => [Fired /\ mode = AutoMode /\ ~missed
              => pluggedFor > (IF pending' = 3 THEN UpDelay ELSE DownDelay)]_vars
  <2> SUFFICES ASSUME TypeOK, Earned, [Next]_vars, Fired, mode = AutoMode, ~missed
               PROVE  pluggedFor > (IF pending' = 3 THEN UpDelay ELSE DownDelay)
    OBVIOUS
  <2>1. Fire
    BY DEF Fired, Next, Cycle, Rows, Measure, Skip, WantManual, WantNothing, WantAuto, Wanting, seq,
           Rest, StartStop, AwaitStop, GiveUp, GivingUp, DropIt, HoldStill, SettleEnd, Abort,
           CarMoves, UserChooses, ToggleObserver, Between, vars
  <2>2. pc = "tick" /\ desired # NoPhase /\ pending' = desired
    BY <2>1 DEF Fire, Row, Reached
  <2>3. desired \in {1, 3}
    BY <2>2 DEF TypeOK, ValuesOK
  <2>4. (desired = 3 => upFor > UpDelay) /\ (desired = 1 => downFor > DownDelay)
    BY <2>2 DEF Earned
  <2>5. upFor <= pluggedFor /\ downFor <= pluggedFor
    BY <2>2 DEF Earned, OwnClocks
  <2> QED BY <2>2, <2>3, <2>4, <2>5, DelayAssumption DEF TypeOK, ClocksOK
<1> QED BY <1>1, Invariants, PTL DEF Spec, OwnWindow

-----------------------------------------------------------------------------
(* The blame.                                                              *)

\* A target for which nothing was sent, nor kept back by observer mode, carries at most one
\* contradiction: that of a switch asserted before it was set, charged once and forgotten.
Blamed ==
  ~tried /\ ~logged => count = 0 \/ (count = 1 /\ asserted = NoPhase /\ state # "settling")

LEMMA StepBlamed == TypeOK /\ Blamed /\ [Next]_vars => Blamed'
<1> SUFFICES ASSUME TypeOK, Blamed, [Next]_vars, ~tried', ~logged' PROVE
      count' = 0 \/ (count' = 1 /\ asserted' = NoPhase /\ state' # "settling")
  BY DEF Blamed
<1>0. count \in 0 .. NotTaking /\ tried \in BOOLEAN /\ logged \in BOOLEAN /\ NotTaking \in Nat /\ NotTaking >= 2
  BY DelayAssumption DEF TypeOK, ClocksOK, ValuesOK
<1>m. CASE Measure
  <2>1. CASE Replugged
    BY <1>m, <2>1 DEF Measure, Contradiction
  <2>2. CASE ~Replugged
    <3>1. ~tried /\ ~logged /\ state' = state
      BY <1>m, <2>2 DEF Measure
    <3>2. CASE Contradicts
      <4>1. count = 0 /\ state = "idle"
        BY <3>1, <3>2 DEF Contradicts, Blamed
      <4>2. count' = Older(count, NotTaking) /\ asserted' = NoPhase
        BY <1>m, <2>2, <3>2 DEF Measure, Contradiction
      <4> QED BY <4>1, <4>2, <3>1, <1>0 DEF Older
    <3>3. CASE ~Contradicts
      BY <1>m, <2>2, <3>1, <3>3 DEF Measure, Contradiction, Blamed
    <3> QED BY <3>2, <3>3
  <2> QED BY <2>1, <2>2
<1>sk. CASE Skip
  BY <1>sk DEF Skip, contra, blame, Blamed
<1>w. CASE WantManual \/ WantNothing \/ WantAuto
  <2>1. asserted' = asserted /\ state' = state
    BY <1>w DEF WantManual, WantNothing, WantAuto, Wanting, seq
  <2>2. count' = 0 \/ (count' = count /\ ~tried /\ ~logged)
    <3>1. ASSUME NEW t, Aim(t) PROVE count' = 0 \/ (count' = count /\ ~tried /\ ~logged)
      BY <3>1 DEF Aim
    <3>2. ASSUME NoAim PROVE count' = count /\ ~tried /\ ~logged
      BY <3>2 DEF NoAim, blame
    <3> QED BY <1>w, <3>1, <3>2 DEF WantManual, WantNothing, WantAuto
  <2> QED BY <2>1, <2>2 DEF Blamed
<1>1. CASE Rest \/ AwaitStop \/ HoldStill
  BY <1>1 DEF Rest, AwaitStop, HoldStill, Quiet, seq, contra, blame, Blamed
<1>2. CASE StartStop
  BY <1>2 DEF StartStop, Quiet, contra, blame, Blamed
<1>4. CASE GiveUp
  BY <1>4 DEF GiveUp, GivingUp, Abort, blame, Blamed
<1>5. CASE DropIt
  BY <1>5 DEF DropIt, Abort, Quiet, contra, blame, Blamed
<1>6. CASE Fire
  BY <1>6 DEF Fire
<1>8. CASE SettleEnd
  <2>1. state = "settling" /\ ~tried /\ ~logged /\ count' = count
    BY <1>8 DEF SettleEnd, Quiet, blame
  <2> QED BY <2>1 DEF Blamed
<1>9. CASE CarMoves \/ UserChooses \/ ToggleObserver
  BY <1>9 DEF CarMoves, UserChooses, ToggleObserver, Between, seq, contra, ghosts, blame, Blamed
<1>12. CASE UNCHANGED vars
  BY <1>12 DEF vars, seq, contra, ghosts, blame, Blamed
<1> QED
  BY <1>m, <1>sk, <1>w, <1>1, <1>2, <1>4, <1>5, <1>6, <1>8, <1>9, <1>12 DEF Next, Cycle, Rows

\* A target is only called not-taking when, since it was set, a switch was sent for it or a
\* stop that the box drew through, or observer mode kept one back.
THEOREM BlameIsCaused == Spec => []BlameHasCause
<1>1. Init => Blamed
  BY DEF Init, Blamed
<1>2. TypeOK /\ Blamed => BlameHasCause
  BY DelayAssumption DEF TypeOK, ClocksOK, Blamed, BlameHasCause
<1> QED BY <1>1, <1>2, StepBlamed, TypeCorrect, PTL DEF Spec

=============================================================================
