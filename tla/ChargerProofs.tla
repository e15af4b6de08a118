-------------------- MODULE ChargerProofs --------------------
(***************************************************************************)
(* Theorems about the charger's control, for every set of wishes and       *)
(* observations, every length of the holds and floors and any cycle time:  *)
(* of ChargerReconciler on its own, and of ChargerLoop, the reconciler     *)
(* before its relay, which implements RelayPromise when the switch reads   *)
(* the relay live.                                                         *)
(***************************************************************************)
EXTENDS ChargerLoop, TLAPS

\* The length of a ceasefire is a number.
LEMMA Lasts == \A a, b \in Nat : a * b \in Nat
OBVIOUS

\* Counters and clocks stay within their bounds.
LEMMA AgesOKStep == AgesOK /\ [Next]_vars => AgesOK'
<1> SUFFICES ASSUME AgesOK, [Next]_vars PROVE AgesOK'
  OBVIOUS
<1> USE TimeAssumption DEF AgesOK
<1>1. ASSUME NEW w \in Wishes, NEW o \in Observations, NEW d \in Steps, Sense(w, o, d)
      PROVE AgesOK'
  BY <1>1 DEF Sense, Elapse, Older, idle, plug
<1>2. CASE StopOnRelease
  BY <1>2 DEF StopOnRelease, Released, EndStopWar, Answer, NoteOpened, inputs, idle,
       plug, war, relay, enable
<1>3. CASE HandsOff
  BY <1>3 DEF HandsOff, Released, EndStopWar, Answer, inputs, idle, plug, war, relay,
       enable
<1>4. CASE ClearFailsafe
  BY <1>4 DEF ClearFailsafe, Engaged, Answer, inputs, idle, plug, war, relay, enable
<1>5. CASE Plugged
  BY <1>5 DEF Plugged, Engaged, inputs, idle, plug, war, relay, enable
<1>6. CASE Park
  BY <1>6 DEF Park, Away, Engaged, EndStopWar, Older, Answer, NoteOpened, inputs, idle,
       plug, war, relay, enable
<1>7. CASE Unplugged
  BY <1>7 DEF Unplugged, Away, Engaged, EndStopWar, Older, inputs, idle, plug, war,
       relay, enable
<1>8. CASE Converged
  BY <1>8 DEF Converged, Stopping, Answer, inputs, idle, plug, war, relay, enable
<1>9. CASE Unenforceable
  BY <1>9 DEF Unenforceable, Resisted, Stopping, Answer, WasSettled, inputs, idle,
       plug, war, relay, enable
<1>10. CASE StandDown
  BY <1>10 DEF StandDown, Resisted, Stopping, Answer, WasSettled, inputs, idle, plug,
       war, relay, enable
<1>11. CASE DeclareTruce
  <2>1. truce' \in Nat
    BY <1>11, Lasts DEF DeclareTruce
  <2>2. UNCHANGED <<idleCount, plug, stopAge, relay, writeAge>> /\ attempts' = 0
        /\ gaveUpAge' = EnableRetry
    BY <1>11 DEF DeclareTruce, Fighting, Resisted, Stopping
  <2>3. rounds' \in 0 .. WarRounds + 1 /\ roundAge' = 0 /\ factor' \in 1 .. MaxFactor
    BY <1>11 DEF DeclareTruce, NextRound, Older
  <2> QED BY <2>1, <2>2, <2>3 DEF plug, relay
<1>12. CASE StopOff
  BY <1>12 DEF StopOff, Fighting, Resisted, Stopping, CountRound, NextRound, Older,
       GatedDisable, NoteOpened, Answer, WasSettled, Locked, inputs, idle, plug, war,
            relay, enable
<1>13. CASE StopRogue
  BY <1>13 DEF StopRogue, Fighting, Resisted, Stopping, CountRound, NextRound, Older,
       GatedDisable, NoteOpened, Answer, WasSettled, inputs, idle, plug, war, relay,
            enable
<1>14. CASE WindDown
  BY <1>14 DEF WindDown, Resisted, Stopping, Older, GatedDisable, NoteOpened, Answer,
       WasSettled, inputs, idle, plug, war, relay, enable
<1>15. CASE ChargeHeld
  BY <1>15 DEF ChargeHeld, Charging, EndStopWar, Answer, Locked, inputs, idle, plug,
       war, relay, enable
<1>16. CASE Charge
  BY <1>16 DEF Charge, ChargeRow, Charging, EndStopWar, Answer, NoteClosed, Current,
       inputs, idle, plug, war, relay, enable
<1>17. CASE ChargeEnable
  BY <1>17 DEF ChargeEnable, ChargeRow, Charging, EndStopWar, Answer, NoteClosed,
       Reassert, GaveUp, Current, inputs, idle, plug, war, relay, enable
<1>18. CASE Rebuild
  BY <1>18 DEF Rebuild, inputs, idle, plug, war, relay, enable
<1>19. CASE UNCHANGED vars
  BY <1>19 DEF vars, inputs, idle, plug, war, relay, enable
<1> QED
  BY <1>1, <1>2, <1>3, <1>4, <1>5, <1>6, <1>7, <1>8, <1>9, <1>10, <1>11, <1>12, <1>13,
       <1>14, <1>15, <1>16, <1>17, <1>18, <1>19
     DEF Next, Cycle, Sensing, Rows

\* Every other variable keeps to its values.
LEMMA FlagsOKStep == FlagsOK /\ [Next]_vars => FlagsOK'
<1> SUFFICES ASSUME FlagsOK, [Next]_vars PROVE FlagsOK'
  OBVIOUS
<1> USE WishAssumption, ObservationAssumption DEF FlagsOK, Commands, Reports
<1>1. ASSUME NEW w \in Wishes, NEW o \in Observations, NEW d \in Steps, Sense(w, o, d)
      PROVE FlagsOK'
  BY <1>1 DEF Sense, Adopt, Boot, ObservationOK, idle, plug
<1>2. CASE StopOnRelease
  BY <1>2 DEF StopOnRelease, Released, EndStopWar, Answer, NoteOpened, inputs, idle,
       plug, war, relay, enable
<1>3. CASE HandsOff
  BY <1>3 DEF HandsOff, Released, EndStopWar, Answer, inputs, idle, plug, war, relay,
       enable
<1>4. CASE ClearFailsafe
  BY <1>4 DEF ClearFailsafe, Engaged, Answer, inputs, idle, plug, war, relay, enable
<1>5. CASE Plugged
  BY <1>5 DEF Plugged, Engaged, inputs, idle, plug, war, relay, enable
<1>6. CASE Park
  BY <1>6 DEF Park, Away, Engaged, EndStopWar, Older, Answer, NoteOpened, inputs, idle,
       plug, war, relay, enable
<1>7. CASE Unplugged
  BY <1>7 DEF Unplugged, Away, Engaged, EndStopWar, Older, inputs, idle, plug, war,
       relay, enable
<1>8. CASE Converged
  BY <1>8 DEF Converged, Stopping, Answer, inputs, idle, plug, war, relay, enable
<1>9. CASE Unenforceable
  BY <1>9 DEF Unenforceable, Resisted, Stopping, Answer, WasSettled, inputs, idle,
       plug, war, relay, enable
<1>10. CASE StandDown
  BY <1>10 DEF StandDown, Resisted, Stopping, Answer, WasSettled, inputs, idle, plug,
       war, relay, enable
<1>11. CASE DeclareTruce
  BY <1>11 DEF DeclareTruce, Fighting, Resisted, Stopping, NextRound, Older, Answer,
       WasSettled, inputs, idle, plug, war, relay, enable
<1>12. CASE StopOff
  BY <1>12 DEF StopOff, Fighting, Resisted, Stopping, CountRound, NextRound, Older,
       GatedDisable, NoteOpened, Answer, WasSettled, Locked, inputs, idle, plug, war,
            relay, enable
<1>13. CASE StopRogue
  BY <1>13 DEF StopRogue, Fighting, Resisted, Stopping, CountRound, NextRound, Older,
       GatedDisable, NoteOpened, Answer, WasSettled, inputs, idle, plug, war, relay,
            enable
<1>14. CASE WindDown
  BY <1>14 DEF WindDown, Resisted, Stopping, Older, GatedDisable, NoteOpened, Answer,
       WasSettled, inputs, idle, plug, war, relay, enable
<1>15. CASE ChargeHeld
  <2>1. acts' \subseteq Commands \cup Reports
    BY <1>15 DEF ChargeHeld, Answer, Locked
  <2>2. pc' = "sense" /\ UNCHANGED <<wish, obs, previous, intent, settled, seen, parked,
                                   releasedStop, belief, named>> /\ drawSeen' = FALSE
    BY <1>15 DEF ChargeHeld, Charging, EndStopWar, Answer, inputs, plug, relay
  <2> QED BY <2>1, <2>2
<1>16. CASE Charge
  BY <1>16 DEF Charge, ChargeRow, Charging, EndStopWar, Answer, NoteClosed, Current,
       inputs, idle, plug, war, relay, enable
<1>17. CASE ChargeEnable
  BY <1>17 DEF ChargeEnable, ChargeRow, Charging, EndStopWar, Answer, NoteClosed,
       Reassert, GaveUp, Current, inputs, idle, plug, war, relay, enable
<1>18. CASE Rebuild
  BY <1>18 DEF Rebuild, inputs, idle, plug, war, relay, enable
<1>19. CASE UNCHANGED vars
  BY <1>19 DEF vars, inputs, idle, plug, war, relay, enable
<1> QED
  BY <1>1, <1>2, <1>3, <1>4, <1>5, <1>6, <1>7, <1>8, <1>9, <1>10, <1>11, <1>12, <1>13,
       <1>14, <1>15, <1>16, <1>17, <1>18, <1>19
     DEF Next, Cycle, Sensing, Rows

\* ChargerReconciler keeps its types: the reconciler's memory never leaves its bounds.
THEOREM TypeCorrect == Spec => []TypeOK
<1>1. Init => TypeOK
  <2>1. Init => AgesOK
    BY TimeAssumption DEF Init, AgesOK
  <2>2. Init => FlagsOK
    BY DEF Init, FlagsOK
  <2> QED BY <2>1, <2>2 DEF TypeOK
<1>2. TypeOK /\ [Next]_vars => TypeOK'
  BY AgesOKStep, FlagsOKStep DEF TypeOK
<1> QED
  BY <1>1, <1>2, PTL DEF Spec

(***************************************************************************)
(* The ceasefire.  It takes a second round to declare one, and between two *)
(* rounds the box was seen quiet, which settles idle; SEM wanting a charge *)
(* ends the war.  So while a ceasefire is open idle is settled and SEM has *)
(* no session of its own, and the wind-down row, which does not look at the*)
(* ceasefire, is out of reach.                                             *)
(***************************************************************************)
AtPeace ==
  /\ truce > 0 => settled /\ ~intent
  /\ rounds > 0 => ~intent
  /\ rounds > 1 \/ (rounds = 1 /\ ~drawSeen) => settled
  /\ pc = "sense" /\ "DISABLE" \in acts /\ truce > 0
       => "REPORT_STOP_UNENFORCEABLE" \in acts

LEMMA AtPeaceStep == TypeOK /\ AtPeace /\ [Next]_vars => AtPeace'
<1> SUFFICES ASSUME TypeOK, AtPeace, [Next]_vars PROVE AtPeace'
  OBVIOUS
<1> USE TimeAssumption DEF AtPeace, TypeOK, AgesOK, FlagsOK
<1>1. ASSUME NEW w \in Wishes, NEW o \in Observations, NEW d \in Steps, Sense(w, o, d)
      PROVE AtPeace'
  BY <1>1 DEF Sense, Elapse, idle, plug
<1>2. CASE StopOnRelease
  BY <1>2 DEF StopOnRelease, Released, EndStopWar, Answer, NoteOpened, inputs, idle,
       plug, war, relay, enable
<1>3. CASE HandsOff
  BY <1>3 DEF HandsOff, Released, EndStopWar, Answer, inputs, idle, plug, war, relay,
       enable
<1>4. CASE ClearFailsafe
  BY <1>4 DEF ClearFailsafe, Engaged, Answer, inputs, idle, plug, war, relay, enable
<1>5. CASE Plugged
  BY <1>5 DEF Plugged, Engaged, inputs, idle, plug, war, relay, enable
<1>6. CASE Park
  BY <1>6 DEF Park, Away, Engaged, EndStopWar, Older, Answer, NoteOpened, inputs, idle,
       plug, war, relay, enable
<1>7. CASE Unplugged
  BY <1>7 DEF Unplugged, Away, Engaged, EndStopWar, Older, inputs, idle, plug, war,
       relay, enable
<1>8. CASE Converged
  BY <1>8 DEF Converged, Stopping, Answer, inputs, idle, plug, war, relay, enable
<1>9. CASE Unenforceable
  BY <1>9 DEF Unenforceable, Resisted, Stopping, Answer, WasSettled, inputs, idle,
       plug, war, relay, enable
<1>10. CASE StandDown
  BY <1>10 DEF StandDown, Resisted, Stopping, Answer, WasSettled, inputs, idle, plug,
       war, relay, enable
<1>11. CASE DeclareTruce
  BY <1>11 DEF DeclareTruce, Fighting, Resisted, Stopping, NextRound, Older, Answer,
       WasSettled, inputs, idle, plug, war, relay, enable
<1>12. CASE StopOff
  BY <1>12 DEF StopOff, Fighting, Resisted, Stopping, CountRound, NextRound, Older,
       GatedDisable, NoteOpened, Answer, WasSettled, Locked, inputs, idle, plug, war,
            relay, enable
<1>13. CASE StopRogue
  BY <1>13 DEF StopRogue, Fighting, Resisted, Stopping, CountRound, NextRound, Older,
       GatedDisable, NoteOpened, Answer, WasSettled, inputs, idle, plug, war, relay,
            enable
<1>14. CASE WindDown
  BY <1>14 DEF WindDown, Resisted, Stopping, Opposed, GatedDisable, Answer, WasSettled,
       inputs, idle, plug, war, relay, enable
<1>15. CASE ChargeHeld
  BY <1>15 DEF ChargeHeld, Charging, EndStopWar, Answer, Locked, inputs, idle, plug,
       war, relay, enable
<1>16. CASE Charge
  BY <1>16 DEF Charge, ChargeRow, Charging, EndStopWar, Answer, NoteClosed, Current,
       inputs, idle, plug, war, relay, enable
<1>17. CASE ChargeEnable
  BY <1>17 DEF ChargeEnable, ChargeRow, Charging, EndStopWar, Answer, NoteClosed,
       Reassert, GaveUp, Current, inputs, idle, plug, war, relay, enable
<1>18. CASE Rebuild
  BY <1>18 DEF Rebuild, inputs, idle, plug, war, relay, enable
<1>19. CASE UNCHANGED vars
  BY <1>19 DEF vars, inputs, idle, plug, war, relay, enable
<1> QED
  BY <1>1, <1>2, <1>3, <1>4, <1>5, <1>6, <1>7, <1>8, <1>9, <1>10, <1>11, <1>12, <1>13,
       <1>14, <1>15, <1>16, <1>17, <1>18, <1>19
     DEF Next, Cycle, Sensing, Rows

\* While a ceasefire is open, no row sends a stop that the box could obey.
THEOREM CeasefireKept == Spec => []CeasefireHolds
<1>1. Init => AtPeace
  BY DEF Init, AtPeace
<1>2. AtPeace => CeasefireHolds
  BY DEF AtPeace, CeasefireHolds
<1> QED
  BY <1>1, <1>2, TypeCorrect, AtPeaceStep, PTL DEF Spec

(***************************************************************************)
(* Mode Off.  The latch is down whenever a cycle in Off follows another or *)
(* a boot, and only the cycle that finds it up sends the stop.             *)
(***************************************************************************)
Latched ==
  /\ pc = "sense" /\ wish.desired \in {"RELEASED", "none"} => releasedStop
  /\ pc = "enter" /\ previous \in {"RELEASED", "none"} => releasedStop
  /\ pc # "sense" => wish.desired # "none"
  /\ pc = "decide" => wish.desired # "RELEASED"
  /\ OffIsHandsOff

LEMMA LatchedStep == FlagsOK /\ Latched /\ [Next]_vars => Latched'
<1> SUFFICES ASSUME FlagsOK, Latched, [Next]_vars PROVE Latched'
  OBVIOUS
<1> USE DEF Latched, OffIsHandsOff, FlagsOK, Boot, Commands
<1>1. ASSUME NEW w \in Wishes, NEW o \in Observations, NEW d \in Steps, Sense(w, o, d)
      PROVE Latched'
  BY <1>1, WishAssumption DEF Sense, idle, plug
<1>2. CASE StopOnRelease
  BY <1>2 DEF StopOnRelease, Released, EndStopWar, Answer, NoteOpened, inputs, idle,
       plug, war, relay, enable
<1>3. CASE HandsOff
  BY <1>3 DEF HandsOff, Released, EndStopWar, Answer, inputs, idle, plug, war, relay,
       enable
<1>4. CASE ClearFailsafe
  BY <1>4 DEF ClearFailsafe, Engaged, Answer, inputs, idle, plug, war, relay, enable
<1>5. CASE Plugged
  BY <1>5 DEF Plugged, Engaged, inputs, idle, plug, war, relay, enable
<1>6. CASE Park
  BY <1>6 DEF Park, Away, Engaged, EndStopWar, Older, Answer, NoteOpened, inputs, idle,
       plug, war, relay, enable
<1>7. CASE Unplugged
  BY <1>7 DEF Unplugged, Away, Engaged, EndStopWar, Older, inputs, idle, plug, war,
       relay, enable
<1>8. CASE Converged
  BY <1>8 DEF Converged, Stopping, Answer, inputs, idle, plug, war, relay, enable
<1>9. CASE Unenforceable
  BY <1>9 DEF Unenforceable, Resisted, Stopping, Answer, WasSettled, inputs, idle,
       plug, war, relay, enable
<1>10. CASE StandDown
  BY <1>10 DEF StandDown, Resisted, Stopping, Answer, WasSettled, inputs, idle, plug,
       war, relay, enable
<1>11. CASE DeclareTruce
  BY <1>11 DEF DeclareTruce, Fighting, Resisted, Stopping, NextRound, Older, Answer,
       WasSettled, inputs, idle, plug, war, relay, enable
<1>12. CASE StopOff
  BY <1>12 DEF StopOff, Fighting, Resisted, Stopping, CountRound, NextRound, Older,
       GatedDisable, NoteOpened, Answer, WasSettled, Locked, inputs, idle, plug, war,
            relay, enable
<1>13. CASE StopRogue
  BY <1>13 DEF StopRogue, Fighting, Resisted, Stopping, CountRound, NextRound, Older,
       GatedDisable, NoteOpened, Answer, WasSettled, inputs, idle, plug, war, relay,
            enable
<1>14. CASE WindDown
  BY <1>14 DEF WindDown, Resisted, Stopping, Older, GatedDisable, NoteOpened, Answer,
       WasSettled, inputs, idle, plug, war, relay, enable
<1>15. CASE ChargeHeld
  BY <1>15 DEF ChargeHeld, Charging, EndStopWar, Answer, Locked, inputs, idle, plug,
       war, relay, enable
<1>16. CASE Charge
  BY <1>16 DEF Charge, ChargeRow, Charging, EndStopWar, Answer, NoteClosed, Current,
       inputs, idle, plug, war, relay, enable
<1>17. CASE ChargeEnable
  BY <1>17 DEF ChargeEnable, ChargeRow, Charging, EndStopWar, Answer, NoteClosed,
       Reassert, GaveUp, Current, inputs, idle, plug, war, relay, enable
<1>18. CASE Rebuild
  BY <1>18 DEF Rebuild, inputs, idle, plug, war, relay, enable
<1>19. CASE UNCHANGED vars
  BY <1>19 DEF vars, inputs, idle, plug, war, relay, enable
<1> QED
  BY <1>1, <1>2, <1>3, <1>4, <1>5, <1>6, <1>7, <1>8, <1>9, <1>10, <1>11, <1>12, <1>13,
       <1>14, <1>15, <1>16, <1>17, <1>18, <1>19
     DEF Next, Cycle, Sensing, Rows

\* In mode Off nothing is sent after the one stop of entering it.
THEOREM OffKeepsHandsOff == Spec => []OffIsHandsOff
<1>1. Init => Latched
  BY DEF Init, Latched, OffIsHandsOff, Boot
<1>2. Latched => OffIsHandsOff
  BY DEF Latched
<1> QED
  BY <1>1, <1>2, TypeCorrect, LatchedStep, PTL DEF Spec, TypeOK

(***************************************************************************)
(* The watchdog.  Inside a cycle that reads its switch closed the belief is*)
(* closed as well, so neither the close hold nor the enable back-off stands*)
(* between the cycle and its write.                                        *)
(***************************************************************************)
Fed ==
  /\ pc \in {"enter", "decide"} /\ obs.enabled = "closed" => belief = "closed"
  /\ WatchdogFed

LEMMA FedStep == TypeOK /\ Fed /\ [Next]_vars => Fed'
<1> SUFFICES ASSUME TypeOK, Fed, [Next]_vars PROVE Fed'
  OBVIOUS
<1> USE TimeAssumption DEF Fed, WatchdogFed, TypeOK, AgesOK, FlagsOK
<1>1. ASSUME NEW w \in Wishes, NEW o \in Observations, NEW d \in Steps, Sense(w, o, d)
      PROVE Fed'
  BY <1>1 DEF Sense, Adopt, idle, plug
<1>2. CASE StopOnRelease
  BY <1>2 DEF StopOnRelease, Released, EndStopWar, Answer, NoteOpened, inputs, idle,
       plug, war, relay, enable
<1>3. CASE HandsOff
  BY <1>3 DEF HandsOff, Released, EndStopWar, Answer, inputs, idle, plug, war, relay,
       enable
<1>4. CASE ClearFailsafe
  BY <1>4 DEF ClearFailsafe, Engaged, Answer, inputs, idle, plug, war, relay, enable
<1>5. CASE Plugged
  BY <1>5 DEF Plugged, Engaged, inputs, idle, plug, war, relay, enable
<1>6. CASE Park
  BY <1>6 DEF Park, Away, Engaged, EndStopWar, Older, Answer, NoteOpened, inputs, idle,
       plug, war, relay, enable
<1>7. CASE Unplugged
  BY <1>7 DEF Unplugged, Away, Engaged, EndStopWar, Older, inputs, idle, plug, war,
       relay, enable
<1>8. CASE Converged
  BY <1>8 DEF Converged, Stopping, Answer, inputs, idle, plug, war, relay, enable
<1>9. CASE Unenforceable
  BY <1>9 DEF Unenforceable, Resisted, Stopping, Answer, WasSettled, inputs, idle,
       plug, war, relay, enable
<1>10. CASE StandDown
  BY <1>10 DEF StandDown, Resisted, Stopping, Answer, WasSettled, inputs, idle, plug,
       war, relay, enable
<1>11. CASE DeclareTruce
  BY <1>11 DEF DeclareTruce, Fighting, Resisted, Stopping, NextRound, Older, Answer,
       WasSettled, inputs, idle, plug, war, relay, enable
<1>12. CASE StopOff
  BY <1>12 DEF StopOff, Fighting, Resisted, Stopping, CountRound, NextRound, Older,
       GatedDisable, NoteOpened, Answer, WasSettled, Locked, inputs, idle, plug, war,
            relay, enable
<1>13. CASE StopRogue
  BY <1>13 DEF StopRogue, Fighting, Resisted, Stopping, CountRound, NextRound, Older,
       GatedDisable, NoteOpened, Answer, WasSettled, inputs, idle, plug, war, relay,
            enable
<1>14. CASE WindDown
  BY <1>14 DEF WindDown, Resisted, Stopping, Older, GatedDisable, NoteOpened, Answer,
       WasSettled, inputs, idle, plug, war, relay, enable
<1>15. CASE ChargeHeld
  BY <1>15 DEF ChargeHeld, Charging, HeldOff, Backed, Answer, inputs, idle, plug, war,
       relay, enable
<1>16. CASE Charge
  BY <1>16 DEF Charge, ChargeRow, Charging, EndStopWar, Answer, NoteClosed, Current,
       inputs, idle, plug, war, relay, enable
<1>17. CASE ChargeEnable
  BY <1>17 DEF ChargeEnable, ChargeRow, Charging, EndStopWar, Answer, NoteClosed,
       Reassert, GaveUp, Current, inputs, idle, plug, war, relay, enable
<1>18. CASE Rebuild
  BY <1>18 DEF Rebuild, Boot
<1>19. CASE UNCHANGED vars
  BY <1>19 DEF vars, inputs, idle, plug, war, relay, enable
<1> QED
  BY <1>1, <1>2, <1>3, <1>4, <1>5, <1>6, <1>7, <1>8, <1>9, <1>10, <1>11, <1>12, <1>13,
       <1>14, <1>15, <1>16, <1>17, <1>18, <1>19
     DEF Next, Cycle, Sensing, Rows

\* A CHARGE cycle that reads its switch closed never lets the watchdog run out.
THEOREM WatchdogKeptFed == Spec => []WatchdogFed
<1>1. Init => Fed
  BY DEF Init, Fed, WatchdogFed, Boot
<1>2. Fed => WatchdogFed
  BY DEF Fed
<1> QED
  BY <1>1, <1>2, TypeCorrect, FedStep, PTL DEF Spec

-----------------------------------------------------------------------------
(* The reconciler before its relay.                                        *)


\* The observation of a cycle is one the reconciler knows.
LEMMA ReadingIsASight ==
  ASSUME LoopTypeOK, NEW dark \in BOOLEAN
  PROVE Reading(dark) \in Observations
<1>1. SwitchReads \in {"open", "closed", "unknown"}
  BY LoopAssumption DEF SwitchReads, LoopTypeOK
<1>2. (contactor = "closed" /\ plugged /\ wants) \in BOOLEAN /\ plugged \in BOOLEAN
      /\ (~dark) \in BOOLEAN
  BY Zenon DEF LoopTypeOK
<1>3. (IF dark THEN "unknown" ELSE SwitchReads) \in {"open", "closed", "unknown"}
  BY <1>1
<1> QED
  BY <1>2, <1>3, SightAssumption DEF Reading

\* A step of the loop is a step of the reconciler, or leaves it alone.
LEMMA LoopStepIsAStep == LoopTypeOK /\ [LoopNext]_lvars => [Next]_vars
<1> SUFFICES ASSUME LoopTypeOK, [LoopNext]_lvars PROVE [Next]_vars
  OBVIOUS
<1>1. CASE LoopSensing
  <2>1. PICK w \in Wishes, dark \in BOOLEAN, d \in Steps : LoopSense(w, dark, d)
    BY <1>1 DEF LoopSensing
  <2>2. Reading(dark) \in Observations
    BY ReadingIsASight
  <2> QED BY <2>1, <2>2 DEF LoopSense, Next, Cycle, Sensing
<1>2. CASE LoopRow
  BY <1>2 DEF LoopRow, Next, Cycle
<1>3. CASE Poll \/ RogueStart \/ CarChanges \/ UNCHANGED lvars
  BY <1>3 DEF Poll, RogueStart, CarChanges, lvars
<1> QED BY <1>1, <1>2, <1>3 DEF LoopNext

(***************************************************************************)
(* What a row can do to the relay: nothing, a stop SEM may send, a start   *)
(* the close hold let through, or a write to a relay already closed.       *)
(***************************************************************************)
MayStop == DemandNow \/ ~obs.surface \/ closeAge >= MinOn
MayStart == belief = "closed" \/ ~obs.surface \/ openAge >= MinOff

Silent == acts' \cap Commands = {} /\ UNCHANGED relay
Futile == acts' \cap Commands = {"DISABLE"} /\ ~obs.stoppable /\ UNCHANGED relay
Stops ==
  acts' \cap Commands \in {{"DISABLE"}, {"PARK_OFF"}} /\ MayStop /\ NoteOpened
Starts ==
  /\ acts' \subseteq {"ENABLE", "START_AND_WRITE", "WRITE_CURRENT"}
  /\ acts' \cap {"ENABLE", "START_AND_WRITE"} # {} /\ NoteClosed
  /\ obs.controllable /\ MayStart /\ ("ENABLE" \in acts' <=> obs.enabled = "open")
Writes ==
  /\ acts' = {"WRITE_CURRENT"} /\ obs.enabled # "open" /\ obs.controllable /\ intent
  /\ UNCHANGED relay

RowSummary ==
  /\ pc # "sense" /\ UNCHANGED <<wish, obs>>
  /\ \/ pc' = "decide" /\ UNCHANGED <<acts, relay>>
     \/ pc' = "sense" /\ (Silent \/ Futile \/ Stops \/ Starts \/ Writes)

LEMMA RowsAreSummed == AgesOK /\ FlagsOK /\ Rows => RowSummary
<1> SUFFICES ASSUME AgesOK, FlagsOK, Rows PROVE RowSummary
  OBVIOUS
<1> USE DEF RowSummary, Silent, Answer, Commands, inputs
<1>1. CASE StopOnRelease
  BY <1>1 DEF StopOnRelease, Released, Stops, MayStop, DemandNow
<1>2. CASE HandsOff
  BY <1>2 DEF HandsOff, Released, relay
<1>3. CASE ClearFailsafe
  BY <1>3 DEF ClearFailsafe, Engaged, relay
<1>4. CASE Plugged
  BY <1>4 DEF Plugged, Engaged, relay
<1>5. CASE Park
  BY <1>5 DEF Park, Away, Engaged, Stops, MayStop, DemandNow
<1>6. CASE Unplugged
  BY <1>6 DEF Unplugged, Away, Engaged, relay
<1>7. CASE Converged
  BY <1>7 DEF Converged, Stopping, relay
<1>8. CASE Unenforceable
  BY <1>8 DEF Unenforceable, Resisted, Stopping, Futile, relay
<1>9. CASE StandDown
  BY <1>9 DEF StandDown, Resisted, Stopping, relay
<1>10. CASE DeclareTruce
  BY <1>10 DEF DeclareTruce, Fighting, Resisted, Stopping, relay
<1>11. CASE StopOff
  BY <1>11, TimeAssumption DEF StopOff, Fighting, Resisted, Stopping, GatedDisable,
       Locked, Stops, MayStop, DemandNow, HeldOn, Demand, AgesOK, relay
<1>12. CASE StopRogue
  BY <1>12, TimeAssumption DEF StopRogue, Fighting, Resisted, Stopping, GatedDisable,
       Stops, MayStop, DemandNow, HeldOn, Demand, AgesOK, relay
<1>13. CASE WindDown
  BY <1>13, TimeAssumption DEF WindDown, Resisted, Stopping, GatedDisable, Stops,
       MayStop, DemandNow, HeldOn, Demand, AgesOK, relay
<1>14. CASE ChargeHeld
  BY <1>14 DEF ChargeHeld, Charging, Locked, relay
<1>15. CASE Charge
  <2>1. /\ pc = "decide" /\ pc' = "sense" /\ UNCHANGED <<wish, obs>>
        /\ obs.controllable /\ MayStart
        /\ obs.enabled # "open"
    BY <1>15, TimeAssumption DEF Charge, ChargeRow, Charging, HeldOff, MayStart, AgesOK
  <2>2. acts' = {} \cup Current
        /\ IF acts' \in {{}, {"WRITE_CURRENT"}} THEN UNCHANGED relay ELSE NoteClosed
    BY <1>15 DEF Charge, ChargeRow
  <2>3. Current \in {{}, {"START_AND_WRITE"}, {"WRITE_CURRENT"}}
    BY DEF Current
  <2>4. CASE Current = {}
    BY <2>1, <2>2, <2>4
  <2>5. CASE Current = {"WRITE_CURRENT"}
    <3>1. intent
      BY <2>5 DEF Current
    <3> QED BY <2>1, <2>2, <2>5, <3>1 DEF Writes
  <2>6. CASE Current = {"START_AND_WRITE"}
    <3>1. acts' = {"START_AND_WRITE"} /\ acts' \notin {{}, {"WRITE_CURRENT"}}
      BY <2>2, <2>6
    <3> QED BY <2>1, <2>2, <3>1 DEF Starts
  <2> QED BY <2>3, <2>4, <2>5, <2>6
<1>16. CASE ChargeEnable
  <2>1. /\ pc = "decide" /\ pc' = "sense" /\ UNCHANGED <<wish, obs>>
        /\ obs.controllable /\ MayStart
        /\ obs.enabled = "open"
    BY <1>16, TimeAssumption DEF ChargeEnable, ChargeRow, Charging, HeldOff, MayStart,
         AgesOK
  <2>2. acts' = {"ENABLE"} \cup Current
        /\ IF acts' \in {{}, {"WRITE_CURRENT"}} THEN UNCHANGED relay ELSE NoteClosed
    BY <1>16 DEF ChargeEnable, ChargeRow
  <2>3. Current \in {{}, {"START_AND_WRITE"}, {"WRITE_CURRENT"}}
    BY DEF Current
  <2>4. "ENABLE" \in acts' /\ acts' \subseteq {"ENABLE", "START_AND_WRITE",
       "WRITE_CURRENT"}
    BY <2>2, <2>3
  <2>5. acts' \notin {{}, {"WRITE_CURRENT"}}
    BY <2>4
  <2> QED BY <2>1, <2>2, <2>4, <2>5 DEF Starts
<1> QED
  BY <1>1, <1>2, <1>3, <1>4, <1>5, <1>6, <1>7, <1>8, <1>9, <1>10, <1>11, <1>12, <1>13,
       <1>14, <1>15, <1>16 DEF Rows

(***************************************************************************)
(* The link between the reconciler's memory and the box.  Inside a cycle   *)
(* that can reach the switch the belief is the relay, so a move SEM makes  *)
(* is a believed transition and is stamped; the reconciler's clocks never  *)
(* run ahead of the real ones (they are behind after a stop that was lost).*)
(* A relay that cannot be read is only moved by SEM's own calls: then the  *)
(* belief is the device's session, and the relay once SEM has moved it.    *)
(***************************************************************************)
InCycle ==
  pc # "sense" =>
    /\ acts = {} /\ obs.surface /\ obs.stoppable
    /\ setup.readback = "live" /\ obs.controllable => obs.enabled = contactor /\ belief = contactor
    /\ setup.readback = "none" => /\ obs.controllable /\ obs.enabled = "unknown"
                                  /\ wish.desired = "CHARGE" => obs.connected

Behind == openAge <= sinceOpen /\ closeAge <= sinceClose

Believed ==
  setup.readback = "none" =>
    /\ session <=> belief = "closed"
    /\ belief # "unknown" => contactor = belief

\* A charge SEM means to go on with is one it believes in: a car that has been away for a cycle ended it,
\* so the park, which leaves the intent alone, finds none.
Meant ==
  setup.readback = "none" =>
    /\ intent => belief = "closed"
    /\ awayRun > 0 /\ intent => pc = "decide" /\ ~obs.connected
    /\ pc = "decide" /\ obs.connected => awayRun = 0

Linked == AgesOK /\ FlagsOK /\ LoopTypeOK /\ InCycle /\ Behind /\ Believed /\ Meant

\* The switch reads the relay live, or nothing but SEM's calls moves it and they all arrive.
Known(s) == s.readback = "live" \/ (s.readback = "none" /\ s.faults = {})

\* The move a row makes of the relay is one RelayPromise allows.
Allowed ==
  \/ UNCHANGED <<contactor, mover, sinceOpen, sinceClose>>
  \/ /\ contactor = "open" /\ contactor' = "closed" /\ mover' = "sem"
     /\ sinceOpen = MinOff /\ sinceClose' = 0 /\ UNCHANGED sinceOpen
  \/ /\ contactor = "closed" /\ contactor' = "open" /\ mover' = "sem"
     /\ (DemandNow \/ sinceClose = MinOn) /\ sinceOpen' = 0 /\ UNCHANGED sinceClose

\* A row before a switch that is read live.
LEMMA LiveRowIsAllowed ==
  ASSUME Linked, setup.readback = "live", RowSummary, Obey
  PROVE Allowed /\ Behind' /\ LoopTypeOK' /\ (pc' # "sense" => InCycle') /\ Believed'
<1> USE TimeAssumption DEF Linked, AgesOK, LoopTypeOK, Behind
<1>0. setup' = setup /\ Believed'
  BY DEF Obey, Believed
<1> USE <1>0
<1>1. pc # "sense" /\ UNCHANGED <<wish, obs, shown, plugged, wants, setup>>
  BY DEF RowSummary, Obey, car
<1>2. acts = {} /\ obs.surface /\ obs.stoppable
      /\ (obs.controllable => obs.enabled = contactor /\ belief = contactor)
  BY <1>1 DEF InCycle
<1>3. CASE pc' = "decide" /\ UNCHANGED <<acts, relay>>
  <2>1. ~Calls
    BY <1>2, <1>3 DEF Calls
  <2>2. UNCHANGED <<contactor, session, mover, sinceOpen, sinceClose>>
    BY <2>1 DEF Obey
  <2> QED BY <1>1, <1>2, <1>3, <2>2 DEF Allowed, InCycle, relay
<1>4. CASE pc' = "sense" /\ (Silent \/ Futile)
  <2>1. ~Calls
    BY <1>2, <1>4 DEF Calls, Silent, Futile
  <2>2. UNCHANGED <<contactor, session, mover, sinceOpen, sinceClose>>
    BY <2>1 DEF Obey
  <2> QED BY <1>1, <1>2, <1>4, <2>2 DEF Allowed, Silent, Futile, relay
<1>5. CASE pc' = "sense" /\ Stops
  <2>1. Opens /\ belief' = "open" /\ closeAge' = closeAge
        /\ openAge' = (IF belief = "open" THEN openAge ELSE 0)
    BY <1>5 DEF Stops, Opens, NoteOpened, Commands
  <2>2. CASE UNCHANGED <<contactor, session, mover, sinceOpen, sinceClose>>
    BY <1>1, <1>5, <2>1, <2>2 DEF Allowed
  <2>3. CASE Calls /\ session' = ~Opens /\ obs.controllable /\ Moved("open")
    <3>1. session' \in BOOLEAN
      BY <2>1, <2>3, Zenon
    <3>2. DemandNow \/ closeAge >= MinOn
      BY <1>2, <1>5 DEF Stops, MayStop
    <3>3. belief = contactor
      BY <1>2, <2>3
    <3> QED BY <1>1, <1>5, <2>1, <2>3, <3>1, <3>2, <3>3 DEF Allowed, Moved
  <2> QED BY <2>1, <2>2, <2>3 DEF Obey
<1>6. CASE pc' = "sense" /\ Starts
  <2>1. ~Opens /\ belief' = "closed" /\ openAge' = openAge /\ obs.controllable
        /\ closeAge' = (IF belief = "closed" THEN closeAge ELSE 0) /\ MayStart
    BY <1>6 DEF Starts, Opens, NoteClosed
  <2>2. belief = contactor /\ obs.enabled = contactor
    BY <1>2, <2>1
  <2>3. CASE UNCHANGED <<contactor, session, mover, sinceOpen, sinceClose>>
    BY <1>1, <1>6, <2>1, <2>3 DEF Allowed
  <2>4. CASE /\ Calls /\ session' = ~Opens
             /\ Moved(IF Closes THEN "closed" ELSE contactor)
    <3>1. session' \in BOOLEAN
      BY <2>4, Zenon
    <3>2. belief = "closed" \/ openAge >= MinOff
      BY <1>2, <2>1 DEF MayStart
    <3>3. contactor = "open" => Closes
      BY <1>6, <2>2 DEF Starts, Closes
    <3>4. Moved("closed")
      BY <2>4, <3>3
    <3> QED BY <1>1, <1>6, <2>1, <2>2, <3>1, <3>2, <3>4 DEF Allowed, Moved
  <2> QED BY <2>1, <2>3, <2>4 DEF Obey
<1>7. CASE pc' = "sense" /\ Writes
  <2>1. ~Opens /\ UNCHANGED relay /\ obs.enabled # "open" /\ obs.controllable
    BY <1>7 DEF Writes, Opens
  <2>2. contactor = "closed"
    BY <1>2, <2>1
  <2>3. CASE UNCHANGED <<contactor, session, mover, sinceOpen, sinceClose>>
    BY <1>1, <1>7, <2>1, <2>3 DEF Allowed, relay
  <2>4. CASE /\ Calls /\ session' = ~Opens
             /\ Moved(IF Closes THEN "closed" ELSE contactor)
    <3>1. session' \in BOOLEAN
      BY <2>4, Zenon
    <3> QED BY <1>1, <1>7, <2>1, <2>2, <2>4, <3>1 DEF Allowed, Moved, relay
  <2> QED BY <2>1, <2>3, <2>4 DEF Obey
<1> QED BY <1>0, <1>3, <1>4, <1>5, <1>6, <1>7 DEF RowSummary

\* A row before a relay that cannot be read, on a line that loses nothing.
LEMMA BlindRowIsAllowed ==
  ASSUME Linked, setup.readback = "none", setup.faults = {}, RowSummary, Obey
  PROVE Allowed /\ Behind' /\ LoopTypeOK' /\ (pc' # "sense" => InCycle') /\ Believed'
<1> USE TimeAssumption DEF Linked, AgesOK, LoopTypeOK, Behind
<1>1. pc # "sense" /\ UNCHANGED <<wish, obs, shown, plugged, wants, setup>>
  BY DEF RowSummary, Obey, car
<1>2. /\ acts = {} /\ obs.surface /\ obs.stoppable /\ obs.controllable /\ obs.enabled = "unknown"
      /\ wish.desired = "CHARGE" => obs.connected
  BY <1>1 DEF InCycle
<1>3. (session <=> belief = "closed") /\ (belief # "unknown" => contactor = belief)
      /\ (intent => belief = "closed")
  BY DEF Believed, Meant
<1>4. Calls => /\ session' = ~Opens
               /\ Moved(IF Opens THEN "open" ELSE IF Closes THEN "closed" ELSE contactor)
  BY <1>2 DEF Obey, Deaf
<1>5. ASSUME ~Calls PROVE UNCHANGED <<contactor, session, mover, sinceOpen, sinceClose>>
  BY <1>5 DEF Obey
<1>6. CASE UNCHANGED relay /\ ~Calls /\ (pc' # "sense" => acts' = acts)
  BY <1>1, <1>2, <1>3, <1>5, <1>6 DEF Allowed, InCycle, Believed, relay
<1>7. CASE pc' = "decide" /\ UNCHANGED <<acts, relay>>
  BY <1>2, <1>6, <1>7 DEF Calls
<1>8. CASE pc' = "sense" /\ (Silent \/ Futile)
  BY <1>2, <1>6, <1>8 DEF Calls, Silent, Futile
<1>9. CASE pc' = "sense" /\ Stops
  <2>1. /\ Opens /\ Calls /\ belief' = "open" /\ closeAge' = closeAge
        /\ openAge' = (IF belief = "open" THEN openAge ELSE 0)
        /\ (DemandNow \/ closeAge >= MinOn)
    BY <1>2, <1>9 DEF Stops, MayStop, Opens, Calls, NoteOpened, Commands
  <2>2. Moved("open") /\ ~session'
    BY <1>4, <2>1
  <2>3. session' \in BOOLEAN
    <3>1. session' = ~Opens
      BY <1>4, <2>1
    <3> QED BY <3>1, Zenon
  <2> QED BY <1>1, <1>3, <1>9, <2>1, <2>2, <2>3 DEF Allowed, Moved, Believed
<1>10. CASE pc' = "sense" /\ Starts
  <2>1. /\ ~Opens /\ Calls /\ belief' = "closed" /\ openAge' = openAge
        /\ closeAge' = (IF belief = "closed" THEN closeAge ELSE 0)
        /\ (belief = "closed" \/ openAge >= MinOff)
        /\ "START_AND_WRITE" \in acts' /\ "ENABLE" \notin acts'
    BY <1>2, <1>10 DEF Starts, MayStart, Opens, Calls, NoteClosed, Commands
  <2>2. Closes <=> ~session
    BY <1>2, <2>1 DEF Closes
  <2>3. Moved("closed") /\ session'
    BY <1>3, <1>4, <2>1, <2>2
  <2>4. session' \in BOOLEAN
    <3>1. session' = ~Opens
      BY <1>4, <2>1
    <3> QED BY <3>1, Zenon
  <2>5. Believed' /\ LoopTypeOK'
    BY <1>1, <1>10, <2>1, <2>3, <2>4 DEF Moved, Believed
  <2>6. CASE belief = "closed"
    BY <1>1, <1>3, <1>10, <2>1, <2>3, <2>5, <2>6 DEF Allowed, Moved
  <2>7. CASE belief # "closed"
    BY <1>1, <1>10, <2>1, <2>3, <2>5, <2>7 DEF Allowed, Moved
  <2> QED BY <2>6, <2>7
<1>11. CASE pc' = "sense" /\ Writes
  <2>1. ~Opens /\ Calls /\ UNCHANGED relay /\ "ENABLE" \notin acts' /\ belief = "closed"
    BY <1>3, <1>11 DEF Writes, Opens, Calls, Commands
  <2>2. Moved(contactor) /\ session'
    BY <1>3, <1>4, <2>1 DEF Closes
  <2>3. session' \in BOOLEAN
    <3>1. session' = ~Opens
      BY <1>4, <2>1
    <3> QED BY <3>1, Zenon
  <2> QED BY <1>1, <1>3, <1>11, <2>1, <2>2, <2>3 DEF Allowed, Moved, Believed, relay
<1> QED BY <1>7, <1>8, <1>9, <1>10, <1>11 DEF RowSummary

LEMMA RowIsAllowed ==
  ASSUME Linked, Known(setup), RowSummary, Obey
  PROVE Allowed /\ Behind' /\ LoopTypeOK' /\ (pc' # "sense" => InCycle') /\ Believed'
BY LiveRowIsAllowed, BlindRowIsAllowed DEF Known

\* The car that went away ended the charge before it is parked: the wish of its first cycle is none to charge,
\* and the park takes a second one.
LEMMA MeantRow ==
  ASSUME Linked, ParkCycles > 1, Rows, setup' = setup
  PROVE  Meant'
<1> SUFFICES ASSUME setup.readback = "none" PROVE Meant'
  BY DEF Meant
<1>1. /\ intent => belief = "closed"
      /\ awayRun > 0 /\ intent => pc = "decide" /\ ~obs.connected
      /\ pc = "decide" /\ obs.connected => awayRun = 0
      /\ awayRun \in 0 .. ParkCycles /\ ParkCycles \in Nat
  BY TimeAssumption DEF Linked, Meant, AgesOK
<1>2. pc = "decide" /\ wish.desired = "CHARGE" => obs.connected
  BY DEF Linked, InCycle
<1> USE <1>1, <1>2 DEF Meant, Answer, inputs
<1>3. CASE StopOnRelease
  BY <1>3 DEF StopOnRelease, Released
<1>4. CASE HandsOff
  BY <1>4 DEF HandsOff, Released, relay
<1>5. CASE ClearFailsafe
  BY <1>5 DEF ClearFailsafe, Engaged, idle, plug, relay
<1>6. CASE Plugged
  BY <1>6 DEF Plugged, Engaged, idle, relay
<1>7. CASE Park
  <2>1. awayRun > 0 /\ pc = "enter"
    BY <1>7 DEF Park, Away, Engaged, CarLeft
  <2> QED BY <1>7, <2>1 DEF Park, Away, idle
<1>8. CASE Unplugged
  BY <1>8 DEF Unplugged, Away, Engaged, idle, relay, Older
<1>9. CASE Stopping /\ pc' = "sense"
  BY <1>9 DEF Stopping, plug
<1>10. CASE ChargeHeld
  BY <1>10 DEF ChargeHeld, Charging, relay, plug
<1>11. CASE \E enables \in {{}, {"ENABLE"}} : ChargeRow(enables)
  <2>1. PICK enables \in {{}, {"ENABLE"}} : ChargeRow(enables)
    BY <1>11
  <2>2. pc = "decide" /\ pc' = "sense" /\ wish.desired = "CHARGE" /\ awayRun' = awayRun
        /\ UNCHANGED <<wish, obs>>
    BY <2>1 DEF ChargeRow, Charging, plug
  <2>3. belief' = "closed"
    <3>1. CASE enables \cup Current \in {{}, {"WRITE_CURRENT"}}
      BY <2>1, <3>1 DEF ChargeRow, Current, relay
    <3>2. CASE enables \cup Current \notin {{}, {"WRITE_CURRENT"}}
      BY <2>1, <3>2 DEF ChargeRow, NoteClosed
    <3> QED BY <3>1, <3>2
  <2> QED BY <2>2, <2>3
<1> QED
  BY <1>3, <1>4, <1>5, <1>6, <1>7, <1>8, <1>9, <1>10, <1>11
     DEF Rows, Converged, Unenforceable, StandDown, DeclareTruce, StopOff, StopRogue, WindDown,
         GatedDisable, Resisted, Fighting, Charge, ChargeEnable

LEMMA LinkedStep ==
  ASSUME \A s \in Setups : Known(s), ParkCycles > 1
  PROVE Linked /\ [LoopNext]_lvars => Linked'
<1> SUFFICES ASSUME Linked, [LoopNext]_lvars PROVE Linked'
  OBVIOUS
<1>1. [Next]_vars
  BY LoopStepIsAStep DEF Linked
<1>2. AgesOK' /\ FlagsOK'
  BY <1>1, AgesOKStep, FlagsOKStep DEF Linked
<1>3. CASE LoopSensing
  <2>1. PICK w \in Wishes, dark \in BOOLEAN, d \in Steps : LoopSense(w, dark, d)
    BY <1>3 DEF LoopSensing
  <2>2. LoopTypeOK' /\ Behind'
    BY <2>1, TimeAssumption DEF LoopSense, Sense, Elapse, Older, Linked, AgesOK,
         LoopTypeOK, Behind, car
  <2>3. acts' = {} /\ obs' = Reading(dark) /\ belief' = Adopt(obs'.enabled) /\ wish' = w
        /\ pc' = "enter" /\ (w.desired = "CHARGE" => plugged) /\ (dark => "dark" \in setup.faults)
        /\ UNCHANGED <<contactor, session, intent, awayRun, setup>> /\ pc = "sense"
    BY <2>1 DEF LoopSense, Sense, idle, plug
  <2>4. obs'.surface = TRUE /\ obs'.stoppable = TRUE /\ obs'.controllable = ~dark
        /\ obs'.connected = plugged /\ obs'.enabled = IF dark THEN "unknown" ELSE SwitchReads
    BY <2>3 DEF Reading
  <2>5. CASE setup.readback = "live"
    <3>1. ~dark => obs'.enabled = contactor
      BY <2>4, <2>5 DEF SwitchReads
    <3>2. ~dark => belief' = contactor
      BY <2>3, <3>1 DEF Adopt, Linked, LoopTypeOK
    <3> QED BY <1>2, <2>2, <2>3, <2>4, <2>5, <3>1, <3>2 DEF Linked, InCycle, Believed, Meant
  <2>6. CASE setup.readback = "none" /\ setup.faults = {}
    <3>1. ~dark /\ obs'.enabled = "unknown" /\ belief' = belief
      BY <2>3, <2>4, <2>6 DEF SwitchReads, Adopt
    <3> QED BY <1>2, <2>2, <2>3, <2>4, <2>6, <3>1 DEF Linked, InCycle, Believed, Meant
  <2> QED BY <2>5, <2>6 DEF Known, Linked, LoopTypeOK
<1>4. CASE LoopRow
  <2>1. RowSummary /\ Obey /\ Rows /\ setup' = setup /\ Known(setup)
    BY <1>4, RowsAreSummed DEF LoopRow, Linked, Obey, LoopTypeOK
  <2>2. Behind' /\ LoopTypeOK' /\ (pc' # "sense" => InCycle') /\ Believed'
    BY <2>1, RowIsAllowed
  <2>3. Meant'
    BY <2>1, MeantRow
  <2> QED BY <1>2, <2>2, <2>3 DEF Linked, InCycle
<1>5. CASE Poll
  BY <1>2, <1>5 DEF Poll, Linked, LoopTypeOK, InCycle, Behind, Believed, Meant, vars, inputs, idle, plug,
       relay, car
<1>6. CASE RogueStart
  <2>1. setup.readback = "live"
    BY <1>6 DEF RogueStart, Known, Linked, LoopTypeOK
  <2> QED BY <1>2, <1>6, <2>1 DEF RogueStart, Linked, LoopTypeOK, InCycle, Behind, Believed, Meant, vars,
       inputs, relay, car
<1>7. CASE CarChanges
  BY <1>2, <1>7 DEF CarChanges, Linked, LoopTypeOK, InCycle, Behind, Believed, Meant, vars, inputs, idle,
       plug, relay, box
<1>8. CASE UNCHANGED lvars
  BY <1>2, <1>8 DEF lvars, Linked, LoopTypeOK, InCycle, Behind, Believed, Meant, vars, inputs, idle, plug,
       relay, box, car
<1> QED BY <1>3, <1>4, <1>5, <1>6, <1>7, <1>8 DEF LoopNext

LEMMA LinkedInit == LoopInit => Linked
<1> SUFFICES ASSUME LoopInit PROVE Linked
  OBVIOUS
<1>1. AgesOK
  BY TimeAssumption DEF LoopInit, Init, AgesOK
<1>2. FlagsOK
  BY DEF LoopInit, Init, FlagsOK
<1>3. sinceOpen \in 0 .. MinOff /\ sinceClose \in 0 .. MinOn /\ Behind
  BY TimeAssumption DEF LoopInit, Init, Behind
<1>4. session \in BOOLEAN /\ plugged \in BOOLEAN /\ wants \in BOOLEAN
  BY Zenon DEF LoopInit
<1>5. LoopTypeOK
  BY <1>3, <1>4 DEF LoopInit, LoopTypeOK
<1>6. InCycle
  BY DEF LoopInit, Init, InCycle
<1>7. Believed /\ Meant
  BY DEF LoopInit, Init, Believed, Meant
<1> QED BY <1>1, <1>2, <1>3, <1>5, <1>6, <1>7 DEF Linked

LEMMA StepKeepsPromise ==
  ASSUME \A s \in Setups : Known(s)
  PROVE  Linked /\ [LoopNext]_lvars => [Promise!Next]_(Promise!promise)
<1> SUFFICES ASSUME Linked, [LoopNext]_lvars PROVE [Promise!Next]_(Promise!promise)
  OBVIOUS
<1> USE DEF Promise!Next, Promise!promise
<1>1. CASE LoopSensing
  <2>1. PICK w \in Wishes, dark \in BOOLEAN, d \in Steps : LoopSense(w, dark, d)
    BY <1>1 DEF LoopSensing
  <2>2. /\ sinceOpen' = Promise!Later(sinceOpen, d, MinOff)
        /\ sinceClose' = Promise!Later(sinceClose, d, MinOn)
        /\ UNCHANGED <<contactor, mover>>
    BY <2>1 DEF LoopSense, Older, Promise!Later
  <2>3. DemandNow' \in BOOLEAN
    BY Zenon DEF DemandNow
  <2> QED BY <2>1, <2>2, <2>3 DEF Promise!Pass
<1>2. CASE LoopRow
  <2>1. RowSummary /\ Obey
    BY <1>2, RowsAreSummed DEF LoopRow, Linked
  <2>2. Allowed
    BY <2>1, RowIsAllowed DEF Linked, LoopTypeOK
  <2>3. UNCHANGED DemandNow
    BY <2>1 DEF RowSummary, DemandNow
  <2> QED BY <2>2, <2>3 DEF Allowed, Promise!Close, Promise!Open
<1>3. CASE RogueStart
  <2>1. UNCHANGED DemandNow
    BY <1>3 DEF RogueStart, DemandNow, vars, inputs
  <2> QED BY <1>3, <2>1 DEF RogueStart, Promise!BoxMoves
<1>4. CASE Poll \/ CarChanges \/ UNCHANGED lvars
  <2>1. UNCHANGED DemandNow
    BY <1>4 DEF Poll, CarChanges, lvars, DemandNow, vars, inputs
  <2> QED BY <1>4, <2>1 DEF Poll, CarChanges, lvars, box
<1> QED BY <1>1, <1>2, <1>3, <1>4 DEF LoopNext

\* With a switch that reads the relay live, whatever the box and the line do, and with a relay that cannot
\* be read on a box and a line without faults, the reconciler and its box implement the anti-cycle promise
\* (charger_reconciler.py, CONTACTOR_MIN_ON_S and CONTACTOR_MIN_OFF_S): SEM never closes a relay within
\* MinOff of its own opening, nor opens one within MinOn of its own closing except on demand.  The park's
\* debounce is the code's two cycles or more: with one, the park would leave a charge SEM means to go on with.
THEOREM LoopKeepsPromise ==
  ASSUME \A s \in Setups : Known(s), ParkCycles > 1
  PROVE LoopSpec => KeepsPromise
<1>1. LoopInit => Promise!Init
  <2>1. LoopInit => DemandNow \in BOOLEAN
    BY Zenon DEF DemandNow
  <2> QED BY <2>1 DEF LoopInit, Promise!Init
<1>2. LoopSpec => []Linked
  BY LinkedInit, LinkedStep, PTL DEF LoopSpec
<1> QED
  BY <1>1, <1>2, StepKeepsPromise, PTL DEF LoopSpec, KeepsPromise, Promise!Spec
=============================================================================
