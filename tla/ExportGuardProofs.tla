-------------------------- MODULE ExportGuardProofs --------------------------
(***************************************************************************)
(* Theorems about ExportGuard, for every length of the two holds.          *)
(*                                                                         *)
(* The type invariant, the stickiness of a refusal and the observer rule   *)
(* hold in every environment; the cut is accounted for in the calm ones    *)
(* (the runs of ExportGuard's last section show what happens outside).     *)
(***************************************************************************)
EXTENDS ExportGuard, TLAPS

\* The ages and the refusal count stay within their bounds.
LEMMA CountsOKStep == CountsOK /\ [Next]_vars => CountsOK'
<1> SUFFICES ASSUME CountsOK, [Next]_vars PROVE CountsOK'
  OBVIOUS
<1> USE HoldAssumption DEF CountsOK, RefusalsForRepair
<1>1. ASSUME NEW price \in {"open", "closed"}, NEW export \in {"blind", "low", "high"},
             Tick(price, export)
      PROVE CountsOK'
  <2>1. CASE Closed(export)
    BY <1>1, <2>1 DEF Tick, Closed, Hold, KeepClosed, Engage, Aged, MinOf, DecideExport,
                      userVars, hwVars
  <2>2. CASE Open
    BY <1>1, <2>2 DEF Tick, Open, NothingToRelease, HoldRelease, Release, HasCut, Aged, MinOf,
                      DecideExport, userVars, hwVars
  <2> QED BY <1>1, <2>1, <2>2 DEF Tick
<1>2. CASE Adopt
  BY <1>2 DEF Adopt, guardVars, userVars, hwVars
<1>3. CASE Withhold
  BY <1>3 DEF Withhold, guardVars, userVars, hwVars
<1>4. CASE Write
  BY <1>4 DEF Write, guardVars, userVars, hwVars
<1>5. CASE Refuse
  BY <1>5 DEF Refuse, MinOf, guardVars, userVars, hwVars
<1>6. CASE Persist
  BY <1>6 DEF Persist, guardVars, userVars, hwVars
<1>7. CASE Restart
  BY <1>7 DEF Restart, FreshGuard, guardVars, userVars, hwVars
<1>8. CASE Enable
  BY <1>8 DEF Enable, guardVars, userVars, hwVars
<1>9. CASE Toggle
  BY <1>9 DEF Toggle, guardVars, userVars, hwVars
<1>10. CASE \E refuses \in BOOLEAN : Disable(refuses)
  BY <1>10 DEF Disable, FreshGuard, userVars
<1>11. CASE UNCHANGED vars
  BY <1>11 DEF vars, guardVars, userVars, hwVars
<1> QED
  BY <1>1, <1>2, <1>3, <1>4, <1>5, <1>6, <1>7, <1>8, <1>9, <1>10, <1>11 DEF Next, Cycle

\* Every other variable keeps to its values.
LEMMA ValuesOKStep == ValuesOK /\ [Next]_vars => ValuesOK'
<1> SUFFICES ASSUME ValuesOK, [Next]_vars PROVE ValuesOK'
  OBVIOUS
<1> USE DEF ValuesOK
<1>1. ASSUME NEW price \in {"open", "closed"}, NEW export \in {"blind", "low", "high"},
             Tick(price, export)
      PROVE ValuesOK'
  <2>1. CASE Closed(export)
    BY <1>1, <2>1 DEF Tick, Closed, Hold, KeepClosed, Engage, Aged, MinOf, DecideExport,
                      userVars, hwVars
  <2>2. CASE Open
    BY <1>1, <2>2 DEF Tick, Open, NothingToRelease, HoldRelease, Release, HasCut, Aged, MinOf,
                      DecideExport, userVars, hwVars
  <2> QED BY <1>1, <2>1, <2>2 DEF Tick
<1>2. CASE Adopt
  BY <1>2 DEF Adopt, guardVars, userVars, hwVars
<1>3. CASE Withhold
  BY <1>3 DEF Withhold, guardVars, userVars, hwVars
<1>4. CASE Write
  BY <1>4 DEF Write, guardVars, userVars, hwVars
<1>5. CASE Refuse
  BY <1>5 DEF Refuse, MinOf, guardVars, userVars, hwVars
<1>6. CASE Persist
  BY <1>6 DEF Persist, guardVars, userVars, hwVars
<1>7. CASE Restart
  BY <1>7 DEF Restart, FreshGuard, guardVars, userVars, hwVars
<1>8. CASE Enable
  BY <1>8 DEF Enable, guardVars, userVars, hwVars
<1>9. CASE Toggle
  <2>1. enabled' \in BOOLEAN /\ observer' \in BOOLEAN
    BY <1>9, Zenon DEF Toggle
  <2>2. UNCHANGED <<state, verdict, pc, command, wrote, repairWanted, applied, marker, cut, store, env>>
    BY <1>9 DEF Toggle, guardVars, hwVars
  <2> QED BY <2>1, <2>2
<1>10. CASE \E refuses \in BOOLEAN : Disable(refuses)
  BY <1>10 DEF Disable, FreshGuard, userVars
<1>11. CASE UNCHANGED vars
  BY <1>11 DEF vars, guardVars, userVars, hwVars
<1> QED
  BY <1>1, <1>2, <1>3, <1>4, <1>5, <1>6, <1>7, <1>8, <1>9, <1>10, <1>11 DEF Next, Cycle

\* Every variable of ExportGuard stays within its range, whatever the environment does.
THEOREM TypeCorrect == Spec => []TypeOK
<1>1. Init => TypeOK
  <2>1. Init => CountsOK
    BY HoldAssumption DEF Init, CountsOK, RefusalsForRepair
  <2>2. Init => ValuesOK
    BY DEF Init, ValuesOK
  <2> QED BY <2>1, <2>2 DEF TypeOK
<1>2. TypeOK /\ [Next]_vars => TypeOK'
  BY CountsOKStep, ValuesOKStep DEF TypeOK
<1> QED
  BY <1>1, <1>2, PTL DEF Spec

\* #936: no step of any path taken while SEM is only watching changes the inverter
\* or the record of the cut.
THEOREM ObserverNeverWrites == Spec => ObserverLeavesTheHouse
<1>1. [Next]_vars => [observer => UNCHANGED <<cut, store>>]_vars
  BY DEF Next, Cycle, Adopt, Tick, Withhold, Write, Refuse, Persist, Restart, Disable,
         Enable, Toggle, vars, hwVars
<1> QED
  BY <1>1, PTL DEF Spec, ObserverLeavesTheHouse

\* A refused verb is not tried again: from a refusal the tracker only ever goes
\* to idle, and it commands nothing on the way.
RefusedIsSilent == state = "refused" => command = "none" /\ pc \in {"tick", "dispatch"}

THEOREM RefusalIsSticky == Spec => RefusalSticks
<1>1. Init => RefusedIsSilent
  BY DEF Init, RefusedIsSilent
<1>2. RefusedIsSilent /\ [Next]_vars =>
        /\ RefusedIsSilent'
        /\ [state = "refused" => command' = "none" /\ state' \in {"refused", "idle"}]_vars
  <2> SUFFICES ASSUME RefusedIsSilent, [Next]_vars
               PROVE  /\ RefusedIsSilent'
                      /\ [state = "refused" => command' = "none" /\ state' \in {"refused", "idle"}]_vars
    OBVIOUS
  <2>1. ASSUME NEW price \in {"open", "closed"}, NEW export \in {"blind", "low", "high"},
               Tick(price, export)
        PROVE  (state' = "refused" \/ state = "refused") =>
                 command' = "none" /\ state' \in {"refused", "idle"} /\ pc' = "dispatch"
    <3>1. CASE Closed(export)
      BY <2>1, <3>1 DEF Tick, Closed, Hold, KeepClosed, Engage
    <3>2. CASE Open
      BY <2>1, <3>2 DEF Tick, Open, NothingToRelease, HoldRelease, Release
    <3> QED BY <2>1, <3>1, <3>2 DEF Tick
  <2>2. CASE Adopt
    BY <2>2 DEF RefusedIsSilent, Adopt
  <2>7. CASE Withhold \/ Write \/ Refuse \/ Persist
    BY <2>7 DEF RefusedIsSilent, Withhold, Write, Refuse, Persist, guardVars
  <2>3. CASE Restart
    BY <2>3 DEF RefusedIsSilent, Restart, FreshGuard
  <2>6. CASE Enable \/ Toggle
    BY <2>6 DEF RefusedIsSilent, Enable, Toggle, guardVars
  <2>4. CASE \E refuses \in BOOLEAN : Disable(refuses)
    BY <2>4 DEF RefusedIsSilent, Disable, FreshGuard
  <2>5. CASE UNCHANGED vars
    BY <2>5 DEF RefusedIsSilent, vars, guardVars
  <2> QED BY <2>1, <2>2, <2>3, <2>4, <2>5, <2>6, <2>7 DEF RefusedIsSilent, Next, Cycle
<1> QED
  BY <1>1, <1>2, PTL DEF Spec, RefusalSticks

-----------------------------------------------------------------------------
(* Ownership of the cut.                                                   *)

\* What each point of a cycle knows about the cut.
Owned ==
  /\ enabled /\ ~observer
  /\ pc \in {"boot", "tick", "dispatch", "persist", "off"}
  /\ pc \in {"boot", "tick", "off"} => command = "none"
  /\ pc \in {"boot", "off"} => state = "idle" /\ ~applied /\ ~marker
  /\ pc = "off" => ~cut
  /\ pc # "persist" => cut = store
  /\ pc \in {"tick", "dispatch", "persist"} => cut = marker
  /\ pc = "tick" \/ (pc = "dispatch" /\ command = "none") =>
       /\ cut => applied /\ state \in {"holding", "engaged", "releasing"}
       /\ ~cut => ~applied /\ state \in {"idle", "holding"}
  /\ pc \in {"dispatch", "persist"} =>
       /\ command = "limit" => applied /\ state = "engaged"
       /\ command = "release" => ~applied /\ state = "idle"
  /\ pc = "dispatch" /\ command = "release" => cut
  /\ pc = "persist" => command \in {"limit", "release"} /\ cut = (command = "limit")
  /\ cut \in BOOLEAN /\ marker \in BOOLEAN /\ applied \in BOOLEAN /\ store \in BOOLEAN
  /\ command \in {"none", "limit", "release"}

LEMMA CalmStays == [Next]_vars => UNCHANGED env
  BY DEF Next, Cycle, Adopt, Tick, Withhold, Write, Refuse, Persist, Restart, Disable,
         Enable, Toggle, vars, userVars

LEMMA OwnedStep == ASSUME Calm, Owned, [Next]_vars PROVE Owned'
<1>1. ASSUME NEW price \in {"open", "closed"}, NEW export \in {"blind", "low", "high"},
             Tick(price, export)
      PROVE Owned'
  <2>1. CASE Closed(export)
    <3>1. CASE Hold(export)
      BY <1>1, <3>1 DEF Owned, Tick, Hold, userVars, hwVars
    <3>2. CASE KeepClosed
      BY <1>1, <3>2 DEF Owned, Tick, KeepClosed, userVars, hwVars
    <3>3. CASE Engage(export)
      BY <1>1, <3>3 DEF Owned, Tick, Engage, DecideExport, userVars, hwVars
    <3> QED BY <2>1, <3>1, <3>2, <3>3 DEF Closed
  <2>2. CASE NothingToRelease
    BY <1>1, <2>2 DEF Owned, Tick, NothingToRelease, HasCut, userVars, hwVars
  <2>3. CASE HoldRelease
    <3>1. state # "refused" /\ command = "none" /\ cut = marker /\ (cut => applied) /\ applied
      BY <1>1, <2>3 DEF Owned, Tick, HoldRelease, HasCut
    <3>2. state' = "releasing" /\ command' = "none" /\ pc' = "dispatch"
      BY <1>1, <2>3, <3>1 DEF Tick, HoldRelease
    <3> QED BY <1>1, <2>3, <3>1, <3>2 DEF Owned, Tick, HoldRelease, userVars, hwVars
  <2>4. CASE Release
    BY <1>1, <2>4 DEF Owned, Tick, Release, HasCut, DecideExport, userVars, hwVars
  <2> QED BY <1>1, <2>1, <2>2, <2>3, <2>4 DEF Tick, Open
<1>2. CASE Adopt
  <2>1. CASE store
    BY <1>2, <2>1 DEF Owned, Adopt, userVars
  <2>2. CASE ~store
    BY <1>2, <2>2 DEF Owned, Adopt, userVars
  <2> QED BY <2>1, <2>2
<1>3. CASE Withhold
  BY <1>3 DEF Owned, Withhold, guardVars, userVars, hwVars
<1>4. CASE Write
  BY <1>4 DEF Owned, Write, guardVars, userVars
<1>5. CASE Refuse
  BY <1>5, Calm DEF Calm, Refuse
<1>6. CASE Persist
  <2>1. store' = (command = "limit")
    BY <1>6 DEF Owned, Persist
  <2> QED BY <1>6, <2>1 DEF Owned, Persist, guardVars, userVars, hwVars
<1>7. CASE Restart
  BY <1>7, Calm DEF Calm, Owned, Restart, FreshGuard, userVars
<1>8. CASE \E refuses \in BOOLEAN : Disable(refuses)
  <2> PICK refuses \in BOOLEAN : Disable(refuses)
    BY <1>8
  <2>1. ~refuses /\ ~cut' /\ ~store'
    BY Calm DEF Calm, Owned, Disable
  <2> QED BY <2>1 DEF Owned, Disable, FreshGuard, userVars
<1>9. CASE Enable
  BY <1>9 DEF Owned, Enable, guardVars, userVars, hwVars
<1>10. CASE Toggle
  BY <1>10, Calm DEF Calm, Toggle
<1>11. CASE UNCHANGED vars
  BY <1>11 DEF Owned, vars, guardVars, userVars, hwVars
<1> QED
  BY <1>1, <1>2, <1>3, <1>4, <1>5, <1>6, <1>7, <1>8, <1>9, <1>10, <1>11 DEF Next, Cycle

\* In a calm environment each point of a cycle knows about the cut what Owned says.
CalmOwned == Calm => Owned

LEMMA CalmOwnedAlways ==
  /\ Init => CalmOwned
  /\ CalmOwned /\ [Next]_vars => CalmOwned'
<1>1. Init => CalmOwned
  BY DEF Init, CalmOwned, Calm, Owned
<1>2. ASSUME CalmOwned, [Next]_vars PROVE CalmOwned'
  <2>1. Calm' => Calm
    BY <1>2, CalmStays DEF Calm
  <2> QED BY <1>2, <2>1, OwnedStep DEF CalmOwned
<1> QED BY <1>1, <1>2

\* Between two cycles the store names every cut standing in the inverter.
THEOREM CutIsKept == Spec => []CutIsRemembered
<1>1. CalmOwned => CutIsRemembered
  BY DEF CalmOwned, Owned, CutIsRemembered
<1> QED
  BY <1>1, CalmOwnedAlways, PTL DEF Spec

\* Between two cycles the running lifetime knows of every cut that it has to give it back.
THEOREM CutHasAnOwner == Spec => []CutIsOwned
<1>1. CalmOwned => CutIsOwned
  BY DEF CalmOwned, Owned, CutIsOwned
<1> QED
  BY <1>1, CalmOwnedAlways, PTL DEF Spec

\* #908: the release verb only ever reaches an adapter that holds SEM's own cut.
THEOREM OwnCutOnly == Spec => OnlyOwnCutIsReleased
<1>1. CalmOwned /\ [Next]_vars =>
        [Calm /\ wrote' = "release" /\ wrote # "release" => marker]_vars
  BY DEF CalmOwned, Owned, Calm, Next, Cycle, Adopt, Tick, Withhold, Write, Refuse, Persist,
         Restart, Disable, Enable, Toggle, vars
<1> QED
  BY <1>1, CalmOwnedAlways, PTL DEF Spec, OnlyOwnCutIsReleased
=============================================================================
