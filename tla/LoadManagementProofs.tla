-------------------- MODULE LoadManagementProofs --------------------
(***************************************************************************)
(* Proofs about load management:                                           *)
(*                                                                         *)
(*   LoadShed   any set of loads and phases, any wiring and priorities and *)
(*              any number of failing calls: its types, that a load it     *)
(*              switched off stays on its list, and that nothing taken for *)
(*              a phase comes back by itself while the latch stands        *)
(*   PeakSlot   any length of the slot and of the step cap within it, any  *)
(*              ceiling, draws and cycle times: the tracker's integral,    *)
(*              the booked slots, and the landing of a house that obeys    *)
(*                                                                         *)
(* The two are proved side by side and share nothing but this module.      *)
(***************************************************************************)
EXTENDS LoadShed, PeakSlot, FiniteSetTheorems, TLAPS

\* Calls that fail are counted, as long as they may.
LEMMA FailsCounted ==
  ASSUME NEW S, S \subseteq Loads, faults \in 0 .. MaxFaults, Fail(S)
  PROVE  faults' \in 0 .. MaxFaults
<1>1. Cardinality(S) \in Nat
  BY LoadAssumption, FS_Subset, FS_CardinalityType
<1> QED BY <1>1, BoundAssumption DEF Fail

-----------------------------------------------------------------------------
(* What the two actions that switch loads for the house's sake come to.    *)

Listed == shed \ Gone
Marks  == Marked \ Gone

\* Some of our loads that are on go off.
Shedding(listed, marks) == \E S \in SUBSET (on \cap Ours) : SwitchOff(S, listed, marks)

\* One load off the list comes back, none that was taken for a phase while the latch stands.
Restoring ==
  \E l \in Restorable(Listed) : CanRestore(l) /\ Restored(l, Listed, Marks)

\* An answer sheds, and takes or holds what it picked.
LEMMA AnswerEffect ==
  ASSUME NEW p \in Phases, Answer(p), faults \in 0 .. MaxFaults
  PROVE  /\ \E S \in SUBSET (on \cap Ours) : SwitchOff(S, shed, ran) /\ taken' = taken \cup S
         /\ \E H \in SUBSET Theirs : held' = held \cup H
         /\ faults' \in 0 .. MaxFaults
         /\ step = "answer" /\ todo' = todo \ {p} /\ step' \in {"answer", "peak"}
         /\ threw \in BOOLEAN => threw' \in BOOLEAN
         /\ UNCHANGED <<latch, normal, resting>>
<1>1. PICK thrown \in SUBSET Able(p) : \E failing \in SUBSET ((Able(p) \cap Ours) \ thrown) :
        /\ step = "answer" /\ SwitchOff(thrown \cap Ours, shed, ran) /\ Fail(failing)
        /\ taken' = taken \cup (thrown \cap Ours) /\ held' = held \cup (thrown \cap Theirs)
        /\ threw' = (threw \/ (failing \cup thrown) \cap Ours # {})
        /\ todo' = todo \ {p} /\ step' = IF todo' = {} THEN "peak" ELSE "answer"
        /\ UNCHANGED <<latch, normal, resting>>
  BY DEF Answer
<1>2. thrown \subseteq on
  BY DEF Able
<1>3. faults' \in 0 .. MaxFaults
  BY <1>1, FailsCounted DEF Ours
<1> QED BY <1>1, <1>2, <1>3

\* The peak's turn sheds or restores, from the list and the marks its clean-up has left.
LEMMA PeakEffect ==
  ASSUME Peak, faults \in 0 .. MaxFaults, resting \in BOOLEAN, shed \subseteq Loads
  PROVE  /\ Shedding(Listed, Marks) \/ Restoring
         /\ faults' \in 0 .. MaxFaults
         /\ step = "peak" /\ step' = "surplus"
         /\ taken' = taken \cap shed' /\ normal' \in BOOLEAN /\ threw' = FALSE /\ resting' \in BOOLEAN
         /\ UNCHANGED <<latch, todo, held>>
<1>1. PICK level \in {"normal", "warning", "shedding", "emergency"} : Peak!(level)
  BY DEF Peak
<1> DEFINE state == StateOf(level, Listed)
<1>2. /\ step = "peak"
      /\ normal' = (state = "normal")
      /\ \/ state = "emergency" /\ Emergency(Listed, Marks) /\ UNCHANGED resting
         \/ state = "shedding" /\ Progressive(Listed, Marks) /\ UNCHANGED resting
         \/ state = "warning" /\ Nothing(Listed, Marks) /\ UNCHANGED resting
         \/ state = "normal" /\ Restore(Listed, Marks)
      /\ taken' = taken \cap shed'
      /\ threw' = FALSE /\ step' = "surplus"
      /\ UNCHANGED <<latch, todo, held>>
  BY <1>1 DEF Listed, Marks
<1> HIDE DEF state
<1>3. Candidates(Listed) \subseteq on \cap Ours
  BY DEF Candidates
<1>4. ASSUME NEW S, S \subseteq Candidates(Listed), SwitchOff(S, Listed, Marks)
      PROVE  Shedding(Listed, Marks)
  BY <1>3, <1>4 DEF Shedding
<1>5. CASE Emergency(Listed, Marks) /\ UNCHANGED resting
  <2>1. PICK thrown \in SUBSET Candidates(Listed) : \E failing \in SUBSET (Candidates(Listed) \ thrown) :
          SwitchOff(thrown, Listed, Marks) /\ Fail(failing)
    BY <1>5 DEF Emergency
  <2>2. faults' \in 0 .. MaxFaults
    BY <2>1, <1>3, FailsCounted DEF Ours
  <2> QED BY <1>2, <1>4, <1>5, <2>1, <2>2
<1>6. CASE Progressive(Listed, Marks) /\ UNCHANGED resting
  <2>1. CASE SwitchOff({}, Listed, Marks) /\ UNCHANGED faults
    BY <1>2, <1>4, <1>6, <2>1
  <2>2. ASSUME NEW l \in Candidates(Listed), SwitchOff({l}, Listed, Marks), UNCHANGED faults
        PROVE  Shedding(Listed, Marks) /\ faults' \in 0 .. MaxFaults
    BY <1>4, <2>2
  <2>3. ASSUME NEW l \in Candidates(Listed), SwitchOff({}, Listed, Marks), Fail({l})
        PROVE  Shedding(Listed, Marks) /\ faults' \in 0 .. MaxFaults
    BY <1>3, <1>4, <2>3, FailsCounted DEF Ours
  <2> QED BY <1>2, <1>6, <2>1, <2>2, <2>3 DEF Progressive
<1>7. ASSUME SwitchOff({}, Listed, Marks) PROVE Shedding(Listed, Marks)
  BY <1>7 DEF Shedding
<1>8. CASE Nothing(Listed, Marks) /\ UNCHANGED resting
  BY <1>2, <1>7, <1>8 DEF Nothing
<1>9. CASE Restore(Listed, Marks)
  <2> DEFINE head == {l \in First(Restorable(Listed)) : ~resting /\ CanRestore(l)}
  <2>1. \/ head = {} /\ Nothing(Listed, Marks) /\ UNCHANGED resting
        \/ \E l \in head : Restored(l, Listed, Marks)
        \/ /\ head \cap was # {} /\ Fail(head)
           /\ SwitchOff({}, Listed, Marks) /\ UNCHANGED resting
    BY <1>9 DEF Restore
  <2>2. head \subseteq Restorable(Listed) /\ \A l \in head : CanRestore(l)
    BY DEF First
  <2>3. Restorable(Listed) \subseteq Loads
    BY DEF Restorable, Listed
  <2> HIDE DEF head
  <2>4. Shedding(Listed, Marks) \/ Restoring
    BY <2>1, <2>2, <1>7 DEF Nothing, Restoring
  <2>5. faults' \in 0 .. MaxFaults
    BY <2>1, <2>2, <2>3, FailsCounted DEF Nothing, Restored
  <2>6. resting' \in BOOLEAN
    BY <2>1 DEF Restored
  <2> QED BY <1>2, <2>4, <2>5, <2>6
<1>10. normal' \in BOOLEAN
  BY <1>2
<1> QED BY <1>2, <1>5, <1>6, <1>8, <1>9, <1>10

\* The clean-up only lets go of loads that ran, and a mark is on a load of the list.
LEMMA CleanUp == Listed \subseteq shed /\ (ran \subseteq shed => Marks \subseteq Listed)
BY DEF Listed, Marks, Marked, Gone

-----------------------------------------------------------------------------
(* Types.                                                                  *)

GuardOK == /\ enforcing \in BOOLEAN /\ authorized \in BOOLEAN
           /\ latched \subseteq Phases /\ asked \subseteq Phases
StepOK  == /\ step \in {"guard", "request", "answer", "peak", "surplus"} /\ todo \subseteq Phases
           /\ normal \in BOOLEAN /\ threw \in BOOLEAN /\ resting \in BOOLEAN
ListsOK == /\ on \subseteq Loads /\ shed \subseteq Ours /\ taken \subseteq shed /\ held \subseteq Theirs
           /\ ran \subseteq shed /\ was \subseteq shed /\ settling \subseteq Ours /\ owed \subseteq Ours
FaultsOK == faults \in 0 .. MaxFaults
IType == GuardOK /\ StepOK /\ ListsOK /\ FaultsOK

LEMMA TypeParts == IType <=> TypeOK
BY DEF IType, GuardOK, StepOK, ListsOK, FaultsOK, TypeOK

\* Nothing but the guard's own two steps touches its part of the state.
LEMMA GuardOKStep == ASSUME IType, [Next]_vars PROVE GuardOK'
<1> USE DEF GuardOK, IType
<1>1. CASE Guard
  BY <1>1 DEF Guard, Reading, Watch, Trust, Block
<1>2. CASE Request
  BY <1>2 DEF Request, Ask
<1>3. ASSUME NEW p \in Phases, Answer(p) PROVE GuardOK'
  BY <1>3, AnswerEffect DEF latch, FaultsOK
<1>4. CASE Peak
  <2>1. UNCHANGED latch
    BY <1>4, PeakEffect DEF FaultsOK, StepOK, ListsOK, Ours
  <2> QED BY <2>1 DEF latch
<1>5. CASE Surplus
  BY <1>5 DEF Surplus, latch
<1>6. ASSUME NEW l \in Loads, TurnsOn(l) \/ TurnsOff(l) PROVE GuardOK'
  BY <1>6 DEF TurnsOn, TurnsOff, latch
<1>7. ASSUME NEW l \in Ours, Settles(l) PROVE GuardOK'
  BY <1>7 DEF Settles, latch
<1>8. CASE Rests \/ Rebuild \/ UNCHANGED vars
  BY <1>8 DEF Rests, Rebuild, vars, latch
<1> QED BY <1>1, <1>2, <1>3, <1>4, <1>5, <1>6, <1>7, <1>8 DEF Next, Cycle

\* Shedding keeps the lists among our loads.
LEMMA SwitchOffKeeps ==
  ASSUME ListsOK, NEW S, S \subseteq on \cap Ours,
         NEW listed, listed \subseteq shed, NEW marks, marks \subseteq listed,
         SwitchOff(S, listed, marks)
  PROVE  /\ on' \subseteq on /\ shed' \subseteq Ours /\ listed \cup S = shed'
         /\ ran' \subseteq shed' /\ was' \subseteq shed' /\ settling' \subseteq Ours /\ owed' \subseteq Ours
BY DEF SwitchOff, ListsOK

LEMMA ListsOKStep == ASSUME IType, [Next]_vars PROVE ListsOK'
<1> USE DEF IType
<1>1. CASE Guard
  BY <1>1 DEF Guard, ListsOK, lists, rows
<1>2. CASE Request
  <2>1. held' \subseteq held
    BY <1>2 DEF Request, Release
  <2>2. taken' \subseteq shed /\ UNCHANGED <<on, shed, rows, owed>>
    BY <1>2 DEF Request
  <2> QED BY <2>1, <2>2 DEF ListsOK, rows
<1>3. ASSUME NEW p \in Phases, Answer(p) PROVE ListsOK'
  <2>1. PICK S \in SUBSET (on \cap Ours) : SwitchOff(S, shed, ran) /\ taken' = taken \cup S
    BY <1>3, AnswerEffect DEF FaultsOK
  <2>2. PICK H \in SUBSET Theirs : held' = held \cup H
    BY <1>3, AnswerEffect DEF FaultsOK
  <2>3. ran \subseteq shed
    BY DEF ListsOK
  <2>4. /\ on' \subseteq on /\ shed' \subseteq Ours /\ shed \cup S = shed'
        /\ ran' \subseteq shed' /\ was' \subseteq shed' /\ settling' \subseteq Ours /\ owed' \subseteq Ours
    BY <2>1, <2>3, SwitchOffKeeps
  <2> QED BY <2>1, <2>2, <2>4 DEF ListsOK
<1>4. CASE Peak
  <2>1. /\ Shedding(Listed, Marks) \/ Restoring
        /\ taken' = taken \cap shed' /\ UNCHANGED held
    BY <1>4, PeakEffect DEF FaultsOK, StepOK, ListsOK, Ours
  <2>2. Listed \subseteq shed /\ Marks \subseteq Listed
    BY CleanUp DEF ListsOK
  <2>3. CASE Shedding(Listed, Marks)
    <3>1. PICK S \in SUBSET (on \cap Ours) : SwitchOff(S, Listed, Marks)
      BY <2>3 DEF Shedding
    <3>2. /\ on' \subseteq on /\ shed' \subseteq Ours
          /\ ran' \subseteq shed' /\ was' \subseteq shed' /\ settling' \subseteq Ours /\ owed' \subseteq Ours
      BY <3>1, <2>2, SwitchOffKeeps
    <3> QED BY <2>1, <3>2 DEF ListsOK
  <2>4. CASE Restoring
    <3>1. PICK l \in Restorable(Listed) : Restored(l, Listed, Marks)
      BY <2>4 DEF Restoring
    <3>2. l \in Ours /\ l \in Loads
      BY <2>2 DEF Restorable, ListsOK, Ours
    <3> QED BY <2>1, <2>2, <3>1, <3>2 DEF Restored, ListsOK
  <2> QED BY <2>1, <2>3, <2>4
<1>5. CASE Surplus
  <2>1. PICK run \in SUBSET Theirs : on' = (on \ Theirs) \cup run /\ UNCHANGED <<lists, rows, owed>>
    BY <1>5 DEF Surplus
  <2> QED BY <2>1, LoadAssumption DEF ListsOK, lists, rows
<1>6. ASSUME NEW l \in Loads, TurnsOn(l) \/ TurnsOff(l) PROVE ListsOK'
  BY <1>6 DEF TurnsOn, TurnsOff, ListsOK, lists, rows
<1>7. ASSUME NEW l \in Ours, Settles(l) PROVE ListsOK'
  BY <1>7 DEF Settles, ListsOK, lists
<1>8. CASE Rests \/ Rebuild \/ UNCHANGED vars
  BY <1>8 DEF Rests, Rebuild, vars, ListsOK, lists, rows
<1> QED BY <1>1, <1>2, <1>3, <1>4, <1>5, <1>6, <1>7, <1>8 DEF Next, Cycle

LEMMA StepOKStep == ASSUME IType, [Next]_vars PROVE StepOK'
<1> USE DEF StepOK, IType
<1>1. CASE Guard
  BY <1>1 DEF Guard
<1>2. CASE Request
  <2>1. todo' \subseteq Phases
    BY <1>2 DEF Request, Ask, GuardOK
  <2>2. step' \in {"answer", "peak"} /\ UNCHANGED <<normal, threw>>
    BY <1>2 DEF Request
  <2>3. resting' \in BOOLEAN
    BY <1>2 DEF Request, Release
  <2> QED BY <2>1, <2>2, <2>3
<1>3. ASSUME NEW p \in Phases, Answer(p) PROVE StepOK'
  BY <1>3, AnswerEffect DEF FaultsOK
<1>4. CASE Peak
  BY <1>4, PeakEffect DEF FaultsOK, ListsOK, Ours
<1>5. CASE Surplus
  BY <1>5 DEF Surplus
<1>6. ASSUME NEW l \in Loads, TurnsOn(l) \/ TurnsOff(l) PROVE StepOK'
  BY <1>6 DEF TurnsOn, TurnsOff
<1>7. ASSUME NEW l \in Ours, Settles(l) PROVE StepOK'
  BY <1>7 DEF Settles
<1>8. CASE Rests \/ Rebuild \/ UNCHANGED vars
  BY <1>8 DEF Rests, Rebuild, vars
<1> QED BY <1>1, <1>2, <1>3, <1>4, <1>5, <1>6, <1>7, <1>8 DEF Next, Cycle

LEMMA FaultsOKStep == ASSUME IType, [Next]_vars PROVE FaultsOK'
<1> USE DEF FaultsOK, IType
<1>1. ASSUME NEW p \in Phases, Answer(p) PROVE FaultsOK'
  BY <1>1, AnswerEffect
<1>2. CASE Peak
  BY <1>2, PeakEffect DEF StepOK, ListsOK, Ours
<1>3. CASE Guard \/ Request \/ Surplus
  BY <1>3 DEF Guard, Request, Surplus
<1>4. ASSUME NEW l \in Loads, TurnsOn(l) \/ TurnsOff(l) PROVE FaultsOK'
  BY <1>4 DEF TurnsOn, TurnsOff
<1>5. ASSUME NEW l \in Ours, Settles(l) PROVE FaultsOK'
  BY <1>5 DEF Settles
<1>6. CASE Rests \/ Rebuild \/ UNCHANGED vars
  BY <1>6 DEF Rests, Rebuild, vars
<1> QED BY <1>1, <1>2, <1>3, <1>4, <1>5, <1>6 DEF Next, Cycle

LEMMA InitTypes == Init => IType
<1> SUFFICES ASSUME Init PROVE IType
  OBVIOUS
<1>1. GuardOK /\ ListsOK
  BY DEF Init, LatchInit, GuardOK, ListsOK
<1>2. StepOK
  BY DEF Init, StepOK
<1>3. FaultsOK
  BY BoundAssumption DEF Init, FaultsOK
<1> QED BY <1>1, <1>2, <1>3 DEF IType

\* Every variable of the loads' two authorities keeps its type; what was taken stays a part of what
\* is shed.
THEOREM TypeCorrect == LoadSpec => []TypeOK
<1>1. Init => IType
  BY InitTypes
<1>2. IType /\ [Next]_vars => IType'
  <2> SUFFICES ASSUME IType, [Next]_vars PROVE IType'
    OBVIOUS
  <2> QED BY GuardOKStep, StepOKStep, ListsOKStep, FaultsOKStep DEF IType
<1> QED BY <1>1, <1>2, TypeParts, PTL DEF LoadSpec

-----------------------------------------------------------------------------
(* What is owed stays on the list.                                         *)

\* A load that is owed its power is off and has not run since it went off, so the clean-up passes it
\* over; and its row knows that it was on, so the restore switches it on.
Owing == owed \subseteq shed /\ owed \subseteq was /\ owed \cap on = {} /\ owed \cap ran = {}

\* The clean-up keeps what is owed, without a mark.
LEMMA OwedPassCleanUp ==
  ASSUME Owing PROVE owed \subseteq Listed /\ owed \cap Marks = {}
BY DEF Owing, Listed, Marks, Marked, Gone

LEMMA SwitchOffOwes ==
  ASSUME Owing, NEW S, S \subseteq on, NEW listed, listed \subseteq shed, NEW marks,
         owed \subseteq listed, owed \cap marks = {}, SwitchOff(S, listed, marks)
  PROVE  Owing'
BY DEF SwitchOff, Owing

LEMMA OwingStep == ASSUME IType, Owing, [Next]_vars PROVE Owing'
<1> USE DEF IType
<1>1. CASE Guard \/ Request
  BY <1>1 DEF Guard, Request, Owing, lists, rows
<1>2. ASSUME NEW p \in Phases, Answer(p) PROVE Owing'
  <2>1. PICK S \in SUBSET (on \cap Ours) : SwitchOff(S, shed, ran)
    BY <1>2, AnswerEffect DEF FaultsOK
  <2>2. owed \subseteq shed /\ owed \cap ran = {}
    BY DEF Owing
  <2> QED BY <2>1, <2>2, SwitchOffOwes
<1>3. CASE Peak
  <2>1. Shedding(Listed, Marks) \/ Restoring
    BY <1>3, PeakEffect DEF FaultsOK, StepOK, ListsOK, Ours
  <2>2. owed \subseteq Listed /\ owed \cap Marks = {} /\ Listed \subseteq shed
    BY OwedPassCleanUp, CleanUp
  <2>3. CASE Shedding(Listed, Marks)
    BY <2>2, <2>3, SwitchOffOwes DEF Shedding
  <2>4. CASE Restoring
    <3>1. PICK l \in Restorable(Listed) : Restored(l, Listed, Marks)
      BY <2>4 DEF Restoring
    <3> QED BY <2>2, <3>1 DEF Restored, Owing
  <2> QED BY <2>1, <2>3, <2>4
<1>4. CASE Surplus
  <2>1. PICK run \in SUBSET Theirs : on' = (on \ Theirs) \cup run /\ UNCHANGED <<lists, rows, owed>>
    BY <1>4 DEF Surplus
  <2> QED BY <2>1 DEF Owing, ListsOK, Ours, lists, rows
<1>5. ASSUME NEW l \in Loads, TurnsOn(l) \/ TurnsOff(l) PROVE Owing'
  BY <1>5 DEF TurnsOn, TurnsOff, Owing, lists, rows
<1>6. ASSUME NEW l \in Ours, Settles(l) PROVE Owing'
  BY <1>6 DEF Settles, Owing, lists
<1>7. CASE Rests \/ Rebuild \/ UNCHANGED vars
  BY <1>7 DEF Rests, Rebuild, vars, Owing, lists, rows
<1> QED BY <1>1, <1>2, <1>3, <1>4, <1>5, <1>6, <1>7 DEF Next, Cycle

\* No clean-up, no restore and no answer to a phase ever drops a load that is still owed its power and
\* whose row has not been rebuilt since, for any house.
THEOREM DebtIsKept == LoadSpec => []DebtKept
<1>1. Init => IType /\ Owing
  BY InitTypes DEF Init, Owing
<1>2. IType /\ Owing /\ [Next]_vars => IType' /\ Owing'
  <2> SUFFICES ASSUME IType, Owing, [Next]_vars PROVE IType' /\ Owing'
    OBVIOUS
  <2> QED BY GuardOKStep, StepOKStep, ListsOKStep, FaultsOKStep, OwingStep DEF IType
<1>3. Owing => DebtKept
  BY DEF Owing, DebtKept
<1> QED BY <1>1, <1>2, <1>3, PTL DEF LoadSpec

-----------------------------------------------------------------------------
(* What was taken stays down.                                              *)

Downed(l) == l \in taken \cup held \/ (l \in Theirs /\ Sits[l] \cap latched # {})
StaysDown == \A l \in Loads : /\ ~LoadsMayReturn /\ l \notin on /\ l \in on'
                              /\ Downed(l)
                              => step' = step

LEMMA StaysDownStep == ASSUME IType, [Next]_vars PROVE StaysDown
<1> SUFFICES ASSUME NEW l \in Loads, ~LoadsMayReturn, l \notin on, l \in on', Downed(l)
             PROVE  step' = step
  BY DEF StaysDown
<1> USE DEF IType
<1>1. CASE Guard \/ Request
  BY <1>1 DEF Guard, Request
<1>2. ASSUME NEW p \in Phases, Answer(p) PROVE FALSE
  BY <1>2, AnswerEffect DEF FaultsOK, SwitchOff
<1>3. CASE Peak
  <2>1. Shedding(Listed, Marks) \/ Restoring
    BY <1>3, PeakEffect DEF FaultsOK, StepOK, ListsOK, Ours
  <2>2. PICK k \in Restorable(Listed) : Restored(k, Listed, Marks)
    BY <2>1 DEF Shedding, SwitchOff, Restoring
  <2>3. k = l
    BY <2>2 DEF Restored
  <2>4. l \notin taken /\ l \in shed
    BY <2>2, <2>3, CleanUp DEF Restorable
  <2>5. l \notin Theirs /\ l \notin held
    BY <2>4 DEF ListsOK, Ours
  <2> QED BY <2>4, <2>5 DEF Downed
<1>4. CASE Surplus
  <2>1. PICK run \in SUBSET Theirs : (run \ on) \cap Holds = {} /\ on' = (on \ Theirs) \cup run
    BY <1>4 DEF Surplus
  <2>2. l \in Theirs /\ l \notin Holds
    BY <2>1
  <2> QED BY <2>2 DEF Holds, Downed, ListsOK, Ours
<1>5. ASSUME NEW k \in Loads, TurnsOn(k) \/ TurnsOff(k) PROVE step' = step
  BY <1>5 DEF TurnsOn, TurnsOff
<1>6. ASSUME NEW k \in Ours, Settles(k) PROVE step' = step
  BY <1>6 DEF Settles
<1>7. CASE Rests \/ Rebuild \/ UNCHANGED vars
  BY <1>7 DEF Rests, Rebuild, vars
<1> QED BY <1>1, <1>2, <1>3, <1>4, <1>5, <1>6, <1>7 DEF Next, Cycle

\* For every guard that keeps PhaseLatch's promise: while its latch stands, only a user starts a load
\* that was taken for a phase, or one of the surplus controller's known to draw on a latched phase.
THEOREM TakenLoadsStayDown == LoadSpec => TakenStaysDown
<1>1. LoadSpec => []IType
  BY TypeCorrect, TypeParts, PTL
<1>2. IType /\ [Next]_vars => [StaysDown]_vars
  BY StaysDownStep
<1>3. StaysDown <=> \A l \in Loads :
                      /\ ~LoadsMayReturn /\ l \notin on /\ l \in on'
                      /\ l \in taken \cup held \/ (l \in Theirs /\ Sits[l] \cap latched # {})
                      => step' = step
  BY DEF StaysDown, Downed
<1> QED BY <1>1, <1>2, <1>3, PTL DEF LoadSpec, TakenStaysDown

-----------------------------------------------------------------------------
(* The slot budget of the peak guard.                                      *)

\* How far into its slot the clock is, and how much of the slot is left.
Into(at) == at - SlotOf(at)
Rest(at) == SlotOf(at) + SlotLen - at

\* No more than the largest draw has been imported, and no more beats are in doubt than have passed.
Metered == drawn <= Most * Into(now) /\ doubt <= Into(now)

\* The tracker is of this slot and up to date, and off by no more than the beats in doubt.
Tracked ==
  /\ tracker = None => ~known
  /\ tracker # None =>
       /\ tracker.lastT = now /\ tracker.slotStart = SlotOf(now)
       /\ tracker.imported <= Most * Into(now)
       /\ tracker.imported <= drawn + Most * doubt /\ drawn <= tracker.imported + Most * doubt
       /\ known => tracker.lastW = load
       /\ tracker.watched => looked

\* A saved tracker of this slot is off by those, and by the beats since it was saved.
Stored ==
  saved # None =>
    /\ saved.lastT <= now /\ saved.slotStart = SlotOf(saved.lastT)
    /\ saved.imported <= Most * Into(saved.lastT)
    /\ saved.slotStart = SlotOf(now) =>
         /\ saved.imported <= drawn + Most * doubt
         /\ drawn <= saved.imported + Most * (doubt + (now - saved.lastT))
         /\ saved.watched /\ now - saved.lastT <= MaxStep => looked

\* A house that has obeyed may go on as it draws to the end of the slot.
Landing == obedient => drawn + load * Rest(now) <= Budget + Most * doubt

SlotInv == SlotTypeOK /\ Metered /\ Tracked /\ Stored /\ Landing

\* Products.

LEMMA Product == ASSUME NEW a \in Nat, NEW b \in Nat PROVE a * b \in Nat
OBVIOUS

LEMMA ProductOrder == ASSUME NEW a \in Nat, NEW b \in Nat, NEW c \in Nat, NEW d \in Nat, a <= b, c <= d
                      PROVE  a * c <= b * d
<1>1. a * c <= b * c
  OBVIOUS
<1>2. b * c <= b * d
  OBVIOUS
<1> QED
  BY <1>1, <1>2, Product

LEMMA ScaleOrder == ASSUME NEW a \in Nat, NEW c \in Nat, NEW d \in Nat, c <= d PROVE a * c <= a * d
OBVIOUS

\* Times and slots.

LEMMA Division ==
  ASSUME NEW at \in Nat
  PROVE  /\ at % SlotLen \in 0 .. SlotLen - 1 /\ at \div SlotLen \in Nat
         /\ at = SlotLen * (at \div SlotLen) + (at % SlotLen)
<1>1. SlotLen \in Nat \ {0}
  BY LengthAssumption
<1>2. at % SlotLen \in 0 .. SlotLen - 1
  BY <1>1
<1>3. at \div SlotLen \in Nat
  BY <1>1
<1>4. at = SlotLen * (at \div SlotLen) + (at % SlotLen)
  BY <1>1
<1> QED
  BY <1>2, <1>3, <1>4

LEMMA SlotOfFacts ==
  ASSUME NEW at \in Nat
  PROVE  /\ SlotOf(at) \in Nat /\ SlotOf(at) <= at /\ at < SlotOf(at) + SlotLen
         /\ Into(at) \in Nat /\ Into(at) < SlotLen /\ Rest(at) \in Nat \ {0} /\ Into(at) + Rest(at) = SlotLen
<1>1. at % SlotLen \in 0 .. SlotLen - 1 /\ at \div SlotLen \in Nat
      /\ at = SlotLen * (at \div SlotLen) + (at % SlotLen)
  BY Division
<1>2. SlotOf(at) = SlotLen * (at \div SlotLen) /\ SlotOf(at) \in Nat
  BY <1>1, LengthAssumption, Product DEF SlotOf
<1> QED
  BY <1>1, <1>2, LengthAssumption DEF Into, Rest, SlotOf

LEMMA SlotOrder ==
  ASSUME NEW a \in Nat, NEW b \in Nat, a <= b
  PROVE  /\ SlotOf(a) <= SlotOf(b)
         /\ SlotOf(a) # SlotOf(b) => SlotOf(a) + SlotLen <= SlotOf(b)
<1> DEFINE k == a \div SlotLen
           m == b \div SlotLen
<1>1. /\ k \in Nat /\ m \in Nat /\ SlotLen \in Nat \ {0}
      /\ a = SlotLen * k + (a % SlotLen) /\ a % SlotLen \in 0 .. SlotLen - 1
      /\ b = SlotLen * m + (b % SlotLen) /\ b % SlotLen \in 0 .. SlotLen - 1
  BY Division, LengthAssumption
<1>2. SlotOf(a) = SlotLen * k /\ SlotOf(b) = SlotLen * m
  BY <1>1 DEF SlotOf
<1> HIDE DEF k, m
<1>3. CASE k = m
  BY <1>1, <1>2, <1>3, Product
<1>4. CASE k < m
  <2>1. SlotLen * (k + 1) <= SlotLen * m /\ SlotLen * (k + 1) = SlotLen * k + SlotLen
    BY <1>1, <1>4, ProductOrder
  <2>2. SlotLen * k \in Nat /\ SlotLen * m \in Nat /\ SlotLen \in Nat
    BY <1>1, Product
  <2> QED
    BY <1>2, <2>1, <2>2
<1>5. CASE m < k
  <2>1. SlotLen * (m + 1) <= SlotLen * k /\ SlotLen * (m + 1) = SlotLen * m + SlotLen
    BY <1>1, <1>5, ProductOrder
  <2> QED
    BY <1>1, <2>1, Product
<1> QED
  BY <1>1, <1>3, <1>4, <1>5

LEMMA DrawFacts ==
  /\ Most \in Nat /\ \A w \in Draws \cup {0} : w \in Nat /\ w <= Most
  /\ Budget \in Nat /\ Target \in Nat /\ MaxStep \in Nat \ {0} /\ MaxStep <= SlotLen /\ SlotLen \in Nat
<1>1. CapFactor \in Nat \ {0} /\ MaxStep \in Nat /\ SlotLen \in Nat /\ CapFactor * MaxStep <= SlotLen
  BY LengthAssumption
<1>2. 1 * MaxStep <= CapFactor * MaxStep
  BY <1>1, ProductOrder
<1>3. MaxStep <= SlotLen
  BY <1>1, <1>2, Product
<1> QED
  BY <1>3, LengthAssumption, DrawAssumption, Product DEF Budget

\* What a cycle updates: the tracker, the one that was saved in this slot, or a new one.
Base(at) == IF tracker = None THEN FromState(at) ELSE tracker

CycleTo(at, w, dark) ==
  /\ now' = at /\ load' = w /\ known' = (~dark \/ (known /\ w = load))
  /\ tracker' = Sampled(Integrated(Base(at), at), at, w, dark)
  /\ closed' = Closed(Base(at), at) /\ Remember(at) /\ UNCHANGED <<saved, crashes>>

LEMMA TrackerTypes ==
  ASSUME NEW t \in Trackers
  PROVE  /\ t.slotStart \in Nat /\ t.lastT \in Nat /\ t.imported \in Nat
         /\ t.lastW \in Draws \cup {0} /\ t.lastW \in Nat /\ t.lastW <= Most
         /\ t.blind \in BOOLEAN /\ t.watched \in BOOLEAN
BY DrawFacts DEF Trackers

LEMMA FreshTypes ==
  ASSUME NEW at \in Nat
  PROVE  /\ Fresh(at) \in Trackers /\ Fresh(at).slotStart = SlotOf(at) /\ Fresh(at).lastT = at
         /\ Fresh(at).lastW = 0 /\ Fresh(at).imported = 0 /\ Fresh(at).watched = (at = SlotOf(at))
BY SlotOfFacts DEF Fresh, Trackers

LEMMA StepTypes ==
  ASSUME NEW t \in Trackers, NEW at \in Nat, t.lastT <= at
  PROVE  /\ Step(t, at) \in Nat /\ Step(t, at) <= at - t.lastT
         /\ Seen(t, at) => Step(t, at) = at - t.lastT
         /\ Inside(t, at) \in Nat /\ Inside(t, at) <= Into(at) /\ Inside(t, at) <= Step(t, at)
         /\ Into(at) <= Step(t, at) => Inside(t, at) = Into(at)
<1>1. t.lastT \in Nat /\ MaxStep \in Nat /\ Into(at) \in Nat /\ Into(at) = at - SlotOf(at)
  BY TrackerTypes, DrawFacts, SlotOfFacts DEF Into
<1> QED
  BY <1>1 DEF Step, Seen, Inside, Least

\* An update: the beats since the last sample go to the slot they belong to.
LEMMA Updated ==
  ASSUME NEW t \in Trackers, NEW at \in Nat, t.lastT <= at, NEW w \in Draws, NEW dark \in BOOLEAN,
         NEW u, u = Sampled(Integrated(t, at), at, w, dark)
  PROVE  /\ u \in Trackers /\ u.lastT = at /\ u.slotStart = SlotOf(at)
         /\ u.lastW = IF dark THEN t.lastW ELSE w
         /\ SlotOf(at) = t.slotStart =>
              /\ u.imported = t.imported + t.lastW * Step(t, at)
              /\ u.watched => t.watched /\ at - t.lastT <= MaxStep
         /\ SlotOf(at) # t.slotStart =>
              /\ u.imported = t.lastW * Inside(t, at)
              /\ u.watched => at - t.lastT <= MaxStep
<1>1. /\ t.lastW * Step(t, at) \in Nat /\ t.lastW * Inside(t, at) \in Nat
      /\ Seen(t, at) \in BOOLEAN /\ SlotOf(at) \in Nat
  <2>1. t.lastW \in Nat /\ Step(t, at) \in Nat /\ Inside(t, at) \in Nat
    BY TrackerTypes, StepTypes
  <2>2. Seen(t, at) \in BOOLEAN
    BY DEF Seen
  <2> QED
    BY <2>1, <2>2, Product, SlotOfFacts
<1> DEFINE v == Integrated(t, at)
<1>2. /\ v \in Trackers /\ v.slotStart = SlotOf(at) /\ v.lastW = t.lastW
      /\ SlotOf(at) = t.slotStart =>
           v.imported = t.imported + t.lastW * Step(t, at) /\ v.watched = (t.watched /\ Seen(t, at))
      /\ SlotOf(at) # t.slotStart => v.imported = t.lastW * Inside(t, at) /\ v.watched = Seen(t, at)
  <2>1. CASE SlotOf(at) = t.slotStart
    <3>1. v = [t EXCEPT !.imported = @ + t.lastW * Step(t, at), !.watched = @ /\ Seen(t, at)]
      BY <2>1 DEF Integrated
    <3>2. t.imported + t.lastW * Step(t, at) \in Nat /\ (t.watched /\ Seen(t, at)) \in BOOLEAN
      BY <1>1, TrackerTypes
    <3> QED
      BY <2>1, <3>1, <3>2 DEF Trackers
  <2>2. CASE SlotOf(at) # t.slotStart
    <3>1. v = [t EXCEPT !.imported = t.lastW * Inside(t, at), !.slotStart = SlotOf(at), !.watched = Seen(t, at)]
      BY <2>2 DEF Integrated
    <3> QED
      BY <1>1, <2>2, <3>1 DEF Trackers
  <2> QED
    BY <2>1, <2>2
<1> HIDE DEF v
<1>3. u = [v EXCEPT !.lastT = at, !.blind = dark, !.lastW = IF dark THEN @ ELSE w]
  BY DEF Sampled, v
<1>4. /\ u \in Trackers /\ u.lastT = at /\ u.slotStart = v.slotStart /\ u.imported = v.imported
      /\ u.watched = v.watched /\ u.lastW = IF dark THEN v.lastW ELSE w
  BY <1>2, <1>3 DEF Trackers
<1> QED
  BY <1>2, <1>4 DEF Seen

LEMMA BaseFacts ==
  ASSUME SlotInv, NEW at \in Nat, now < at
  PROVE  /\ Base(at) \in Trackers /\ Base(at).lastT <= at
         /\ tracker # None => Base(at) = tracker
         /\ tracker = None =>
              \/ Base(at) = saved /\ saved # None /\ saved.slotStart = SlotOf(at) /\ SlotOf(at) = SlotOf(now)
              \/ Base(at) = Fresh(at) /\ ~(saved # None /\ saved.slotStart = SlotOf(at))
<1>1. now \in Nat /\ (tracker # None => tracker \in Trackers) /\ (saved # None => saved \in Trackers)
  BY DEF SlotInv, SlotTypeOK
<1>2. CASE tracker # None
  BY <1>1, <1>2 DEF Base, SlotInv, Tracked
<1>3. CASE tracker = None /\ saved # None /\ saved.slotStart = SlotOf(at)
  <2>1. saved.lastT \in Nat /\ saved.lastT <= now /\ saved.slotStart = SlotOf(saved.lastT)
    BY <1>1, <1>3, TrackerTypes DEF SlotInv, Stored
  <2>2. SlotOf(saved.lastT) <= SlotOf(now) /\ SlotOf(now) <= SlotOf(at)
    BY <1>1, <2>1, SlotOrder
  <2>3. Base(at) = saved
    BY <1>3 DEF Base, FromState
  <2>4. SlotOf(at) = SlotOf(now)
    <3>1. SlotOf(now) \in Nat /\ SlotOf(at) \in Nat
      BY <1>1, SlotOfFacts
    <3> QED
      BY <1>3, <2>1, <2>2, <3>1
  <2>5. Base(at) \in Trackers /\ Base(at).lastT <= at
    BY <1>1, <1>3, <2>1, <2>3
  <2> QED
    BY <1>3, <2>3, <2>4, <2>5
<1>4. CASE tracker = None /\ ~(saved # None /\ saved.slotStart = SlotOf(at))
  BY <1>4, FreshTypes DEF Base, FromState
<1> QED
  BY <1>2, <1>3, <1>4

\* A cycle in the slot of the last one: drawn and doubt go on, the books stay within what is in doubt.
LEMMA SameSlotBooks ==
  ASSUME SlotInv, NEW at \in Nat, now < at, SlotOf(at) = SlotOf(now), NEW w \in Draws, NEW dark \in BOOLEAN,
         CycleTo(at, w, dark)
  PROVE  /\ drawn' = drawn + load * (at - now) /\ drawn' \in Nat /\ doubt' \in Nat
         /\ doubt <= doubt' /\ doubt' <= Into(at) /\ drawn' <= Most * Into(at)
         /\ looked' = (looked /\ at - now <= MaxStep)
         /\ obedient' = (obedient /\ Allows(tracker', load'))
         /\ tracker'.imported <= Most * Into(at)
         /\ tracker'.imported <= drawn' + Most * doubt' /\ drawn' <= tracker'.imported + Most * doubt'
         /\ tracker'.watched => looked'
<1> DEFINE t == Base(at)
<1>1. /\ now \in Nat /\ drawn \in Nat /\ doubt \in Nat /\ load \in Nat /\ load <= Most /\ Most \in Nat
      /\ drawn <= Most * Into(now) /\ doubt <= Into(now)
  BY DrawFacts DEF SlotInv, SlotTypeOK, Metered
<1>2. /\ SlotOf(at) \in Nat /\ SlotOf(at) <= now /\ Into(at) \in Nat /\ Into(now) \in Nat
      /\ Into(at) = at - SlotOf(at) /\ Into(now) = now - SlotOf(at) /\ After(at) = Into(at)
  BY <1>1, SlotOfFacts DEF Into, After
<1>3. /\ t \in Trackers /\ t.lastT <= at /\ t.lastT \in Nat /\ t.lastW \in Nat /\ t.lastW <= Most
      /\ t.imported \in Nat /\ Step(t, at) \in Nat /\ Step(t, at) <= at - t.lastT
      /\ t.slotStart = SlotOf(at)
  <2>1. t \in Trackers /\ t.lastT <= at
    BY BaseFacts
  <2>2. t.slotStart = SlotOf(at)
    BY BaseFacts, FreshTypes DEF SlotInv, Tracked
  <2> HIDE DEF t
  <2> QED
    BY <2>1, <2>2, TrackerTypes, StepTypes
<1>4. /\ tracker'.imported = t.imported + t.lastW * Step(t, at) /\ tracker'.imported \in Nat
      /\ tracker'.watched => t.watched /\ at - t.lastT <= MaxStep
  <2>1. /\ tracker'.imported = t.imported + t.lastW * Step(t, at) /\ tracker' \in Trackers
        /\ tracker'.watched => t.watched /\ at - t.lastT <= MaxStep
    BY <1>3, Updated DEF CycleTo
  <2> QED
    BY <2>1, TrackerTypes
<1>5. /\ drawn' = drawn + load * (at - now) /\ doubt' = Least(doubt + Unknown(at), Into(at))
      /\ looked' = (looked /\ at - now <= MaxStep)
      /\ obedient' = (obedient /\ Allows(tracker', load'))
  BY <1>2 DEF CycleTo, Remember, Crosses, DrawnIn, LookedIn, Before
<1>6. load * (at - now) \in Nat /\ drawn' \in Nat /\ drawn' <= Most * Into(at)
  <2>1. load * (at - now) \in Nat /\ load * (at - now) <= Most * (at - now)
    BY <1>1, Product, ProductOrder
  <2>2. Most * Into(at) = Most * Into(now) + Most * (at - now) /\ Most * Into(now) \in Nat
    BY <1>1, <1>2, Product
  <2> QED
    BY <1>1, <1>5, <2>1, <2>2
<1>7. CASE t = Fresh(at) /\ tracker = None /\ Unknown(at) = Into(at)
  <2>1. t.imported = 0 /\ t.lastW = 0
    BY <1>7, FreshTypes
  <2>2. tracker'.imported = 0
    BY <1>3, <1>4, <2>1
  <2>3. doubt' = Into(at)
    BY <1>1, <1>2, <1>5, <1>7 DEF Least
  <2>4. ~tracker'.watched
    <3>1. at # SlotOf(at)
      BY <1>1, <1>2
    <3>2. ~t.watched
      BY <1>7, <3>1, FreshTypes
    <3> QED
      BY <1>4, <3>2
  <2> QED
    BY <1>1, <1>2, <1>5, <1>6, <2>2, <2>3, <2>4, Product
<1>8. CASE /\ t.lastT <= now /\ t.imported <= Most * Into(t.lastT) /\ SlotOf(t.lastT) = SlotOf(at)
           /\ t.imported <= drawn + Most * doubt /\ drawn <= t.imported + Most * (doubt + (now - t.lastT))
           /\ t.watched /\ now - t.lastT <= MaxStep => looked
           /\ \/ Unknown(at) = at - t.lastT
              \/ Unknown(at) = 0 /\ t.lastT = now /\ t.lastW = load /\ Step(t, at) = at - now
  <2>1. tracker'.imported <= Most * Into(at)
    <3>1. Into(t.lastT) = t.lastT - SlotOf(at) /\ Into(t.lastT) \in Nat
      <4>1. \A n \in Nat : Into(n) \in Nat
        BY SlotOfFacts
      <4> HIDE DEF t
      <4> QED
        BY <1>3, <1>8, <4>1 DEF Into
    <3>2. Most * Into(at) = Most * Into(t.lastT) + Most * (at - t.lastT)
      BY <1>1, <1>2, <1>3, <3>1
    <3>3. t.lastW * Step(t, at) <= Most * (at - t.lastT)
      BY <1>1, <1>3, ProductOrder
    <3>4. Most * Into(t.lastT) \in Nat /\ Most * (at - t.lastT) \in Nat /\ t.lastW * Step(t, at) \in Nat
      BY <1>1, <1>3, <3>1, Product
    <3> QED
      BY <1>3, <1>4, <1>8, <3>2, <3>3, <3>4
  <2>2. doubt <= doubt' /\ doubt' <= Into(at) /\ doubt' \in Nat
    BY <1>1, <1>2, <1>3, <1>5, <1>8 DEF Least
  <2>3. tracker'.watched => looked'
    <3> SUFFICES ASSUME tracker'.watched PROVE looked'
      OBVIOUS
    <3>1. t.watched /\ at - t.lastT <= MaxStep /\ MaxStep \in Nat
      BY <1>4, DrawFacts
    <3>2. now - t.lastT <= MaxStep /\ at - now <= MaxStep
      BY <1>1, <1>3, <1>8, <3>1
    <3> QED
      BY <1>5, <1>8, <3>1, <3>2
  <2>4. tracker'.imported <= drawn' + Most * doubt' /\ drawn' <= tracker'.imported + Most * doubt'
    <3>1. CASE doubt' = Into(at)
      BY <1>4, <1>6, <1>1, <2>1, <2>2, <3>1, Product
    <3>2. CASE Unknown(at) = at - t.lastT /\ doubt' = doubt + (at - t.lastT)
      <4>1. /\ t.imported + t.lastW * Step(t, at)
                 <= drawn + load * (at - now) + Most * (doubt + (at - t.lastT))
            /\ drawn + load * (at - now)
                 <= t.imported + t.lastW * Step(t, at) + Most * (doubt + (at - t.lastT))
        <5> HIDE DEF t
        <5>1. t.lastW * Step(t, at) <= Most * (at - t.lastT) /\ t.lastW * Step(t, at) \in Nat
          BY <1>1, <1>3, ProductOrder, Product
        <5>2. load * (at - now) <= Most * (at - now)
          BY <1>1, ProductOrder
        <5>3. Most * (at - t.lastT) = Most * (at - now) + Most * (now - t.lastT)
          BY <1>1, <1>3
        <5>4. /\ Most * (doubt + (at - t.lastT)) = Most * doubt + Most * (at - t.lastT)
              /\ Most * (doubt + (now - t.lastT)) = Most * doubt + Most * (now - t.lastT)
          BY <1>1, <1>3
        <5>5. /\ Most * doubt \in Nat /\ Most * (at - now) \in Nat
              /\ Most * (now - t.lastT) \in Nat /\ Most * (at - t.lastT) \in Nat
          BY <1>1, <1>3, <1>8, Product
        <5> QED
          BY <1>1, <1>3, <1>6, <1>8, <5>1, <5>2, <5>3, <5>4, <5>5
      <4> QED
        BY <1>4, <1>5, <3>2, <4>1
    <3>3. CASE Unknown(at) = 0 /\ t.lastT = now /\ t.lastW = load /\ Step(t, at) = at - now
      <4>1. doubt' = doubt
        BY <1>1, <1>2, <1>5, <3>3 DEF Least
      <4>2. Most * (doubt + (now - t.lastT)) = Most * doubt /\ Most * doubt \in Nat
        BY <1>1, <3>3, Product
      <4> QED
        BY <1>1, <1>3, <1>4, <1>5, <1>6, <1>8, <3>3, <4>1, <4>2
    <3>4. doubt' \in {Into(at), doubt + Unknown(at)}
      BY <1>5 DEF Least
    <3> QED
      BY <1>8, <3>1, <3>2, <3>3, <3>4
  <2> QED
    BY <1>5, <1>6, <2>1, <2>2, <2>3, <2>4
<1>9. CASE tracker # None
  <2>1. t = tracker /\ t.lastT = now
    BY <1>9, BaseFacts DEF SlotInv, Tracked
  <2>2. \/ Unknown(at) = at - t.lastT
        \/ Unknown(at) = 0 /\ t.lastW = load /\ at - now <= MaxStep
    <3>1. Unknown(at) = IF ~known \/ at - now > MaxStep THEN at - now ELSE 0
      BY <1>9 DEF Unknown
    <3>2. at - now > MaxStep \/ at - now <= MaxStep
      BY <1>1, DrawFacts
    <3>3. known => t.lastW = load
      BY <1>9, <2>1 DEF SlotInv, Tracked
    <3> QED
      BY <2>1, <3>1, <3>2, <3>3
  <2>3. at - now <= MaxStep => Step(t, at) = at - now
    BY <1>1, <1>3, <2>1, DrawFacts DEF Step, Least
  <2>4. /\ t.imported <= Most * Into(t.lastT) /\ SlotOf(t.lastT) = SlotOf(at)
        /\ t.imported <= drawn + Most * doubt /\ drawn <= t.imported + Most * doubt
        /\ t.watched => looked
    BY <1>9, <2>1 DEF SlotInv, Tracked
  <2>5. Most * (doubt + (now - t.lastT)) = Most * doubt
    BY <1>1, <2>1
  <2> HIDE DEF t
  <2> QED
    BY <1>1, <1>8, <2>1, <2>2, <2>3, <2>4, <2>5
<1>10. CASE tracker = None /\ t = saved /\ saved # None /\ saved.slotStart = SlotOf(at)
  <2>1. Unknown(at) = at - t.lastT
    BY <1>10 DEF Unknown
  <2>2. /\ t.lastT <= now /\ t.imported <= Most * Into(t.lastT) /\ SlotOf(t.lastT) = SlotOf(at)
        /\ t.imported <= drawn + Most * doubt /\ drawn <= t.imported + Most * (doubt + (now - t.lastT))
        /\ t.watched /\ now - t.lastT <= MaxStep => looked
    BY <1>10 DEF SlotInv, Stored
  <2> HIDE DEF t
  <2> QED
    BY <1>8, <2>1, <2>2
<1>11. CASE tracker = None /\ t = Fresh(at) /\ ~(saved # None /\ saved.slotStart = SlotOf(at))
  <2>1. Unknown(at) = Into(at)
    BY <1>2, <1>11 DEF Unknown
  <2> QED
    BY <1>7, <1>11, <2>1
<1> QED
  BY <1>9, <1>10, <1>11, BaseFacts

\* A cycle in a later slot: the books start anew, with the beats since the boundary.
LEMMA NewSlotBooks ==
  ASSUME SlotInv, NEW at \in Nat, now < at, SlotOf(at) # SlotOf(now), NEW w \in Draws, NEW dark \in BOOLEAN,
         CycleTo(at, w, dark)
  PROVE  /\ drawn' = load * Into(at) /\ drawn' \in Nat /\ doubt' \in Nat
         /\ doubt' <= Into(at) /\ drawn' <= Most * Into(at)
         /\ doubt' = Into(at) \/ (at - now <= MaxStep /\ Into(at) <= MaxStep)
         /\ obedient' = (load <= CapFactor * Target /\ Allows(tracker', load'))
         /\ tracker'.imported <= Most * Into(at)
         /\ tracker'.imported <= drawn' + Most * doubt' /\ drawn' <= tracker'.imported + Most * doubt'
         /\ tracker'.watched => looked'
<1> DEFINE t == Base(at)
<1>1. /\ now \in Nat /\ load \in Nat /\ load <= Most /\ Most \in Nat /\ MaxStep \in Nat
  BY DrawFacts DEF SlotInv, SlotTypeOK
<1>2. /\ SlotOf(at) \in Nat /\ SlotOf(now) \in Nat /\ now < SlotOf(at) /\ SlotOf(at) <= at
      /\ Into(at) \in Nat /\ Into(at) = at - SlotOf(at) /\ After(at) = Into(at) /\ Into(at) < at - now
  <2>1. SlotOf(now) + SlotLen <= SlotOf(at)
    BY <1>1, SlotOrder
  <2>2. SlotOf(now) \in Nat /\ now < SlotOf(now) + SlotLen /\ SlotLen \in Nat
    BY <1>1, SlotOfFacts, DrawFacts
  <2>3. SlotOf(at) \in Nat /\ SlotOf(at) <= at
    BY SlotOfFacts
  <2>4. Into(at) = at - SlotOf(at) /\ After(at) = Into(at)
    BY DEF Into, After
  <2> HIDE DEF t
  <2> QED
    BY <1>1, <2>1, <2>2, <2>3, <2>4
<1>3. /\ t \in Trackers /\ t.lastT <= at /\ t.lastT \in Nat /\ t.lastW \in Nat /\ t.lastW <= Most
      /\ t.imported \in Nat /\ Step(t, at) \in Nat
      /\ Inside(t, at) \in Nat /\ Inside(t, at) <= Into(at)
      /\ Into(at) <= Step(t, at) => Inside(t, at) = Into(at)
  <2>1. t \in Trackers /\ t.lastT <= at
    BY BaseFacts
  <2> HIDE DEF t
  <2> QED
    BY <2>1, TrackerTypes, StepTypes
<1>4. /\ tracker' \in Trackers /\ tracker'.imported \in Nat
      /\ SlotOf(at) = t.slotStart =>
           /\ tracker'.imported = t.imported + t.lastW * Step(t, at)
           /\ tracker'.watched => t.watched
      /\ SlotOf(at) # t.slotStart =>
           /\ tracker'.imported = t.lastW * Inside(t, at)
           /\ tracker'.watched => at - t.lastT <= MaxStep
  <2>1. /\ tracker' = Sampled(Integrated(t, at), at, w, dark)
    BY DEF CycleTo
  <2> HIDE DEF t
  <2>2. /\ tracker' \in Trackers
        /\ SlotOf(at) = t.slotStart =>
             /\ tracker'.imported = t.imported + t.lastW * Step(t, at)
             /\ tracker'.watched => t.watched
        /\ SlotOf(at) # t.slotStart =>
             /\ tracker'.imported = t.lastW * Inside(t, at)
             /\ tracker'.watched => at - t.lastT <= MaxStep
    BY <1>3, <2>1, Updated
  <2> QED
    BY <2>2, TrackerTypes
<1>5. /\ drawn' = load * Into(at) /\ doubt' = Least(Unknown(at), Into(at))
      /\ looked' = (at - now <= MaxStep \/ Into(at) = 0)
      /\ obedient' = (load <= CapFactor * Target /\ Allows(tracker', load'))
  BY <1>2 DEF CycleTo, Remember, Crosses
<1>6. load * Into(at) \in Nat /\ load * Into(at) <= Most * Into(at) /\ Most * Into(at) \in Nat
  BY <1>1, <1>2, Product, ProductOrder
<1>7. CASE doubt' = Into(at) /\ tracker'.imported <= Most * Into(at) /\ (tracker'.watched => looked')
  BY <1>2, <1>4, <1>5, <1>6, <1>7
<1>8. CASE tracker = None
  <2>1. t = Fresh(at) /\ ~(saved # None /\ saved.slotStart = SlotOf(at))
    BY <1>8, BaseFacts
  <2>2. t.slotStart = SlotOf(at) /\ t.imported = 0 /\ t.lastW = 0 /\ (t.watched => at = SlotOf(at))
    BY <2>1, FreshTypes
  <2>3. tracker'.imported = 0
    <3> HIDE DEF t
    <3>1. t.lastW * Step(t, at) = 0
      BY <1>3, <2>2
    <3> QED
      BY <1>4, <2>2, <3>1
  <2>4. tracker'.watched => looked'
    <3> HIDE DEF t
    <3>1. tracker'.watched => at = SlotOf(at)
      BY <1>4, <2>2
    <3>2. at = SlotOf(at) => Into(at) = 0
      BY <1>2
    <3>3. Into(at) = 0 => looked' = TRUE
      BY <1>5, Zenon
    <3> QED
      BY <3>1, <3>2, <3>3
  <2>5. doubt' = Into(at)
    BY <1>2, <1>5, <1>8, <2>1 DEF Unknown, Least
  <2>6. tracker'.imported <= Most * Into(at)
    BY <1>6, <2>3
  <2> QED
    BY <1>7, <2>4, <2>5, <2>6
<1>9. CASE tracker # None
  <2>1. t = tracker /\ t.lastT = now /\ t.slotStart = SlotOf(now)
    BY <1>9, BaseFacts DEF SlotInv, Tracked
  <2>2. tracker'.imported = t.lastW * Inside(t, at) /\ (tracker'.watched => at - now <= MaxStep)
    <3> HIDE DEF t
    <3> QED
      BY <1>4, <2>1
  <2>3. t.lastW * Inside(t, at) <= Most * Into(at)
    <3> HIDE DEF t
    <3> QED
      BY <1>1, <1>2, <1>3, ProductOrder
  <2>4. CASE ~known \/ at - now > MaxStep
    <3>1. Unknown(at) = at - now
      BY <1>9, <2>4 DEF Unknown
    <3>2. doubt' = Into(at)
      BY <1>1, <1>2, <1>5, <3>1 DEF Least
    <3> QED
      BY <1>5, <1>7, <2>2, <2>3, <3>2
  <2>5. CASE known /\ at - now <= MaxStep
    <3>1. Unknown(at) = 0
      BY <1>1, <1>9, <2>5 DEF Unknown
    <3>2. doubt' = 0
      BY <1>2, <1>5, <3>1 DEF Least
    <3>3. Step(t, at) = at - now
      <4> HIDE DEF t
      <4> QED
        BY <1>1, <2>1, <2>5 DEF Step, Least
    <3>4. Inside(t, at) = Into(at)
      <4> HIDE DEF t
      <4> QED
        BY <1>1, <1>2, <1>3, <3>3
    <3>5. t.lastW = load
      BY <1>9, <2>1, <2>5 DEF SlotInv, Tracked
    <3>6. tracker'.imported = drawn'
      BY <1>5, <2>2, <3>4, <3>5
    <3>7. Most * doubt' = 0
      BY <1>1, <3>2
    <3>8. tracker'.watched => looked'
      BY <1>5, <2>2
    <3>9. Into(at) <= MaxStep
      BY <1>1, <1>2, <2>5
    <3> HIDE DEF t
    <3> QED
      BY <1>2, <1>4, <1>5, <1>6, <2>5, <3>2, <3>6, <3>7, <3>8, <3>9
  <2> QED
    BY <1>1, <2>4, <2>5
<1> QED
  BY <1>8, <1>9

\* What a cycle leaves of the tracker, whichever slot it is in.
LEMMA CycleTracker ==
  ASSUME SlotInv, NEW at \in Nat, now < at, NEW w \in Draws, NEW dark \in BOOLEAN, CycleTo(at, w, dark)
  PROVE  /\ tracker' \in Trackers /\ tracker' # None /\ tracker'.lastT = at /\ tracker'.slotStart = SlotOf(at)
         /\ known' => tracker'.lastW = load'
         /\ closed' \in [slot : Nat, energy : Nat] \cup {None}
<1> DEFINE t == Base(at)
<1>1. t \in Trackers /\ t.lastT <= at /\ (tracker # None => t = tracker)
  BY BaseFacts
<1>2. known => tracker # None /\ tracker.lastW = load
  BY DEF SlotInv, Tracked
<1>3. /\ tracker' = Sampled(Integrated(t, at), at, w, dark) /\ closed' = Closed(t, at)
      /\ load' = w /\ known' = (~dark \/ (known /\ w = load))
  BY DEF CycleTo
<1> HIDE DEF t
<1>4. /\ tracker' \in Trackers /\ tracker'.lastT = at /\ tracker'.slotStart = SlotOf(at)
      /\ tracker'.lastW = IF dark THEN t.lastW ELSE w
  BY <1>1, <1>3, Updated
<1>5. known' => tracker'.lastW = load'
  BY <1>1, <1>2, <1>3, <1>4
<1>6. closed' \in [slot : Nat, energy : Nat] \cup {None}
  <2>1. /\ t.slotStart \in Nat /\ t.imported \in Nat /\ t.lastW \in Nat /\ Step(t, at) \in Nat
        /\ Inside(t, at) \in Nat /\ Inside(t, at) <= Step(t, at)
    BY <1>1, TrackerTypes, StepTypes
  <2>2. t.lastW * (Step(t, at) - Inside(t, at)) \in Nat
    BY <2>1, Product
  <2>3. t.imported + t.lastW * (Step(t, at) - Inside(t, at)) \in Nat
    BY <2>1, <2>2
  <2>4. closed \in [slot : Nat, energy : Nat] \cup {None}
    BY DEF SlotInv, SlotTypeOK
  <2> QED
    BY <1>3, <2>1, <2>3, <2>4 DEF Closed
<1> QED
  BY <1>4, <1>5, <1>6, NoneAssumption

LEMMA CycleStored ==
  ASSUME SlotInv, NEW at \in Nat, now < at, NEW w \in Draws, NEW dark \in BOOLEAN, CycleTo(at, w, dark)
  PROVE  Stored'
<1>1. saved' = saved /\ now' = at /\ now \in Nat
  BY DEF CycleTo, SlotInv, SlotTypeOK
<1> SUFFICES ASSUME saved # None
             PROVE  /\ saved.lastT <= at /\ saved.slotStart = SlotOf(saved.lastT)
                    /\ saved.imported <= Most * Into(saved.lastT)
                    /\ saved.slotStart = SlotOf(at) =>
                         /\ saved.imported <= drawn' + Most * doubt'
                         /\ drawn' <= saved.imported + Most * (doubt' + (at - saved.lastT))
                         /\ saved.watched /\ at - saved.lastT <= MaxStep => looked'
  BY <1>1 DEF Stored
<1>2. /\ saved.lastT \in Nat /\ saved.imported \in Nat /\ saved.lastT <= now
      /\ saved.slotStart = SlotOf(saved.lastT) /\ saved.imported <= Most * Into(saved.lastT)
  <2>1. saved \in Trackers
    BY DEF SlotInv, SlotTypeOK
  <2> QED
    BY <2>1, TrackerTypes DEF SlotInv, Stored
<1>3. ASSUME saved.slotStart = SlotOf(at)
      PROVE  /\ saved.imported <= drawn' + Most * doubt'
             /\ drawn' <= saved.imported + Most * (doubt' + (at - saved.lastT))
             /\ saved.watched /\ at - saved.lastT <= MaxStep => looked'
  <2>1. SlotOf(at) = SlotOf(now)
    <3>1. SlotOf(saved.lastT) <= SlotOf(now) /\ SlotOf(now) <= SlotOf(at)
      BY <1>1, <1>2, SlotOrder
    <3>2. SlotOf(now) \in Nat /\ SlotOf(at) \in Nat
      BY <1>1, SlotOfFacts
    <3> QED
      BY <1>2, <1>3, <3>1, <3>2
  <2>2. /\ saved.imported <= drawn + Most * doubt
        /\ drawn <= saved.imported + Most * (doubt + (now - saved.lastT))
        /\ saved.watched /\ now - saved.lastT <= MaxStep => looked
    BY <1>3, <2>1 DEF SlotInv, Stored
  <2>3. /\ drawn' = drawn + load * (at - now) /\ drawn' \in Nat /\ doubt' \in Nat /\ doubt <= doubt'
        /\ looked' = (looked /\ at - now <= MaxStep)
    BY <2>1, SameSlotBooks
  <2>4. drawn \in Nat /\ doubt \in Nat /\ load \in Nat /\ load <= Most /\ Most \in Nat /\ MaxStep \in Nat
    BY DrawFacts DEF SlotInv, SlotTypeOK
  <2>5. /\ load * (at - now) \in Nat /\ load * (at - now) <= Most * (at - now)
        /\ Most * doubt \in Nat /\ Most * doubt <= Most * doubt' /\ Most * doubt' \in Nat
        /\ Most * (now - saved.lastT) \in Nat /\ Most * (at - now) \in Nat
    <3>1. at - now \in Nat /\ now - saved.lastT \in Nat
      BY <1>1, <1>2
    <3>2. load * (at - now) <= Most * (at - now)
      BY <2>4, <3>1, ProductOrder
    <3>3. Most * doubt <= Most * doubt'
      BY <2>3, <2>4, ScaleOrder
    <3> QED
      BY <2>3, <2>4, <3>1, <3>2, <3>3, Product
  <2>6. Most * (doubt + (now - saved.lastT)) = Most * doubt + Most * (now - saved.lastT)
    BY <1>1, <1>2, <2>4
  <2>7. Most * (doubt' + (at - saved.lastT)) = Most * doubt' + Most * (now - saved.lastT) + Most * (at - now)
    BY <1>1, <1>2, <2>3, <2>4
  <2>8. saved.imported <= drawn' + Most * doubt'
    BY <1>2, <2>2, <2>3, <2>4, <2>5
  <2>9. drawn' <= saved.imported + Most * (doubt' + (at - saved.lastT))
    BY <1>2, <2>2, <2>3, <2>4, <2>5, <2>6, <2>7
  <2>10. ASSUME saved.watched, at - saved.lastT <= MaxStep PROVE looked'
    <3>1. now - saved.lastT <= MaxStep /\ at - now <= MaxStep
      BY <1>1, <1>2, <2>4, <2>10
    <3> QED
      BY <2>2, <2>3, <2>10, <3>1
  <2> QED
    BY <2>8, <2>9, <2>10
<1> QED
  BY <1>1, <1>2, <1>3

\* The allowance is for the rest of the slot: the house may draw it to the end.
LEMMA CycleLanding ==
  ASSUME SlotInv, NEW at \in Nat, now < at, NEW w \in Draws, NEW dark \in BOOLEAN, CycleTo(at, w, dark)
  PROVE  Landing'
<1>1. now' = at /\ load' = w /\ now \in Nat /\ w \in Nat
  BY DrawFacts DEF CycleTo, SlotInv, SlotTypeOK
<1> SUFFICES ASSUME obedient' PROVE drawn' + w * Rest(at) <= Budget + Most * doubt'
  BY <1>1 DEF Landing
<1>2. /\ drawn' \in Nat /\ doubt' \in Nat /\ tracker'.imported \in Nat
      /\ drawn' <= tracker'.imported + Most * doubt' /\ Allows(tracker', w)
      /\ tracker'.lastT = at /\ tracker'.slotStart = SlotOf(at)
  <2>1. tracker' \in Trackers /\ tracker'.lastT = at /\ tracker'.slotStart = SlotOf(at)
    BY CycleTracker
  <2>2. tracker'.imported \in Nat
    BY <2>1, TrackerTypes
  <2> QED
    BY <1>1, <2>1, <2>2, SameSlotBooks, NewSlotBooks
<1>3. /\ Budget \in Nat /\ Most \in Nat /\ Target \in Nat /\ MaxStep \in Nat /\ SlotLen \in Nat
      /\ load \in Nat /\ load <= Most /\ drawn \in Nat /\ doubt \in Nat
  BY DrawFacts DEF SlotInv, SlotTypeOK
<1>4. Most * doubt' \in Nat
  BY <1>2, <1>3, Product
<1>5. CASE w # 0
  <2>1. w * (SlotLen - (at - SlotOf(at))) <= Budget - tracker'.imported
    BY <1>2, <1>5 DEF Allows
  <2>2. SlotLen - (at - SlotOf(at)) = Rest(at) /\ Rest(at) \in Nat
    BY <1>3, SlotOfFacts DEF Rest
  <2>3. w * Rest(at) \in Nat
    BY <1>1, <2>2, Product
  <2>4. w * Rest(at) <= Budget - tracker'.imported
    BY <2>1, <2>2
  <2> QED
    BY <1>2, <1>3, <1>4, <2>3, <2>4
<1>6. CASE w = 0 /\ SlotOf(at) = SlotOf(now)
  <2>1. obedient /\ drawn' = drawn + load * (at - now) /\ doubt <= doubt'
    BY <1>6, SameSlotBooks
  <2>2. drawn + load * Rest(now) <= Budget + Most * doubt
    BY <2>1 DEF SlotInv, Landing
  <2>3. at - now <= Rest(now) /\ Rest(now) \in Nat
    BY <1>1, <1>3, <1>6, SlotOfFacts DEF Rest
  <2>4. /\ load * (at - now) <= load * Rest(now) /\ load * (at - now) \in Nat /\ load * Rest(now) \in Nat
        /\ Most * doubt <= Most * doubt' /\ Most * doubt \in Nat
    <3>1. at - now \in Nat
      BY <1>1
    <3>2. load * (at - now) <= load * Rest(now)
      BY <1>3, <2>3, <3>1, ProductOrder
    <3>3. Most * doubt <= Most * doubt'
      BY <1>2, <1>3, <2>1, ScaleOrder
    <3> QED
      BY <1>3, <2>3, <3>1, <3>2, <3>3, Product
  <2>5. w * Rest(at) = 0
    BY <1>6, SlotOfFacts
  <2> QED
    BY <1>2, <1>3, <1>4, <2>1, <2>2, <2>4, <2>5
<1>7. CASE w = 0 /\ SlotOf(at) # SlotOf(now)
  <2>1. /\ drawn' = load * Into(at) /\ load <= CapFactor * Target /\ drawn' <= Most * Into(at)
        /\ doubt' = Into(at) \/ Into(at) <= MaxStep
    BY <1>7, NewSlotBooks
  <2>2. Into(at) \in Nat /\ w * Rest(at) = 0
    BY <1>7, SlotOfFacts
  <2>3. CASE doubt' = Into(at)
    BY <1>2, <1>3, <1>4, <2>1, <2>2, <2>3
  <2>4. CASE Into(at) <= MaxStep
    <3>1. CapFactor \in Nat /\ CapFactor * MaxStep \in Nat /\ CapFactor * MaxStep <= SlotLen /\ CapFactor * Target \in Nat
      BY LengthAssumption, Product
    <3>2. load * Into(at) <= (CapFactor * Target) * MaxStep
      BY <1>3, <2>1, <2>2, <2>4, <3>1, ProductOrder
    <3>3. (CapFactor * Target) * MaxStep = Target * (CapFactor * MaxStep)
      BY <1>3, <3>1
    <3>4. Target * (CapFactor * MaxStep) <= Target * SlotLen
      BY <1>3, <3>1, ProductOrder
    <3>5. Budget = Target * SlotLen /\ Target * (CapFactor * MaxStep) \in Nat
      BY <1>3, <3>1, Product DEF Budget
    <3> QED
      BY <1>2, <1>3, <1>4, <2>1, <2>2, <3>2, <3>3, <3>4, <3>5
  <2> QED
    BY <2>1, <2>3, <2>4
<1> QED
  BY <1>5, <1>6, <1>7

LEMMA SlotInitInv == SlotInit => SlotInv
<1> SUFFICES ASSUME SlotInit PROVE SlotInv
  OBVIOUS
<1>1. /\ now = Start /\ load = 0 /\ tracker = None /\ closed = None /\ saved = None /\ crashes = 0
      /\ drawn = 0 /\ known = FALSE /\ doubt = 0 /\ obedient = TRUE
      /\ Start \in Nat /\ MaxCrashes \in Nat
  BY DrawAssumption DEF SlotInit
<1>2. looked \in BOOLEAN
  BY Zenon DEF SlotInit
<1>3. Into(now) \in Nat /\ Rest(now) \in Nat /\ Most \in Nat /\ Budget \in Nat
  BY <1>1, SlotOfFacts, DrawFacts
<1>4. SlotTypeOK
  <2>1. crashes \in 0 .. MaxCrashes /\ now \in Nat /\ load \in {0} /\ drawn \in Nat /\ doubt \in Nat
    BY <1>1
  <2>2. known \in BOOLEAN /\ obedient \in BOOLEAN
    BY <1>1
  <2> QED
    BY <1>1, <1>2, <2>1, <2>2, Zenon DEF SlotTypeOK
<1>5. Metered
  BY <1>1, <1>3, Product DEF Metered
<1>6. Tracked /\ Stored
  BY <1>1 DEF Tracked, Stored
<1>7. Landing
  <2>1. load * Rest(now) = 0 /\ Most * doubt = 0
    BY <1>1, <1>3
  <2> QED
    BY <1>1, <1>3, <2>1 DEF Landing
<1> QED
  BY <1>4, <1>5, <1>6, <1>7 DEF SlotInv

\* A step of the specification is a cycle to a later time, or one of the three others.
LEMMA SlotActions ==
  ASSUME SlotTypeOK, [SlotNext]_slotVars
  PROVE  \/ \E at \in Nat, w \in Draws, dark \in BOOLEAN : now < at /\ CycleTo(at, w, dark)
         \/ Pop \/ Save \/ Crash \/ UNCHANGED slotVars
<1>1. ASSUME NEW gap \in Gaps, NEW w \in Draws, NEW dark \in BOOLEAN, SlotCycle(gap, w, dark)
      PROVE  \E at \in Nat, x \in Draws, y \in BOOLEAN : now < at /\ CycleTo(at, x, y)
  <2>1. now + gap \in Nat /\ now < now + gap
    BY DrawAssumption DEF SlotTypeOK
  <2>2. CycleTo(now + gap, w, dark)
    BY <1>1 DEF SlotCycle, CycleTo, Base
  <2> QED
    BY <2>1, <2>2
<1> QED
  BY <1>1 DEF SlotNext

LEMMA CycleInv ==
  ASSUME SlotInv, NEW at \in Nat, now < at, NEW w \in Draws, NEW dark \in BOOLEAN, CycleTo(at, w, dark)
  PROVE  SlotInv'
<1>1. now' = at /\ load' = w /\ saved' = saved /\ crashes' = crashes
  BY DEF CycleTo
<1>2. known' \in BOOLEAN
  BY Zenon DEF CycleTo
<1>3. looked' \in BOOLEAN /\ obedient' \in BOOLEAN
  BY Zenon DEF CycleTo, Remember, LookedIn
<1>4. /\ tracker' \in Trackers /\ tracker' # None /\ tracker'.lastT = at /\ tracker'.slotStart = SlotOf(at)
      /\ known' => tracker'.lastW = load'
      /\ closed' \in [slot : Nat, energy : Nat] \cup {None}
  BY CycleTracker
<1>5. /\ drawn' \in Nat /\ doubt' \in Nat /\ doubt' <= Into(at) /\ drawn' <= Most * Into(at)
      /\ tracker'.imported <= Most * Into(at)
      /\ tracker'.imported <= drawn' + Most * doubt' /\ drawn' <= tracker'.imported + Most * doubt'
      /\ tracker'.watched => looked'
  BY SameSlotBooks, NewSlotBooks
<1>6. SlotTypeOK'
  <2>1. crashes \in 0 .. MaxCrashes /\ saved \in Trackers \cup {None}
    BY DEF SlotInv, SlotTypeOK
  <2> QED
    BY <1>1, <1>2, <1>3, <1>4, <1>5, <2>1 DEF SlotTypeOK
<1>7. Metered'
  BY <1>1, <1>5 DEF Metered, Into, SlotOf
<1>8. Tracked'
  BY <1>1, <1>4, <1>5 DEF Tracked, Into, SlotOf
<1> QED
  BY <1>6, <1>7, <1>8, CycleStored, CycleLanding DEF SlotInv

LEMMA SaveInv == ASSUME SlotInv, Save PROVE SlotInv'
<1>1. /\ tracker # None /\ saved' = tracker
      /\ UNCHANGED <<now, load, tracker, closed, crashes, drawn, known, doubt, looked, obedient>>
  BY DEF Save
<1>2. SlotTypeOK' /\ Metered' /\ Tracked' /\ Landing'
  BY <1>1 DEF SlotInv, SlotTypeOK, Metered, Tracked, Landing, Into, Rest, SlotOf
<1>3. Stored'
  <2>1. /\ tracker.lastT = now /\ tracker.slotStart = SlotOf(now)
        /\ tracker.imported <= Most * Into(now)
        /\ tracker.imported <= drawn + Most * doubt /\ drawn <= tracker.imported + Most * doubt
        /\ tracker.watched => looked
    BY <1>1 DEF SlotInv, Tracked
  <2>2. now \in Nat /\ doubt \in Nat /\ doubt + (now - now) = doubt
    BY DEF SlotInv, SlotTypeOK
  <2>3. Most * (doubt + (now - now)) = Most * doubt
    BY <2>2
  <2>4. /\ tracker.lastT <= now /\ tracker.slotStart = SlotOf(tracker.lastT)
        /\ tracker.imported <= Most * Into(tracker.lastT)
        /\ tracker.imported <= drawn + Most * doubt
        /\ drawn <= tracker.imported + Most * (doubt + (now - tracker.lastT))
        /\ tracker.watched => looked
    BY <2>1, <2>2, <2>3
  <2> QED
    BY <1>1, <2>4 DEF Stored, Into, SlotOf
<1> QED
  BY <1>2, <1>3 DEF SlotInv

LEMMA CrashInv == ASSUME SlotInv, Crash PROVE SlotInv'
<1>1. /\ tracker' = None /\ closed' = None /\ crashes < MaxCrashes /\ crashes' = crashes + 1 /\ known' = FALSE
      /\ UNCHANGED <<now, load, saved, drawn, doubt, looked, obedient>>
  BY DEF Crash
<1>2. crashes' \in 0 .. MaxCrashes
  BY <1>1, DrawAssumption DEF SlotInv, SlotTypeOK
<1>3. SlotTypeOK'
  BY <1>1, <1>2 DEF SlotInv, SlotTypeOK
<1>4. Metered' /\ Stored' /\ Landing'
  BY <1>1 DEF SlotInv, Metered, Stored, Landing, Into, Rest, SlotOf
<1>5. Tracked'
  BY <1>1 DEF Tracked
<1> QED
  BY <1>3, <1>4, <1>5 DEF SlotInv

LEMMA SlotStepInv == SlotInv /\ [SlotNext]_slotVars => SlotInv'
<1> SUFFICES ASSUME SlotInv, [SlotNext]_slotVars PROVE SlotInv'
  OBVIOUS
<1>1. CASE \E at \in Nat, w \in Draws, dark \in BOOLEAN : now < at /\ CycleTo(at, w, dark)
  BY <1>1, CycleInv
<1>2. CASE Pop
  BY <1>2 DEF Pop, SlotInv, SlotTypeOK, Metered, Tracked, Stored, Landing, Into, Rest, SlotOf
<1>3. CASE Save
  BY <1>3, SaveInv
<1>4. CASE Crash
  BY <1>4, CrashInv
<1>5. CASE UNCHANGED slotVars
  BY <1>5 DEF slotVars, SlotInv, SlotTypeOK, Metered, Tracked, Stored, Landing, Into, Rest, SlotOf
<1> QED
  BY <1>1, <1>2, <1>3, <1>4, <1>5, SlotActions DEF SlotInv

LEMMA SlotInvariance == SlotSpec => []SlotInv
BY SlotInitInv, SlotStepInv, PTL DEF SlotSpec

\* The tracker, the closed slot, the stored state and what is remembered of the
\* slot keep their types, through cycles, restarts and saves.
THEOREM SlotTypeCorrect == SlotSpec => []SlotTypeOK
<1>1. SlotInv => SlotTypeOK
  BY DEF SlotInv
<1> QED
  BY <1>1, SlotInvariance, PTL

\* The slot after the next boundary, for a step of no more than a slot.
LEMMA NextSlot ==
  ASSUME NEW a \in Nat, NEW b \in Nat, a <= b, b - a <= SlotLen, SlotOf(a) # SlotOf(b)
  PROVE  SlotOf(b) = SlotOf(a) + SlotLen
<1> DEFINE k == a \div SlotLen
           m == b \div SlotLen
<1>1. /\ k \in Nat /\ m \in Nat /\ SlotLen \in Nat \ {0}
      /\ a = SlotLen * k + (a % SlotLen) /\ a % SlotLen \in 0 .. SlotLen - 1
      /\ b = SlotLen * m + (b % SlotLen) /\ b % SlotLen \in 0 .. SlotLen - 1
  BY Division, LengthAssumption
<1>2. SlotOf(a) = SlotLen * k /\ SlotOf(b) = SlotLen * m
  BY <1>1 DEF SlotOf
<1> HIDE DEF k, m
<1>3. SlotOf(a) + SlotLen <= SlotOf(b)
  BY SlotOrder
<1>4. m <= k + 1
  <2> SUFFICES ASSUME k + 2 <= m PROVE FALSE
    BY <1>1
  <2>1. SlotLen * (k + 2) <= SlotLen * m /\ SlotLen * (k + 2) = SlotLen * k + SlotLen + SlotLen
    BY <1>1, ScaleOrder
  <2> QED
    BY <1>1, <2>1, Product
<1>5. SlotLen * m <= SlotLen * (k + 1) /\ SlotLen * (k + 1) = SlotLen * k + SlotLen
  BY <1>1, <1>4, ScaleOrder
<1>6. SlotLen * k \in Nat /\ SlotLen * m \in Nat
  BY <1>1, Product
<1> QED
  BY <1>1, <1>2, <1>3, <1>5, <1>6

LEMMA CycleBooks ==
  ASSUME SlotInv, NEW at \in Nat, now < at, NEW w \in Draws, NEW dark \in BOOLEAN, CycleTo(at, w, dark),
         closed' \notin {closed, None}
  PROVE  /\ closed'.slot = SlotOf(now) /\ LookedIn(at)
         /\ closed'.energy <= DrawnIn(at) + Most * DoubtIn(at)
         /\ DrawnIn(at) <= closed'.energy + Most * DoubtIn(at)
<1> DEFINE t == Base(at)
<1>1. t \in Trackers /\ t.lastT <= at
  BY BaseFacts
<1>2. /\ SlotOf(at) # t.slotStart /\ t.watched /\ at - t.lastT <= MaxStep /\ Seen(t, at)
      /\ closed' = [slot |-> t.slotStart, energy |-> t.imported + t.lastW * (Step(t, at) - Inside(t, at))]
  BY DEF CycleTo, Closed, Seen
<1>3. tracker # None /\ t = tracker
  BY <1>2, BaseFacts, FreshTypes
<1>4. /\ t.slotStart = SlotOf(now) /\ t.lastT = now
      /\ t.imported <= drawn + Most * doubt /\ drawn <= t.imported + Most * doubt
      /\ known => t.lastW = load
      /\ t.watched => looked
  BY <1>3 DEF SlotInv, Tracked
<1>5. Unknown(at) = IF ~known \/ at - now > MaxStep THEN at - now ELSE 0
  BY <1>3 DEF Unknown
<1> HIDE DEF t
<1>6. /\ now \in Nat /\ drawn \in Nat /\ doubt \in Nat /\ load \in Nat /\ load <= Most /\ Most \in Nat
      /\ MaxStep \in Nat /\ SlotLen \in Nat /\ MaxStep <= SlotLen
  BY DrawFacts DEF SlotInv, SlotTypeOK
<1>7. /\ t.imported \in Nat /\ t.lastW \in Nat /\ t.lastW <= Most
      /\ Step(t, at) = at - now /\ Inside(t, at) <= Into(at)
      /\ Into(at) <= at - now => Inside(t, at) = Into(at)
  BY <1>1, <1>2, <1>4, TrackerTypes, StepTypes
<1>8. at - now <= MaxStep
  BY <1>2, <1>4
<1>9. /\ SlotOf(at) = SlotOf(now) + SlotLen /\ SlotOf(now) \in Nat
      /\ now < SlotOf(now) + SlotLen /\ Into(at) = at - SlotOf(at) /\ Into(at) \in Nat /\ SlotOf(at) <= at
  <2>1. at - now <= SlotLen
    BY <1>6, <1>8
  <2> QED
    BY <1>2, <1>4, <1>6, <2>1, NextSlot, SlotOfFacts DEF Into
<1>10. Before(at) = SlotOf(at) - now /\ Before(at) \in Nat
  BY <1>2, <1>4, <1>6, <1>9 DEF Before, Crosses
<1>11. Step(t, at) - Inside(t, at) = Before(at)
  BY <1>6, <1>7, <1>9, <1>10
<1>12. closed'.slot = SlotOf(now) /\ closed'.energy = t.imported + t.lastW * Before(at)
  BY <1>2, <1>4, <1>11
<1>13. LookedIn(at)
  BY <1>2, <1>4, <1>8 DEF LookedIn
<1>14. DrawnIn(at) = drawn + load * Before(at)
  BY DEF DrawnIn
<1>15. /\ load * Before(at) \in Nat /\ t.lastW * Before(at) \in Nat /\ Most * doubt \in Nat
       /\ Most * Before(at) \in Nat
       /\ load * Before(at) <= Most * Before(at) /\ t.lastW * Before(at) <= Most * Before(at)
  BY <1>6, <1>7, <1>10, Product, ProductOrder
<1>16. CASE known
  <2>1. DoubtIn(at) = doubt /\ t.lastW = load
    BY <1>4, <1>5, <1>6, <1>8, <1>16 DEF DoubtIn
  <2> QED
    BY <1>4, <1>6, <1>7, <1>12, <1>13, <1>14, <1>15, <2>1
<1>17. CASE ~known
  <2>1. DoubtIn(at) = doubt + Before(at)
    BY <1>5, <1>6, <1>17 DEF DoubtIn
  <2>2. Most * DoubtIn(at) = Most * doubt + Most * Before(at)
    BY <1>6, <1>10, <2>1
  <2> QED
    BY <1>4, <1>6, <1>7, <1>12, <1>13, <1>14, <1>15, <2>2
<1> QED
  BY <1>16, <1>17

\* A booked slot is one SEM watched from its first beat to its last, and its energy is
\* what the house imported in it, up to the beats the meter was dark or SEM away: whatever
\* the slot's length, the step cap within it, the draws and the cycles' times.
THEOREM ClosedSlotsAreTrue == SlotSpec => BooksTheSlot
<1>1. ASSUME SlotInv, [SlotNext]_slotVars, closed' \notin {closed, None}
      PROVE  /\ closed'.slot = SlotOf(now) /\ LookedIn(now')
             /\ closed'.energy <= DrawnIn(now') + Most * DoubtIn(now')
             /\ DrawnIn(now') <= closed'.energy + Most * DoubtIn(now')
  <2>1. ~Pop /\ ~Save /\ ~Crash /\ ~UNCHANGED slotVars
    BY <1>1 DEF Pop, Save, Crash, slotVars
  <2>2. PICK at \in Nat, w \in Draws, dark \in BOOLEAN : now < at /\ CycleTo(at, w, dark)
    BY <1>1, <2>1, SlotActions DEF SlotInv
  <2>3. now' = at
    BY <2>2 DEF CycleTo
  <2> QED
    BY <1>1, <2>2, <2>3, CycleBooks
<1> QED
  BY <1>1, SlotInvariance, PTL DEF SlotSpec, BooksTheSlot

\* A house that keeps to the allowance lands every slot on its target, up to the beats nobody
\* measured: through boundaries, dark readings, late cycles, kills and restarts.
THEOREM ObedienceLandsTheSlot == SlotSpec => SlotLands
<1>1. ASSUME SlotInv, [SlotNext]_slotVars, obedient
      PROVE  DrawnIn(now') <= Budget + Most * DoubtIn(now')
  <2>1. now' \in Nat /\ now <= now' /\ now \in Nat
    <3>1. now \in Nat
      BY <1>1 DEF SlotInv, SlotTypeOK
    <3>2. CASE \E at \in Nat, w \in Draws, dark \in BOOLEAN : now < at /\ CycleTo(at, w, dark)
      BY <3>1, <3>2 DEF CycleTo
    <3>3. CASE Pop \/ Save \/ Crash \/ UNCHANGED slotVars
      BY <3>1, <3>3 DEF Pop, Save, Crash, slotVars
    <3> QED
      BY <1>1, <3>2, <3>3, SlotActions DEF SlotInv
  <2> DEFINE at == now'
  <2>2. /\ drawn \in Nat /\ doubt \in Nat /\ load \in Nat /\ Most \in Nat /\ Budget \in Nat /\ SlotLen \in Nat
    BY <1>1, DrawFacts DEF SlotInv, SlotTypeOK
  <2>3. drawn + load * Rest(now) <= Budget + Most * doubt
    BY <1>1 DEF SlotInv, Landing
  <2>4. /\ SlotOf(now) \in Nat /\ now < SlotOf(now) + SlotLen /\ Rest(now) \in Nat
        /\ Rest(now) = SlotOf(now) + SlotLen - now
    BY <2>1, SlotOfFacts DEF Rest
  <2>5. SlotOf(at) = SlotOf(now) => at < SlotOf(now) + SlotLen
    BY <2>1, SlotOfFacts
  <2>6. Before(at) \in Nat /\ Before(at) <= Rest(now)
    <3> HIDE DEF at
    <3>1. at \in Nat /\ now <= at
      BY <2>1 DEF at
    <3> QED
      BY <2>1, <2>2, <2>4, <2>5, <3>1 DEF Before, Crosses
  <2> HIDE DEF at
  <2>7. DoubtIn(at) \in Nat /\ doubt <= DoubtIn(at)
    BY <2>2, <2>6 DEF DoubtIn
  <2>8. load * Before(at) <= load * Rest(now) /\ load * Before(at) \in Nat /\ load * Rest(now) \in Nat
    BY <2>2, <2>4, <2>6, Product, ScaleOrder
  <2>9. Most * doubt <= Most * DoubtIn(at) /\ Most * doubt \in Nat /\ Most * DoubtIn(at) \in Nat
    BY <2>2, <2>7, Product, ScaleOrder
  <2>10. DrawnIn(at) <= Budget + Most * DoubtIn(at)
    BY <2>2, <2>3, <2>8, <2>9 DEF DrawnIn
  <2> QED
    BY <2>10 DEF at
<1> QED
  BY <1>1, SlotInvariance, PTL DEF SlotSpec, SlotLands

\* The tracker's integral is off by no more than the beats nobody measured.
THEOREM TrackerStaysHonest == SlotSpec => []IntegralIsHonest
<1>1. SlotInv => IntegralIsHonest
  BY DEF SlotInv, Tracked, IntegralIsHonest
<1> QED
  BY <1>1, SlotInvariance, PTL
=============================================================================
