------------------------------ MODULE LoadShed ------------------------------
(***************************************************************************)
(* The switchable loads between two authorities that take them off: the    *)
(* grid peak and the phase current guard.                                  *)
(*                                                                         *)
(*   load_management.py     the shed list, its clean-up, peak state, shed  *)
(*                          and restore, the phase guard's takings         *)
(*   coordinator.py         the order of a cycle and the holds handed on   *)
(*   surplus_controller.py  the loads it owns: backed off and not started  *)
(*   device_registry.py     the sync that rebuilds load management's rows  *)
(*                                                                         *)
(* A cycle is: the guard's reading (PhaseLatch!Reading), its request to    *)
(* the loads, an answer per phase, the peak's turn, the surplus            *)
(* controller's.  Users switch every load at any time, in mid-cycle too.   *)
(* process_phase_guard returns its holds and keeps may_restore for the     *)
(* peak's turn of the same cycle; nothing they are computed from changes   *)
(* in between, so they are read where they are used.                       *)
(* The guard is the abstract PhaseLatch: what is shown here holds of every *)
(* guard that keeps that promise.                                          *)
(*                                                                         *)
(* A switch is read live and a load that is on draws, or is idle for as    *)
(* long as a cycle looks.  Loads go in drag order until their watts cover  *)
(* the excess, idle ones passed over: any of them.  Critical, hands-off    *)
(* and unavailable loads are never touched and left out.                   *)
(***************************************************************************)
EXTENDS PhaseLatch, Naturals, FiniteSets

CONSTANTS
  Loads,
  Theirs,    \* loads the surplus controller owns (_peak_managed_elsewhere)
  Sits,      \* the phases each load is known to draw on, {} for unknown
  Priority,  \* the priority numbers: the highest is restored first
  MaxFaults  \* failing service calls in a behaviour

ASSUME LoadAssumption ==
  /\ IsFiniteSet(Loads) /\ Theirs \subseteq Loads
  /\ Sits \in [Loads -> SUBSET Phases]
  /\ Priority \in [Loads -> Nat] /\ \A l, m \in Loads : Priority[l] = Priority[m] => l = m
ASSUME BoundAssumption == MaxFaults \in Nat

VARIABLES
  step,     \* "guard", "request", "answer", "peak", "surplus"
  todo,     \* phases that still wait for their loads' answer
  on,       \* the loads that are switched on
  shed,     \* _devices_shed
  taken,    \* _phase_shed_ids
  held,     \* _phase_held
  ran,      \* rows with _ran_since_shed
  was,      \* rows with _pre_shed_was_on
  settling, \* rows whose minimum on or minimum off time is running
  normal,   \* _state is NORMAL; what else it is matters to nobody after the peak's turn
  threw,    \* the shed delay is running: 5 s of a 10 s cycle
  resting,  \* the restore delay is running
  faults,
  owed      \* for the properties: off because of load management, not on since, the row still the one it wrote

lists == <<shed, taken, held>>
rows  == <<ran, was, settling>>
vars == <<latch, step, todo, on, lists, rows, normal, threw, resting, faults, owed>>

Ours == Loads \ Theirs

TypeOK ==
  /\ enforcing \in BOOLEAN /\ authorized \in BOOLEAN /\ latched \subseteq Phases /\ asked \subseteq Phases
  /\ step \in {"guard", "request", "answer", "peak", "surplus"} /\ todo \subseteq Phases
  /\ on \subseteq Loads /\ shed \subseteq Ours /\ taken \subseteq shed /\ held \subseteq Theirs
  /\ ran \subseteq shed /\ was \subseteq shed /\ settling \subseteq Ours
  /\ normal \in BOOLEAN /\ threw \in BOOLEAN /\ resting \in BOOLEAN /\ faults \in 0 .. MaxFaults /\ owed \subseteq Ours

Init ==
  /\ LatchInit /\ step = "guard" /\ todo = {} /\ on \in SUBSET Loads
  /\ shed = {} /\ taken = {} /\ held = {} /\ ran = {} /\ was = {} /\ settling = {}
  /\ normal = TRUE /\ threw = FALSE /\ resting = FALSE /\ faults = 0 /\ owed = {}

-----------------------------------------------------------------------------
(* Switching.                                                              *)

\* Loads of ours go off: onto the list, their rows noting the state they were in.  The list and the
\* run marks are those the clean-up of the same cycle has left; a load off the list needs no marks,
\* nor a minimum off time.
SwitchOff(S, listed, marks) ==
  /\ on' = on \ S /\ shed' = listed \cup S /\ was' = (was \cap listed) \cup S /\ ran' = marks \ S
  /\ settling' = (settling \ (shed \ listed)) \cup S
  /\ owed' = owed \cup S

\* Calls that fail are logged and leave the load as it was.
Fail(S) == faults + Cardinality(S) <= MaxFaults /\ faults' = faults + Cardinality(S)

-----------------------------------------------------------------------------
(* The guard's reading, its request, and the loads' answer to it.          *)

Guard ==
  /\ step = "guard" /\ Reading /\ step' = "request"
  /\ UNCHANGED <<todo, on, lists, rows, normal, threw, resting, faults, owed>>

\* The first in drag order: the one with the highest priority number.
First(S) == {l \in S : \A m \in S : Priority[m] <= Priority[l]}

\* process_phase_guard without a phase over: held loads are released one per restore delay.
Release ==
  IF LoadsMayReturn /\ held # {} /\ ~resting
  THEN held' = held \ First(held) /\ resting' = TRUE
  ELSE UNCHANGED <<held, resting>>

Request ==
  /\ step = "request" /\ Ask
  /\ taken' = taken \cap shed /\ todo' = asked'
  /\ \/ asked' # {} /\ step' = "answer" /\ UNCHANGED <<held, resting>>
     \/ asked' = {} /\ step' = "peak" /\ Release
  /\ UNCHANGED <<on, shed, rows, normal, threw, faults, owed>>

\* The loads that may answer for a phase: on, past their minimum on time, not taken yet.
Able(p) == {l \in on \ (shed \cup held \cup settling) : p \in Sits[l] \/ Sits[l] = {}}

\* One phase over its limit: the loads known to draw on it until their amps cover the excess, then, if
\* they do not, one load of unknown phase.  A load of the surplus controller is held, ours is switched off.
Answer(p) ==
  \E thrown \in SUBSET Able(p) :
    \E failing \in SUBSET ((Able(p) \cap Ours) \ thrown) :
       /\ step = "answer" /\ p \in todo
       /\ \A l, m \in thrown : Sits[l] = {} /\ Sits[m] = {} => l = m
       /\ SwitchOff(thrown \cap Ours, shed, ran) /\ Fail(failing)
       /\ taken' = taken \cup (thrown \cap Ours) /\ held' = held \cup (thrown \cap Theirs)
       /\ threw' = (threw \/ (failing \cup thrown) \cap Ours # {})
       /\ todo' = todo \ {p} /\ step' = IF todo' = {} THEN "peak" ELSE "answer"
       /\ UNCHANGED <<latch, normal, resting>>

-----------------------------------------------------------------------------
(* The peak's turn: clean-up, state, and what the state calls for.         *)

\* Ours until it has run again.
Marked == ran \cup (shed \cap on)

MutGone == shed \ on

\* A load that ran and stopped by itself is no longer ours to restore.
Gone == {l \in shed \ on : l \in ran}

\* _determine_load_management_state; the warning zone keeps shedding while the peak's own are off.
StateOf(level, listed) ==
  IF level = "warning" /\ ~(listed \subseteq taken) THEN "shedding" ELSE level

Candidates(listed) == (on \cap Ours) \ (listed \cup settling)

\* _emergency_load_shedding: as many as the need takes, those that fail are passed over.
Emergency(listed, marks) ==
  \E thrown \in SUBSET Candidates(listed) : \E failing \in SUBSET (Candidates(listed) \ thrown) :
    SwitchOff(thrown, listed, marks) /\ Fail(failing)

\* _progressive_load_shedding: one per pass.  A failed call has armed the shed delay for the others.
Progressive(listed, marks) ==
  \/ SwitchOff({}, listed, marks) /\ UNCHANGED faults
  \/ /\ ~threw
     /\ \E l \in Candidates(listed) :
          \/ SwitchOff({l}, listed, marks) /\ UNCHANGED faults
          \/ SwitchOff({}, listed, marks) /\ Fail({l})

Nothing(listed, marks) == SwitchOff({}, listed, marks) /\ UNCHANGED faults

MutRestorable(listed) == listed

\* A load shed for a phase waits for the guard's latch.
Restorable(listed) == {l \in listed : LoadsMayReturn \/ l \notin taken}

MutCanRestore(l) == l \notin on /\ l \notin settling /\ l \in was

\* Off, and past its minimum off time (_can_restore_device).
CanRestore(l) == l \notin on /\ l \notin settling

\* A row that does not know the state before the shed takes the present one: off, so nothing to restore.
Restored(l, listed, marks) ==
  /\ on' = (IF l \in was THEN on \cup {l} ELSE on) /\ owed' = owed \ on'
  /\ shed' = listed \ {l} /\ ran' = marks \ {l} /\ was' = (was \cap listed) \ {l}
  /\ settling' = (settling \ (shed \ listed)) \cup {l}
  /\ resting' = TRUE /\ UNCHANGED faults

\* _restore_loads: only the first in order is looked at.
Restore(listed, marks) ==
  LET head == {l \in First(Restorable(listed)) : ~resting /\ CanRestore(l)}
  IN \/ head = {} /\ Nothing(listed, marks) /\ UNCHANGED resting
     \/ \E l \in head : Restored(l, listed, marks)
     \/ /\ head \cap was # {} /\ Fail(head)
        /\ SwitchOff({}, listed, marks) /\ UNCHANGED resting

Peak ==
  \E level \in {"normal", "warning", "shedding", "emergency"} :
    LET listed == shed \ Gone
        marks  == Marked \ Gone
        state  == StateOf(level, listed)
    IN /\ step = "peak"
       /\ normal' = (state = "normal")
       /\ \/ state = "emergency" /\ Emergency(listed, marks) /\ UNCHANGED resting
          \/ state = "shedding" /\ Progressive(listed, marks) /\ UNCHANGED resting
          \/ state = "warning" /\ Nothing(listed, marks) /\ UNCHANGED resting
          \/ state = "normal" /\ Restore(listed, marks)
       /\ taken' = taken \cap shed'
       /\ threw' = FALSE /\ step' = "surplus"
       /\ UNCHANGED <<latch, todo, held>>

-----------------------------------------------------------------------------
(* The surplus controller, the users, time and the registry.               *)

\* No start for what is held, nor for a load of its own known to draw on a latched phase.
Holds == held \cup (IF LoadsMayReturn THEN {} ELSE {l \in Theirs : Sits[l] \cap latched # {}})

\* It runs what it likes of its own, held loads being backed off once their minimum run allows, and
\* starts none it was told to hold.
Surplus ==
  \E run \in SUBSET Theirs :
    /\ step = "surplus" /\ (run \ on) \cap Holds = {}
    /\ on' = (on \ Theirs) \cup run /\ step' = "guard"
    /\ UNCHANGED <<latch, todo, lists, rows, normal, threw, resting, faults, owed>>

TurnsOn(l) ==
  /\ l \notin on /\ on' = on \cup {l} /\ owed' = owed \ {l}
  /\ UNCHANGED <<latch, step, todo, lists, rows, normal, threw, resting, faults>>

TurnsOff(l) ==
  /\ l \in on /\ on' = on \ {l}
  /\ UNCHANGED <<latch, step, todo, lists, rows, normal, threw, resting, faults, owed>>

Settles(l) ==
  /\ l \in settling /\ settling' = settling \ {l}
  /\ UNCHANGED <<latch, step, todo, on, lists, ran, was, normal, threw, resting, faults, owed>>

Rests ==
  /\ resting /\ resting' = FALSE
  /\ UNCHANGED <<latch, step, todo, on, lists, rows, normal, threw, faults, owed>>

\* _sync_to_load_manager writes every row anew; the list stays.
Rebuild ==
  /\ step = "guard" /\ rows # <<{}, {}, {}>>
  /\ ran' = {} /\ was' = {} /\ settling' = {} /\ owed' = {}
  /\ UNCHANGED <<latch, step, todo, on, lists, normal, threw, resting, faults>>

Cycle == Guard \/ Request \/ (\E p \in Phases : Answer(p)) \/ Peak \/ Surplus

Next ==
  \/ Cycle
  \/ \E l \in Loads : TurnsOn(l) \/ TurnsOff(l)
  \/ \E l \in Ours : Settles(l)
  \/ Rests \/ Rebuild

LoadSpec == Init /\ [][Next]_vars

TimePasses == WF_vars(Cycle) /\ WF_vars(Rests) /\ \A l \in Ours : WF_vars(Settles(l))

FairSpec == LoadSpec /\ TimePasses

-----------------------------------------------------------------------------
(* Properties.                                                             *)

\* What load management switched off and nobody has switched on since is on its list, unless the rows
\* were rebuilt: no clean-up, no restore and no phase answer drops a load that is still owed its power.
DebtKept == owed \subseteq shed

\* While the guard's latch stands only a user starts a load that was taken for a phase, or a load of the
\* surplus controller known to draw on a latched phase.  (That controller asks before every start; the
\* peak's restore has only its list.)
TakenStaysDown ==
  [][\A l \in Loads :
       /\ ~LoadsMayReturn /\ l \notin on /\ l \in on'
       /\ l \in taken \cup held \/ (l \in Theirs /\ Sits[l] \cap latched # {})
       => step' = step]_vars

Calm == normal /\ LoadsMayReturn /\ asked = {}

\* Once peak and phases stay calm and no load on the list is left running, the list empties for good and
\* nothing stays held; by DebtKept a load leaves it switched on, unless its row was rebuilt.  A user who
\* keeps a shed load on puts an end to that premise: only the first in order is looked at, and while it
\* is on none behind it is restored.
ComesBack == <>[]Calm /\ <>[](shed \cap on = {}) => <>[](shed = {} /\ held = {})
=============================================================================
