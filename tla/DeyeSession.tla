----------------------------- MODULE DeyeSession -----------------------------
(***************************************************************************)
(* The forced grid charge of a Deye hybrid inverter as a transaction over  *)
(* the user's own charge programs.                                         *)
(*                                                                         *)
(*   deye.py                snapshot, verified writes, rollback, restore,  *)
(*                          the unsafe latch, the recovery of a pending    *)
(*                          snapshot, the export verbs on the same adapter *)
(*   deye_snapshot_store.py the two durable records: snapshot and latch    *)
(*   base.py                command_off, the silence after a stop          *)
(*   coordinator.py         one adapter per lifetime, recovered once       *)
(*                                                                         *)
(* A command is a sequence of awaited writes: each is a step, and the      *)
(* process may be killed between any two.  A write may fail, landed or     *)
(* not; so may every call to the stores.  The decisions are whatever the   *)
(* battery's modes and schedule make of the day: any command, any cycle.   *)
(*                                                                         *)
(* The registers a charge writes are three: the charge current, the        *)
(* program slots of the window (their SOC and charging source, with the    *)
(* Work Mode that is written next to them) and the grid-charge switch.     *)
(* A register holds the user's value, SEM's, or the safe one a restore     *)
(* begins with (0 A, switch off).                                          *)
(***************************************************************************)
EXTENDS Naturals

CONSTANTS
  Plans,          \* the settings a user may have made
  NoSnapshot,     \* no record
  MaxFaults,      \* failing writes and store calls in a behaviour
  MaxKills        \* restarts in a behaviour

Registers == {"current", "program", "switch"}
Values    == Plans \cup {"sem", "safe"}

ASSUME PlanAssumption  == Plans \cap {"sem", "safe"} = {}
ASSUME BoundAssumption == MaxFaults \in Nat /\ MaxKills \in Nat
ASSUME NoSnapshotAssumption == NoSnapshot \notin [Registers -> Values]

VARIABLES
  hw,       \* the inverter's registers
  sys,      \* its System Work Mode: the user's, or cut to zero export
  plan,     \* the settings as the user last made them
  store,    \* sem.deye.snapshot.<entry>.<battery>
  unsafe,   \* sem.deye.unsafe.<entry>.<battery>
  snap,     \* adapter._snapshot
  latched,  \* adapter._unsafe_latched
  marked,   \* adapter._session_first_write_at is not None
  intent,   \* adapter._last_intent
  life,     \* the adapter: "none" built yet, "recover"ing, "ready",
            \* or built under observer mode and "unread": the latch on record was not loaded
  op,       \* the command being awaited: "idle", "open", "restore"
  step,     \* its next write
  allOK,    \* restore: every write so far verified
  caller,   \* who restores: normal, stop, off, rollback
  observer, \* SEM's observer mode
  gates,    \* deye_actuation_enabled and not deye_observer_mode: fixed per lifetime
  over,     \* the decisions have settled on NORMAL
  faults, kills

durable == <<store, unsafe>>
memory  == <<snap, latched, marked, intent, life>>
control == <<op, step, allOK, caller>>
world   == <<plan, observer, gates, over>>
vars == <<hw, sys, durable, memory, control, world, faults, kills>>

Made(p) == [r \in Registers |-> p]
Snapshots   == [Registers -> Values] \cup {NoSnapshot}

TypeOK ==
  /\ hw \in [Registers -> Values] /\ sys \in {"user", "zero"} /\ plan \in Plans
  /\ store \in Snapshots /\ snap \in Snapshots
  /\ unsafe \in BOOLEAN /\ latched \in BOOLEAN /\ marked \in BOOLEAN /\ allOK \in BOOLEAN
  /\ intent \in {"none", "NORMAL", "LIMIT", "FORCE", "STOP", "OFF"}
  /\ life \in {"none", "recover", "ready", "unread"} /\ op \in {"idle", "open", "restore"}
  /\ step \in 1 .. 7 /\ caller \in {"none", "normal", "stop", "off", "rollback"}
  /\ observer \in BOOLEAN /\ gates \in BOOLEAN /\ over \in BOOLEAN
  /\ faults \in 0 .. MaxFaults /\ kills \in 0 .. MaxKills

FreshAdapter ==
  /\ snap' = NoSnapshot /\ latched' = FALSE /\ marked' = FALSE
  /\ intent' = "none" /\ life' = "none"

Idle == op = "idle" /\ step = 1 /\ allOK = TRUE /\ caller = "none"
BecomeIdle == op' = "idle" /\ step' = 1 /\ allOK' = TRUE /\ caller' = "none"

Init ==
  /\ plan \in Plans /\ hw = Made(plan) /\ sys = "user"
  /\ store = NoSnapshot /\ unsafe = FALSE
  /\ snap = NoSnapshot /\ latched = FALSE /\ marked = FALSE
  /\ intent = "none" /\ life = "none" /\ Idle
  /\ observer \in BOOLEAN /\ gates \in BOOLEAN
  /\ over = FALSE /\ faults = 0 /\ kills = 0

-----------------------------------------------------------------------------
(* Faults.                                                                 *)

Fault(n) == faults + n <= MaxFaults /\ faults' = faults + n
NoFault  == UNCHANGED faults

\* A write and its read-back: verified, or not verified and then landed or not.
Verified(r, v) == hw' = [hw EXCEPT ![r] = v] /\ NoFault
Failed(r, v)   == Fault(1) /\ (hw' = [hw EXCEPT ![r] = v] \/ UNCHANGED hw)

\* The latch in memory holds at once; its save may fail n times over and is only logged.
PersistLatch(n) ==
  /\ latched' = TRUE
  /\ \/ unsafe' = TRUE /\ NoFault
     \/ UNCHANGED unsafe /\ Fault(n)

\* A store that cannot be read latches as well.
FailClosed ==
  \E f \in 1 .. 2 : Fault(f) /\ latched' = TRUE /\ (IF f = 1 THEN unsafe' = TRUE ELSE UNCHANGED unsafe)

-----------------------------------------------------------------------------
(* Restore: current to 0 and switch off first, then the user's values; the *)
(* record goes when all of them verified.                                  *)

\* The register of a restore's write s, and its value.
RestoreTo(s) == IF s \in {1, 4} THEN "current" ELSE IF s = 3 THEN "program" ELSE "switch"
RestoreValue(s) == IF s <= 2 THEN "safe" ELSE snap[RestoreTo(s)]

\* The next step of a restore; without the safe state, or with a write unverified, it ends in the latch.
AfterRestoreWrite(s, ok) ==
  IF s = 2 THEN (IF ok THEN 3 ELSE 7)
  ELSE IF s = 5 THEN (IF ok THEN 6 ELSE 7) ELSE s + 1

\* The scope check comes first: a snapshot that does not fit the inverter any more is not replayed.
StartRestore(c) ==
  /\ op' = "restore" /\ allOK' = TRUE /\ caller' = c
  /\ \/ step' = 1 /\ NoFault
     \/ step' = 7 /\ Fault(1)

RestoreStep ==
  /\ op = "restore" /\ step <= 5
  /\ \/ /\ Verified(RestoreTo(step), RestoreValue(step))
        /\ step' = AfterRestoreWrite(step, allOK) /\ UNCHANGED allOK
     \/ /\ Failed(RestoreTo(step), RestoreValue(step))
        /\ step' = AfterRestoreWrite(step, FALSE) /\ allOK' = FALSE
  /\ marked' = TRUE
  /\ UNCHANGED <<sys, durable, snap, latched, intent, life, op, caller, world, kills>>

\* command_off turns a NORMAL it finds after command_normal into OFF, whichever NORMAL that is.
Recorded(c, i) == IF c = "off" /\ i = "NORMAL" THEN "OFF" ELSE i

\* What a restore that came through records: nothing after a rollback or under the latch.
RestoredIntent ==
  IF latched \/ caller = "rollback" THEN intent
  ELSE IF caller = "stop" THEN "STOP" ELSE "NORMAL"

\* Everything verified: the record is cleared, or kept when the store refuses.
ClearStep ==
  /\ op = "restore" /\ step = 6
  /\ \/ /\ store' = NoSnapshot /\ snap' = NoSnapshot /\ marked' = FALSE /\ NoFault
        /\ intent' = Recorded(caller, RestoredIntent) /\ BecomeIdle
     \/ /\ Fault(1) /\ step' = 7
        /\ UNCHANGED <<store, snap, marked, intent, op, allOK, caller>>
  /\ UNCHANGED <<hw, sys, unsafe, latched, life, world, kills>>

MutLatchStep ==
  /\ op = "restore" /\ step = 7
  /\ PersistLatch(1) /\ store' = NoSnapshot /\ snap' = NoSnapshot
  /\ intent' = Recorded(caller, intent) /\ BecomeIdle
  /\ UNCHANGED <<hw, sys, marked, life, world, kills>>

\* A restore that did not come through: the write path latches by itself, the rollback latches again,
\* command_normal and the stop latch only when nothing did.
LatchStep ==
  /\ op = "restore" /\ step = 7
  /\ LET attempts == (IF allOK THEN 0 ELSE 1) + (IF caller = "rollback" THEN 1 ELSE 0) IN
       IF attempts > 0 THEN PersistLatch(attempts)
       ELSE IF latched THEN UNCHANGED <<latched, unsafe, faults>> ELSE PersistLatch(1)
  /\ intent' = Recorded(caller, intent) /\ BecomeIdle
  /\ UNCHANGED <<hw, sys, store, snap, marked, life, world, kills>>

-----------------------------------------------------------------------------
(* The commands.  Each begins by loading the pending snapshot.             *)

Loaded == IF snap = NoSnapshot THEN store ELSE snap

\* The load is a store call only while no snapshot is in memory.
LoadFails ==
  /\ snap = NoSnapshot
  /\ FailClosed /\ UNCHANGED <<snap, control>>

\* command_normal, as itself (i = NORMAL), under command_off, or as the stop's twin (i = STOP).
Return(c, i) ==
  \/ LoadFails /\ intent' = Recorded(c, intent)
  \/ /\ Loaded = NoSnapshot
     /\ intent' = Recorded(c, IF latched THEN intent ELSE i)
     /\ NoFault /\ UNCHANGED <<snap, latched, unsafe, control>>
  \/ /\ Loaded # NoSnapshot /\ ~gates
     /\ snap' = Loaded /\ intent' = Recorded(c, intent)     \* held until the gates open
     /\ NoFault /\ UNCHANGED <<latched, unsafe, control>>
  \/ /\ Loaded # NoSnapshot /\ gates
     /\ snap' = Loaded /\ StartRestore(c)
     /\ UNCHANGED <<intent, latched, unsafe>>

Normal == Return("normal", "NORMAL")
Off    == intent # "OFF" /\ Return("off", "NORMAL")
Stop   == intent # "STOP" /\ Return("stop", "STOP")
Limit  == intent' = "LIMIT" /\ NoFault /\ UNCHANGED <<snap, latched, unsafe, control>>

\* A pending snapshot is this session's heartbeat, or another life's: then nothing is opened over it.
Reissue ==
  /\ Loaded # NoSnapshot
  /\ snap' = Loaded /\ NoFault /\ UNCHANGED <<store, unsafe, latched, intent, control>>

\* A new session: snapshot saved and read back before anything is written.  A first write already
\* marked makes the new snapshot invalid.
Open ==
  /\ Loaded = NoSnapshot
  /\ \/ /\ marked /\ NoFault
        /\ UNCHANGED <<store, snap, op>>
     \/ /\ ~marked /\ Fault(1)                            \* the save fails, or only its read-back
        /\ store' \in {store, hw} /\ UNCHANGED <<snap, op>>
     \/ /\ ~marked /\ NoFault
        /\ store' = hw /\ snap' = hw /\ op' = "open"
  /\ UNCHANGED <<unsafe, latched, intent, step, allOK, caller>>

SupportsForcedCharge == gates /\ ~latched

ForceCharge ==
  /\ SupportsForcedCharge
  /\ \/ LoadFails /\ UNCHANGED <<store, intent>>
     \/ Reissue
     \/ Open

OpenWrite(s) == IF s = 1 THEN "current" ELSE IF s = 2 THEN "program" ELSE "switch"

MutOpenStep ==
  /\ op = "open" /\ step <= 3
  /\ \/ Verified(OpenWrite(4 - step), "sem") /\ step' = step + 1 /\ UNCHANGED <<op, allOK, caller>>
     \/ Failed(OpenWrite(4 - step), "sem") /\ op' = "restore" /\ step' = 1 /\ allOK' = TRUE /\ caller' = "rollback"
  /\ marked' = TRUE
  /\ UNCHANGED <<sys, durable, snap, latched, intent, life, world, kills>>

\* The session's writes: current, programs, and the grid-charge switch last.
OpenStep ==
  /\ op = "open" /\ step <= 3
  /\ \/ Verified(OpenWrite(step), "sem") /\ step' = step + 1 /\ UNCHANGED <<op, allOK, caller>>
     \/ Failed(OpenWrite(step), "sem") /\ op' = "restore" /\ step' = 1 /\ allOK' = TRUE /\ caller' = "rollback"
  /\ marked' = TRUE
  /\ UNCHANGED <<sys, durable, snap, latched, intent, life, world, kills>>

\* A last look at the scope; then the session stands.
OpenDone ==
  /\ op = "open" /\ step = 4
  /\ \/ intent' = "FORCE" /\ NoFault /\ BecomeIdle
     \/ Fault(1) /\ op' = "restore" /\ step' = 1 /\ allOK' = TRUE /\ caller' = "rollback" /\ UNCHANGED intent
  /\ UNCHANGED <<hw, sys, durable, snap, latched, marked, life, world, kills>>

-----------------------------------------------------------------------------
(* The coordinator's cycle.                                                *)

\* The first cycle builds the adapter and recovers it, unless SEM only observes: then nobody ever does.  The latch is
\* loaded fail-closed; a latched scope is not recovered.
Build ==
  /\ life = "none" /\ op = "idle"
  /\ \/ observer /\ life' = "unread" /\ NoFault /\ UNCHANGED <<latched, unsafe>>
     \/ /\ ~observer
        /\ \/ latched' = unsafe /\ NoFault /\ UNCHANGED unsafe
           \/ FailClosed
        /\ life' = IF latched' THEN "ready" ELSE "recover"
  /\ UNCHANGED <<hw, sys, store, snap, marked, intent, control, world, kills>>

Recover ==
  /\ life = "recover" /\ op = "idle" /\ Normal /\ life' = "ready"
  /\ UNCHANGED <<hw, sys, store, marked, world, kills>>

\* A cycle dispatches nothing in observer mode.
Dispatching == life \in {"ready", "unread"} /\ op = "idle" /\ ~observer

MutNormalCycle ==
  /\ Dispatching /\ ~latched /\ Normal
  /\ UNCHANGED <<hw, sys, store, marked, life, world, kills>>

NormalCycle ==
  /\ Dispatching /\ Normal
  /\ UNCHANGED <<hw, sys, store, marked, life, world, kills>>

\* Until the decisions settle they may be anything.
OtherCycle ==
  /\ Dispatching /\ ~over
  /\ \/ ForceCharge
     \/ (Off \/ Stop \/ Limit) /\ UNCHANGED store
  /\ UNCHANGED <<hw, sys, marked, life, world, kills>>

\* The export guard's verb on this adapter writes the System Work Mode with the same verified write.
ExportVerb ==
  /\ Dispatching /\ ~over
  /\ \/ sys' \in {"user", "zero"} \ {sys} /\ NoFault
     \/ sys' \in {"user", "zero"} /\ Fault(1)
  /\ marked' = TRUE
  /\ UNCHANGED <<hw, durable, snap, latched, intent, life, control, world, kills>>

-----------------------------------------------------------------------------
(* The world.                                                              *)

\* The user edits his programs while SEM holds no record of them.
UserEdit ==
  /\ store = NoSnapshot /\ op = "idle" /\ hw = Made(plan)
  /\ plan' \in Plans /\ hw' = Made(plan')
  /\ UNCHANGED <<sys, durable, memory, control, observer, gates, over, faults, kills>>

ToggleObserver ==
  /\ observer' = ~observer
  /\ UNCHANGED <<hw, sys, durable, memory, control, plan, gates, over, faults, kills>>

\* The process ends at any point, and a new one starts; the options may have changed with it.
Kill ==
  /\ kills < MaxKills /\ kills' = kills + 1
  /\ FreshAdapter /\ BecomeIdle /\ gates' \in BOOLEAN
  /\ UNCHANGED <<hw, sys, durable, plan, observer, over, faults>>

Settle ==
  /\ ~over /\ over' = TRUE
  /\ UNCHANGED <<hw, sys, durable, memory, control, plan, observer, gates, faults, kills>>

Command == RestoreStep \/ ClearStep \/ LatchStep \/ OpenStep \/ OpenDone
Next ==
  \/ Command \/ Build \/ Recover \/ NormalCycle \/ OtherCycle \/ ExportVerb
  \/ UserEdit \/ ToggleObserver \/ Kill \/ Settle

\* The update loop runs: an awaited command goes on, an adapter is built, a cycle dispatches.
Fairness == WF_vars(Command) /\ WF_vars(Build) /\ WF_vars(Recover) /\ WF_vars(NormalCycle)

Spec == Init /\ [][Next]_vars /\ Fairness
-----------------------------------------------------------------------------
(* Properties.                                                             *)

\* The grid-charge switch SEM turned on never stands over a program or a charge current that is the
\* user's or half written: opened last, closed first, also across failures, rollbacks and restarts.
ChargesOnlyOnPlan ==
  hw["switch"] = "sem" => hw["program"] = "sem" /\ hw["current"] \in {"sem", "safe"}

\* Wherever a write, a store call or the process dies, the user's settings can be given back: the durable
\* snapshot is exactly them before anything is written, never a picture of what SEM wrote, and goes only
\* when the inverter holds them again.
Log == INSTANCE UndoLog WITH Settings <- {Made(p) : p \in Plans}, NoRecord <- NoSnapshot,
  own <- Made(plan), record <- store, dirty <- hw # Made(plan)
UndoesItself == Log!Spec

\* Once the decisions have settled on NORMAL, with the gates open and SEM not merely observing, the
\* inverter ends with the user's settings and no record of them.
HandedBack ==
  <>[](over /\ gates /\ ~observer) => <>[](hw = Made(plan) /\ store = NoSnapshot)
=============================================================================
