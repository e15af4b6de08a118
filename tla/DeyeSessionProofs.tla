------------------------- MODULE DeyeSessionProofs -------------------------
(***************************************************************************)
(* What DeyeSession keeps for every set of user settings and any number of *)
(* failing calls and restarts: the charge stands on SEM's plan only, and   *)
(* the snapshot is an undo log of the user's settings.                     *)
(***************************************************************************)
EXTENDS DeyeSession, TLAPS

-----------------------------------------------------------------------------
(* Types.                                                                  *)

\* The type invariant in four parts.
Data   == hw \in [Registers -> Values] /\ plan \in Plans /\ store \in Snapshots /\ snap \in Snapshots
Flags  == /\ unsafe \in BOOLEAN /\ latched \in BOOLEAN /\ marked \in BOOLEAN /\ allOK \in BOOLEAN
          /\ observer \in BOOLEAN /\ gates \in BOOLEAN /\ over \in BOOLEAN
Places == /\ sys \in {"user", "zero"} /\ intent \in {"none", "NORMAL", "LIMIT", "FORCE", "STOP", "OFF"}
          /\ life \in {"none", "recover", "ready", "unread"} /\ op \in {"idle", "open", "restore"}
          /\ step \in 1 .. 7 /\ caller \in {"none", "normal", "stop", "off", "rollback"}
Bounds == faults \in 0 .. MaxFaults /\ kills \in 0 .. MaxKills

LEMMA TypeParts == TypeOK <=> Data /\ Flags /\ Places /\ Bounds
BY DEF TypeOK, Data, Flags, Places, Bounds

LEMMA TypePartsNext == (Data /\ Flags /\ Places /\ Bounds)' => TypeOK'
BY DEF TypeOK, Data, Flags, Places, Bounds

LEMMA MadeFacts ==
  ASSUME NEW p \in Plans
  PROVE  /\ Made(p) \in [Registers -> Values] /\ Made(p) # NoSnapshot
         /\ \A r \in Registers : Made(p)[r] = p
         /\ p # "sem" /\ p # "safe"
BY PlanAssumption, NoSnapshotAssumption DEF Made, Values

\* A write keeps the other registers.
LEMMA WriteFacts ==
  ASSUME hw \in [Registers -> Values], NEW r \in Registers, NEW v \in Values
  PROVE  /\ [hw EXCEPT ![r] = v] \in [Registers -> Values]
         /\ [hw EXCEPT ![r] = v][r] = v
         /\ \A q \in Registers \ {r} : [hw EXCEPT ![r] = v][q] = hw[q]
OBVIOUS

LEMMA FaultTypes ==
  ASSUME faults \in 0 .. MaxFaults, NEW n \in Nat, NoFault \/ Fault(n)
  PROVE  faults' \in 0 .. MaxFaults
BY BoundAssumption DEF NoFault, Fault

LEMMA FailClosedTypes ==
  ASSUME TypeOK, FailClosed
  PROVE  latched' \in BOOLEAN /\ unsafe' \in BOOLEAN /\ faults' \in 0 .. MaxFaults
<1>1. PICK f \in 1 .. 2 : Fault(f) /\ latched' = TRUE /\ (IF f = 1 THEN unsafe' = TRUE ELSE UNCHANGED unsafe)
  BY DEF FailClosed
<1>2. faults' \in 0 .. MaxFaults
  BY <1>1, FaultTypes DEF TypeOK
<1> QED
  BY <1>1, <1>2 DEF TypeOK

LEMMA PersistTypes ==
  ASSUME TypeOK, NEW n \in Nat, PersistLatch(n)
  PROVE  latched' \in BOOLEAN /\ unsafe' \in BOOLEAN /\ faults' \in 0 .. MaxFaults
BY FaultTypes DEF PersistLatch, TypeOK

-----------------------------------------------------------------------------
(* The invariant.                                                          *)

\* The record: what is not recorded is in the inverter, what is recorded is the user's, and a command
\* that writes holds the record in memory.
Kept ==
  /\ store = NoSnapshot => hw = Made(plan)
  /\ store # NoSnapshot => store = Made(plan)
  /\ snap # NoSnapshot => snap = store
  /\ op # "idle" => snap # NoSnapshot

\* How far an opening has come; the next command begins with its first write.
Opening ==
  /\ op = "idle" => step = 1
  /\ op = "open" =>
       /\ step <= 4
       /\ step > 1 => hw["current"] = "sem"
       /\ step > 2 => hw["program"] = "sem"

\* How far a restore has come: nothing of the user's is written before charging is off, and what has been
\* verified is back.
Restoring ==
  op = "restore" =>
    /\ step \in 3 .. 5 => hw["switch"] = "safe"
    /\ step = 3 => allOK
    /\ step \in 4 .. 6 /\ allOK => hw["program"] = plan
    /\ step \in 5 .. 6 /\ allOK => hw["current"] = plan
    /\ step = 6 => allOK /\ hw["switch"] = plan

Safe == Kept /\ Opening /\ Restoring /\ ChargesOnlyOnPlan
IInv == TypeOK /\ Safe

-----------------------------------------------------------------------------
(* What the steps have in common.                                          *)

LEMMA InitInv == Init => IInv
<1> SUFFICES ASSUME Init PROVE IInv
  OBVIOUS
<1>1. hw = Made(plan) /\ plan \in Plans /\ store = NoSnapshot /\ snap = NoSnapshot /\ op = "idle" /\ step = 1
  BY DEF Init, Idle
<1>2. TypeOK
  <2>1. Data
    BY <1>1, MadeFacts DEF Data, Snapshots
  <2>2. Flags
    BY DEF Init, Idle, Flags
  <2>3. Places /\ Bounds
    BY BoundAssumption DEF Init, Idle, Places, Bounds
  <2> QED
    BY <2>1, <2>2, <2>3, TypeParts
<1>3. Safe
  BY <1>1, MadeFacts DEF Safe, Kept, Opening, Restoring, ChargesOnlyOnPlan, Registers
<1> QED
  BY <1>2, <1>3 DEF IInv

\* The inverter holds the user's settings exactly when each of its registers does.
LEMMA SettingsByRegister ==
  ASSUME TypeOK
  PROVE  hw = Made(plan) <=> hw["current"] = plan /\ hw["program"] = plan /\ hw["switch"] = plan
BY DEF TypeOK, Made, Registers

\* Steps that write nothing and move no command.
LEMMA QuietStep ==
  ASSUME Safe, UNCHANGED <<hw, plan, store, snap, op, step, allOK>>
  PROVE  Safe'
BY DEF Safe, Kept, Opening, Restoring, ChargesOnlyOnPlan, Made

\* A command given up, or over, under its record.
LEMMA BackToIdle ==
  ASSUME Safe, UNCHANGED <<hw, plan, store>>, snap' \in {snap, NoSnapshot, store}, op' = "idle", step' = 1
  PROVE  Safe'
BY DEF Safe, Kept, Opening, Restoring, ChargesOnlyOnPlan, Made

\* A restore begins under the record.
LEMMA RestoreBegins ==
  ASSUME Safe, UNCHANGED <<hw, plan, store>>, snap' = store, store # NoSnapshot,
         op' = "restore", step' \in {1, 7}, allOK' = TRUE
  PROVE  Safe'
BY DEF Safe, Kept, Opening, Restoring, ChargesOnlyOnPlan, Made

\* The snapshot a command loads is the record.
LEMMA LoadedIsStore ==
  ASSUME Safe
  PROVE  Loaded = store
BY DEF Safe, Kept, Loaded

LEMMA LoadFailsTypes ==
  ASSUME TypeOK, LoadFails
  PROVE  latched' \in BOOLEAN /\ unsafe' \in BOOLEAN /\ faults' \in 0 .. MaxFaults
BY FailClosedTypes DEF LoadFails

-----------------------------------------------------------------------------
(* The actions.                                                            *)

LEMMA RestoreStepInv == IInv /\ RestoreStep => IInv'
<1> SUFFICES ASSUME IInv, RestoreStep PROVE IInv'
  OBVIOUS
<1> DEFINE r == RestoreTo(step)
           v == RestoreValue(step)
<1>1. op = "restore" /\ step \in 1 .. 5 /\ allOK \in BOOLEAN
  BY DEF IInv, TypeOK, RestoreStep
<1>2. snap = Made(plan) /\ store = snap /\ plan \in Plans
  BY <1>1 DEF IInv, TypeOK, Safe, Kept
<1>3. r \in Registers /\ v = (IF step <= 2 THEN "safe" ELSE plan) /\ v \in Values
  BY <1>1, <1>2, MadeFacts DEF RestoreTo, RestoreValue, Registers, Values
<1>4. /\ hw' = [hw EXCEPT ![r] = v] \/ UNCHANGED hw
      /\ \/ hw' = [hw EXCEPT ![r] = v] /\ step' = AfterRestoreWrite(step, allOK) /\ allOK' = allOK
         \/ step' = AfterRestoreWrite(step, FALSE) /\ allOK' = FALSE
      /\ NoFault \/ Fault(1)
      /\ marked' = TRUE
      /\ UNCHANGED <<sys, durable, snap, latched, intent, life, op, caller, world, kills>>
  BY DEF RestoreStep, Verified, Failed
<1> HIDE DEF v
<1>5. TypeOK'
  <2>1. hw' \in [Registers -> Values]
    BY <1>3, <1>4, WriteFacts DEF IInv, TypeOK
  <2>2. step' \in 1 .. 7 /\ allOK' \in BOOLEAN
    <3>1. \A s \in 1 .. 5, ok \in BOOLEAN : AfterRestoreWrite(s, ok) \in 1 .. 7
      BY DEF AfterRestoreWrite
    <3> QED
      BY <1>1, <1>4, <3>1
  <2>3. faults' \in 0 .. MaxFaults
    BY <1>4, FaultTypes DEF IInv, TypeOK
  <2> QED
    BY <1>4, <2>1, <2>2, <2>3 DEF IInv, TypeOK, durable, world
<1>6. Kept'
  BY <1>1, <1>2, <1>4 DEF IInv, Safe, Kept, durable, world, Made
<1>7. Opening'
  BY <1>1, <1>4 DEF Opening
<1>8. Restoring' /\ ChargesOnlyOnPlan'
  <2>0. plan # "sem" /\ plan # "safe" /\ plan' = plan
    BY <1>2, <1>4, MadeFacts DEF world
  <2>1. CASE step = 1
    <3>1. r = "current" /\ v = "safe"
      BY <1>3, <2>1 DEF RestoreTo
    <3>2. step' = 2
      BY <1>4, <2>1 DEF AfterRestoreWrite
    <3> QED
      BY <1>1, <1>3, <1>4, <2>0, <3>1, <3>2, WriteFacts
      DEF IInv, TypeOK, Safe, Restoring, ChargesOnlyOnPlan, Registers
  <2>2. CASE step = 2
    <3>1. r = "switch" /\ v = "safe"
      BY <1>3, <2>2 DEF RestoreTo
    <3>2. step' = 7 \/ (step' = 3 /\ allOK' = TRUE /\ hw' = [hw EXCEPT ![r] = v])
      BY <1>1, <1>4, <2>2 DEF AfterRestoreWrite
    <3> QED
      BY <1>1, <1>3, <1>4, <2>0, <3>1, <3>2, WriteFacts
      DEF IInv, TypeOK, Safe, Restoring, ChargesOnlyOnPlan, Registers
  <2>3. CASE step = 3
    <3>1. r = "program" /\ v = plan
      BY <1>3, <2>3 DEF RestoreTo
    <3>2. step' = 4 /\ (allOK' => hw' = [hw EXCEPT ![r] = v])
      BY <1>1, <1>4, <2>3 DEF AfterRestoreWrite
    <3> QED
      BY <1>1, <1>3, <1>4, <2>0, <2>3, <3>1, <3>2, WriteFacts
      DEF IInv, TypeOK, Safe, Restoring, ChargesOnlyOnPlan, Registers
  <2>4. CASE step = 4
    <3>1. r = "current" /\ v = plan
      BY <1>3, <2>4 DEF RestoreTo
    <3>2. step' = 5 /\ (allOK' => allOK /\ hw' = [hw EXCEPT ![r] = v])
      BY <1>1, <1>4, <2>4 DEF AfterRestoreWrite
    <3> QED
      BY <1>1, <1>3, <1>4, <2>0, <2>4, <3>1, <3>2, WriteFacts
      DEF IInv, TypeOK, Safe, Restoring, ChargesOnlyOnPlan, Registers
  <2>5. CASE step = 5
    <3>1. r = "switch" /\ v = plan
      BY <1>3, <2>5 DEF RestoreTo
    <3>2. step' = 7 \/ (step' = 6 /\ allOK' = TRUE /\ allOK /\ hw' = [hw EXCEPT ![r] = v])
      BY <1>1, <1>4, <2>5 DEF AfterRestoreWrite
    <3> QED
      BY <1>1, <1>3, <1>4, <2>0, <2>5, <3>1, <3>2, WriteFacts
      DEF IInv, TypeOK, Safe, Restoring, ChargesOnlyOnPlan, Registers
  <2> QED
    BY <1>1, <2>1, <2>2, <2>3, <2>4, <2>5
<1> QED
  BY <1>5, <1>6, <1>7, <1>8 DEF IInv, Safe

LEMMA ClearStepInv == IInv /\ ClearStep => IInv'
<1> SUFFICES ASSUME IInv, ClearStep PROVE IInv'
  OBVIOUS
<1>1. op = "restore" /\ step = 6 /\ allOK /\ UNCHANGED <<hw, sys, unsafe, latched, life, world, kills>>
  BY DEF IInv, Safe, Restoring, ClearStep
<1>2. hw = Made(plan)
  BY <1>1, SettingsByRegister DEF IInv, Safe, Restoring
<1>3. CASE store' = NoSnapshot
  <2>1. CASE snap' = NoSnapshot /\ marked' = FALSE /\ NoFault /\ BecomeIdle
             /\ intent' = Recorded(caller, RestoredIntent)
    <3>1. TypeOK'
      <4>1. Data' /\ Bounds'
        BY <1>1, <1>3, <2>1, TypeParts DEF IInv, Data, Bounds, Snapshots, world, NoFault
      <4>2. Flags'
        BY <1>1, <2>1, TypeParts DEF IInv, Flags, BecomeIdle, world
      <4>3. intent' \in {intent, "OFF", "STOP", "NORMAL"}
        BY <2>1 DEF Recorded, RestoredIntent
      <4>4. Places'
        BY <1>1, <2>1, <4>3, TypeParts DEF IInv, Places, BecomeIdle, world
      <4> QED
        BY <4>1, <4>2, <4>4, TypePartsNext
    <3>2. Safe'
      BY <1>1, <1>2, <1>3, <2>1
      DEF IInv, Safe, Kept, Opening, Restoring, ChargesOnlyOnPlan, BecomeIdle, world, Made
    <3> QED
      BY <3>1, <3>2 DEF IInv
  <2>2. CASE ~(snap' = NoSnapshot /\ marked' = FALSE /\ NoFault /\ BecomeIdle
               /\ intent' = Recorded(caller, RestoredIntent))
    BY <1>1, <1>3, <2>2 DEF IInv, Safe, Kept, ClearStep
  <2> QED
    BY <2>1, <2>2
<1>4. CASE Fault(1) /\ step' = 7 /\ UNCHANGED <<store, snap, marked, intent, op, allOK, caller>>
  <2>1. TypeOK'
    BY <1>1, <1>4, FaultTypes DEF IInv, TypeOK, Snapshots, world
  <2>2. Safe'
    BY <1>1, <1>4 DEF IInv, Safe, Kept, Opening, Restoring, ChargesOnlyOnPlan, world, Made
  <2> QED
    BY <2>1, <2>2 DEF IInv
<1> QED
  BY <1>3, <1>4 DEF ClearStep

LEMMA LatchStepInv == IInv /\ LatchStep => IInv'
<1> SUFFICES ASSUME IInv, LatchStep PROVE IInv'
  OBVIOUS
<1>1. latched' \in BOOLEAN /\ unsafe' \in BOOLEAN /\ faults' \in 0 .. MaxFaults
  <2> DEFINE attempts == (IF allOK THEN 0 ELSE 1) + (IF caller = "rollback" THEN 1 ELSE 0)
  <2>1. attempts \in Nat
    BY DEF attempts
  <2>2. CASE attempts > 0
    <3>1. PersistLatch(attempts)
      BY <2>2 DEF LatchStep
    <3> HIDE DEF attempts
    <3> QED
      BY <2>1, <3>1, PersistTypes DEF IInv
  <2>3. CASE ~(attempts > 0)
    <3>1. UNCHANGED <<latched, unsafe, faults>> \/ PersistLatch(1)
      BY <2>3 DEF LatchStep
    <3> QED
      BY <3>1, PersistTypes DEF IInv, TypeOK
  <2> QED
    BY <2>2, <2>3
<1>2. /\ intent' = Recorded(caller, intent) /\ BecomeIdle
      /\ UNCHANGED <<hw, sys, store, snap, marked, life, world, kills>>
  BY DEF LatchStep
<1>3. TypeOK'
  BY <1>1, <1>2 DEF IInv, TypeOK, Snapshots, BecomeIdle, Recorded, world
<1>4. Safe'
  BY <1>2, BackToIdle DEF IInv, BecomeIdle, world
<1> QED
  BY <1>3, <1>4 DEF IInv

LEMMA OpenStepInv == IInv /\ OpenStep => IInv'
<1> SUFFICES ASSUME IInv, OpenStep PROVE IInv'
  OBVIOUS
<1> DEFINE r == OpenWrite(step)
<1>1. op = "open" /\ step \in 1 .. 3 /\ snap # NoSnapshot
  BY DEF IInv, TypeOK, OpenStep, Safe, Kept
<1>2. r \in Registers /\ "sem" \in Values
  BY DEF OpenWrite, Registers, Values
<1>3. /\ hw' = [hw EXCEPT ![r] = "sem"] \/ UNCHANGED hw
      /\ \/ /\ hw' = [hw EXCEPT ![r] = "sem"] /\ step' = step + 1 /\ UNCHANGED <<op, allOK, caller>>
         \/ op' = "restore" /\ step' = 1 /\ allOK' = TRUE /\ caller' = "rollback"
      /\ NoFault \/ Fault(1)
      /\ marked' = TRUE
      /\ UNCHANGED <<sys, durable, snap, latched, intent, life, world, kills>>
  BY DEF OpenStep, Verified, Failed
<1>4. TypeOK'
  <2>1. hw' \in [Registers -> Values]
    BY <1>2, <1>3, WriteFacts DEF IInv, TypeOK
  <2>2. faults' \in 0 .. MaxFaults
    BY <1>3, FaultTypes DEF IInv, TypeOK
  <2>3. Data'
    BY <1>3, <2>1, TypeParts DEF IInv, Data, durable, world
  <2>4. Flags'
    BY <1>3, TypeParts DEF IInv, Flags, durable, world
  <2>5. Places'
    BY <1>1, <1>3, TypeParts DEF IInv, Places, durable, world
  <2> QED
    BY <1>3, <2>2, <2>3, <2>4, <2>5, TypeParts, TypePartsNext DEF IInv, Bounds
<1>5. Kept'
  BY <1>1, <1>3 DEF IInv, Safe, Kept, durable, world, Made
<1>6. Opening' /\ Restoring' /\ ChargesOnlyOnPlan'
  <2>1. CASE step = 1
    BY <1>1, <1>2, <1>3, <2>1, WriteFacts
    DEF OpenWrite, IInv, TypeOK, Safe, Opening, Restoring, ChargesOnlyOnPlan, Registers
  <2>2. CASE step = 2
    BY <1>1, <1>2, <1>3, <2>2, WriteFacts
    DEF OpenWrite, IInv, TypeOK, Safe, Opening, Restoring, ChargesOnlyOnPlan, Registers
  <2>3. CASE step = 3
    BY <1>1, <1>2, <1>3, <2>3, WriteFacts
    DEF OpenWrite, IInv, TypeOK, Safe, Opening, Restoring, ChargesOnlyOnPlan, Registers
  <2> QED
    BY <1>1, <2>1, <2>2, <2>3
<1> QED
  BY <1>4, <1>5, <1>6 DEF IInv, Safe

LEMMA OpenDoneInv == IInv /\ OpenDone => IInv'
<1> SUFFICES ASSUME IInv, OpenDone PROVE IInv'
  OBVIOUS
<1>1. TypeOK'
  <2>1. Data' /\ Flags'
    BY TypeParts DEF IInv, Data, Flags, OpenDone, BecomeIdle, durable, world
  <2>2. Places'
    BY TypeParts DEF IInv, Places, OpenDone, BecomeIdle, world
  <2>3. Bounds'
    BY FaultTypes, TypeParts DEF IInv, Bounds, OpenDone
  <2> QED
    BY <2>1, <2>2, <2>3, TypePartsNext
<1>2. store # NoSnapshot /\ snap = store
  BY DEF IInv, Safe, Kept, OpenDone
<1>3. Safe'
  BY <1>2, BackToIdle, RestoreBegins DEF IInv, OpenDone, BecomeIdle, durable, world
<1> QED
  BY <1>1, <1>3 DEF IInv

LEMMA BuildInv == IInv /\ Build => IInv'
<1> SUFFICES ASSUME IInv, Build PROVE IInv'
  OBVIOUS
<1>1. /\ latched' \in BOOLEAN /\ unsafe' \in BOOLEAN /\ faults' \in 0 .. MaxFaults
      /\ life' \in {"unread", "ready", "recover"}
  BY FailClosedTypes, FaultTypes DEF Build, IInv, TypeOK
<1>2. UNCHANGED <<hw, sys, store, snap, marked, intent, control, world, kills>>
  BY DEF Build
<1>3. TypeOK'
  BY <1>1, <1>2 DEF IInv, TypeOK, control, world
<1>4. Safe'
  BY <1>2, QuietStep DEF IInv, control, world
<1> QED
  BY <1>3, <1>4 DEF IInv

\* What a return to normal may do besides starting a restore.
LEMMA ReturnInv ==
  ASSUME IInv, NEW c \in {"normal", "stop", "off"}, NEW i \in {"NORMAL", "STOP"}, Return(c, i),
         UNCHANGED <<hw, sys, store, marked, world, kills>>, life' \in {life, "ready"}
  PROVE  IInv'
<1>1. Loaded = store /\ (snap # NoSnapshot => snap = store)
  BY LoadedIsStore DEF IInv, Safe, Kept
<1>2. \A j : Recorded(c, j) \in {j, "OFF"}
  BY DEF Recorded
<1>3. CASE LoadFails /\ intent' = Recorded(c, intent)
  <2>1. UNCHANGED <<snap, control>>
    BY <1>3 DEF LoadFails
  <2>2. Data' /\ Flags' /\ Bounds'
    BY <1>3, <2>1, LoadFailsTypes, TypeParts DEF IInv, Data, Flags, Bounds, control, world
  <2>3. Places'
    BY <1>2, <1>3, <2>1, TypeParts DEF IInv, Places, control, world
  <2>4. Safe'
    BY <2>1, QuietStep DEF IInv, control, world
  <2> QED
    BY <2>2, <2>3, <2>4, TypePartsNext DEF IInv
<1>4. CASE /\ intent' \in {intent, i, "OFF"}
           /\ snap' \in {snap, store} /\ NoFault /\ UNCHANGED <<latched, unsafe, control>>
  <2>1. Data' /\ Flags' /\ Bounds'
    BY <1>4, TypeParts DEF IInv, Data, Flags, Bounds, control, world, NoFault
  <2>2. Places'
    BY <1>4, TypeParts DEF IInv, Places, control, world
  <2>3. Safe'
    BY <1>1, <1>4 DEF IInv, Safe, Kept, Opening, Restoring, ChargesOnlyOnPlan, control, world, Made
  <2> QED
    BY <2>1, <2>2, <2>3, TypePartsNext DEF IInv
<1>5. CASE /\ store # NoSnapshot /\ snap' = store /\ StartRestore(c)
           /\ UNCHANGED <<intent, latched, unsafe>>
  <2>1. Data' /\ Flags'
    BY <1>5, TypeParts DEF IInv, Data, Flags, StartRestore, world
  <2>2. Places' /\ Bounds'
    BY <1>5, TypeParts, FaultTypes DEF IInv, Places, Bounds, StartRestore, world
  <2>3. Safe'
    BY <1>5, RestoreBegins DEF IInv, StartRestore, world
  <2> QED
    BY <2>1, <2>2, <2>3, TypePartsNext DEF IInv
<1>6. \/ LoadFails /\ intent' = Recorded(c, intent)
      \/ /\ intent' \in {intent, i, "OFF"}
         /\ snap' \in {snap, store} /\ NoFault /\ UNCHANGED <<latched, unsafe, control>>
      \/ /\ store # NoSnapshot /\ snap' = store /\ StartRestore(c)
         /\ UNCHANGED <<intent, latched, unsafe>>
  BY <1>1, <1>2 DEF Return
<1> QED
  BY <1>3, <1>4, <1>5, <1>6

LEMMA RecoverInv == IInv /\ Recover => IInv'
BY ReturnInv DEF Recover, Normal

LEMMA NormalCycleInv == IInv /\ NormalCycle => IInv'
BY ReturnInv DEF NormalCycle, Normal

\* A session's snapshot is taken of the user's settings: nothing is recorded, so the inverter has them.
LEMMA ForceChargeInv ==
  ASSUME IInv, ForceCharge, op = "idle", UNCHANGED <<hw, sys, marked, life, world, kills>>
  PROVE  IInv'
<1>1. Loaded = store
  BY LoadedIsStore DEF IInv
<1>2. CASE LoadFails /\ UNCHANGED <<store, intent>>
  <2>1. UNCHANGED <<snap, control>>
    BY <1>2 DEF LoadFails
  <2>2. TypeOK'
    BY <1>2, <2>1, LoadFailsTypes DEF IInv, TypeOK, control, world
  <2>3. Safe'
    BY <1>2, <2>1, QuietStep DEF IInv, control, world
  <2> QED
    BY <2>2, <2>3 DEF IInv
<1>3. CASE Reissue
  <2>1. TypeOK'
    BY <1>1, <1>3 DEF IInv, TypeOK, Reissue, control, world, NoFault
  <2>2. Safe'
    BY <1>1, <1>3
    DEF IInv, Safe, Kept, Opening, Restoring, ChargesOnlyOnPlan, Reissue, control, world, Made
  <2> QED
    BY <2>1, <2>2 DEF IInv
<1>4. CASE Open
  <2>1. store = NoSnapshot /\ hw = Made(plan) /\ plan \in Plans /\ snap = NoSnapshot
    BY <1>1, <1>4 DEF Open, IInv, TypeOK, Safe, Kept
  <2>2. hw # NoSnapshot /\ hw["switch"] # "sem" /\ step \in 1 .. 7
    BY <2>1, MadeFacts DEF Registers, IInv, TypeOK
  <2>3. /\ faults' \in 0 .. MaxFaults
        /\ UNCHANGED <<unsafe, latched, intent, step, allOK, caller>>
        /\ \/ UNCHANGED <<snap, op>> /\ store' \in {store, hw}
           \/ store' = hw /\ snap' = hw /\ op' = "open"
    BY <1>4, FaultTypes DEF Open, IInv, TypeOK
  <2>4. TypeOK'
    <3>1. Data'
      BY <2>3, TypeParts DEF IInv, Data, world, Snapshots
    <3>2. Flags' /\ Places' /\ Bounds'
      BY <2>3, TypeParts DEF IInv, Flags, Places, Bounds, world
    <3> QED
      BY <3>1, <3>2, TypePartsNext
  <2>5. Safe'
    <3>1. hw' = hw /\ plan' = plan /\ store' \in {NoSnapshot, Made(plan)}
      BY <2>1, <2>3 DEF world
    <3>2. step = 1
      BY DEF IInv, Safe, Opening
    <3> QED
      BY <2>1, <2>2, <2>3, <3>1, <3>2
      DEF IInv, Safe, Kept, Opening, Restoring, ChargesOnlyOnPlan, Made
  <2> QED
    BY <2>4, <2>5 DEF IInv
<1> QED
  BY <1>2, <1>3, <1>4 DEF ForceCharge

LEMMA OtherCycleInv == IInv /\ OtherCycle => IInv'
<1> SUFFICES ASSUME IInv, OtherCycle PROVE IInv'
  OBVIOUS
<1>1. op = "idle" /\ UNCHANGED <<hw, sys, marked, life, world, kills>>
  BY DEF OtherCycle, Dispatching
<1>2. CASE ForceCharge
  BY <1>1, <1>2, ForceChargeInv
<1>3. CASE (Off \/ Stop) /\ UNCHANGED store
  BY <1>1, <1>3, ReturnInv DEF Off, Stop
<1>4. CASE Limit /\ UNCHANGED store
  <2>1. TypeOK'
    BY <1>1, <1>4 DEF IInv, TypeOK, Limit, control, world, NoFault
  <2>2. Safe'
    BY <1>1, <1>4, QuietStep DEF IInv, Limit, control, world
  <2> QED
    BY <2>1, <2>2 DEF IInv
<1> QED
  BY <1>2, <1>3, <1>4 DEF OtherCycle

\* The verb of the export guard touches none of it.
LEMMA ExportVerbInv == IInv /\ ExportVerb => IInv'
<1> SUFFICES ASSUME IInv, ExportVerb PROVE IInv'
  OBVIOUS
<1>1. /\ sys' \in {"user", "zero"} /\ marked' = TRUE /\ (NoFault \/ Fault(1))
      /\ UNCHANGED <<hw, durable, snap, latched, intent, life, control, world, kills>>
  BY DEF ExportVerb
<1>2. TypeOK'
  BY <1>1, FaultTypes DEF IInv, TypeOK, durable, control, world
<1>3. Safe'
  BY <1>1, QuietStep DEF IInv, durable, control, world
<1> QED
  BY <1>2, <1>3 DEF IInv

LEMMA UserEditInv == IInv /\ UserEdit => IInv'
<1> SUFFICES ASSUME IInv, UserEdit PROVE IInv'
  OBVIOUS
<1>1. /\ store = NoSnapshot /\ op = "idle" /\ plan' \in Plans /\ hw' = Made(plan')
      /\ UNCHANGED <<sys, durable, memory, control, observer, gates, over, faults, kills>>
  BY DEF UserEdit
<1>2. hw' \in [Registers -> Values] /\ hw'["switch"] # "sem"
  BY <1>1, MadeFacts DEF Registers
<1>3. TypeOK'
  BY <1>1, <1>2 DEF IInv, TypeOK, durable, memory, control
<1>4. Safe'
  BY <1>1, <1>2
  DEF IInv, Safe, Kept, Opening, Restoring, ChargesOnlyOnPlan, durable, memory, control
<1> QED
  BY <1>3, <1>4 DEF IInv

\* A kill leaves the inverter and the record as they are: whatever the next life does, it has both.
LEMMA KillInv == IInv /\ Kill => IInv'
<1> SUFFICES ASSUME IInv, Kill PROVE IInv'
  OBVIOUS
<1>1. Data' /\ Flags'
  BY TypeParts DEF IInv, Data, Flags, Snapshots, Kill, FreshAdapter, BecomeIdle, durable
<1>2. Places' /\ Bounds'
  BY TypeParts, BoundAssumption DEF IInv, Places, Bounds, Kill, FreshAdapter, BecomeIdle
<1>3. Safe'
  BY BackToIdle DEF IInv, Kill, FreshAdapter, BecomeIdle, durable
<1> QED
  BY <1>1, <1>2, <1>3, TypePartsNext DEF IInv

LEMMA WorldInv == IInv /\ (ToggleObserver \/ Settle) => IInv'
<1> SUFFICES ASSUME IInv, ToggleObserver \/ Settle PROVE IInv'
  OBVIOUS
<1>1. observer' \in BOOLEAN /\ over' \in BOOLEAN
      /\ UNCHANGED <<hw, sys, durable, memory, control, plan, gates, faults, kills>>
  BY DEF ToggleObserver, Settle, IInv, TypeOK
<1>2. TypeOK'
  BY <1>1 DEF IInv, TypeOK, durable, memory, control
<1>3. Safe'
  BY <1>1, QuietStep DEF IInv, durable, memory, control
<1> QED
  BY <1>2, <1>3 DEF IInv

LEMMA StutterInv == IInv /\ UNCHANGED vars => IInv'
<1> SUFFICES ASSUME IInv, UNCHANGED vars PROVE IInv'
  OBVIOUS
<1>1. TypeOK'
  BY DEF IInv, TypeOK, vars, durable, memory, control, world
<1>2. Safe'
  BY QuietStep DEF IInv, vars, durable, memory, control, world
<1> QED
  BY <1>1, <1>2 DEF IInv

-----------------------------------------------------------------------------
(* The theorems.                                                           *)

LEMMA Invariance == Spec => []IInv
<1>1. IInv /\ [Next]_vars => IInv'
  BY RestoreStepInv, ClearStepInv, LatchStepInv, OpenStepInv, OpenDoneInv, BuildInv, RecoverInv,
     NormalCycleInv, OtherCycleInv, ExportVerbInv, UserEditInv, KillInv, WorldInv, StutterInv
  DEF Next, Command
<1> QED
  BY InitInv, <1>1, PTL DEF Spec

\* The registers, the two durable records and the adapter stay within their types.
THEOREM TypeCorrect == Spec => []TypeOK
<1>1. IInv => TypeOK
  BY DEF IInv
<1> QED
  BY Invariance, <1>1, PTL

\* The grid-charge switch SEM turned on stands only over SEM's whole plan, for any settings of the user's
\* and any number of failing writes, failing store calls and kills (deye.py, opened last, closed first).
THEOREM ChargesOnPlan == Spec => []ChargesOnlyOnPlan
<1>1. IInv => ChargesOnlyOnPlan
  BY DEF IInv, Safe
<1> QED
  BY Invariance, <1>1, PTL

-----------------------------------------------------------------------------
(* The snapshot as an undo log.                                            *)

\* A step that neither writes the inverter nor the record, nor the user's settings, is nothing to the log.
LEMMA LogStutter ==
  ASSUME UNCHANGED <<hw, plan, store>>
  PROVE  UNCHANGED Log!vars
BY DEF Log!vars, Made

LEMMA LogInit == Init => Log!Init
BY DEF Init, Log!Init

\* Each write of a command is one of the log's, under its record.
LEMMA LogWrites ==
  ASSUME IInv, RestoreStep \/ OpenStep
  PROVE  Log!Write
<1>1. store = Made(plan)
  BY DEF IInv, Safe, Kept, RestoreStep, OpenStep
<1>2. UNCHANGED <<plan, store>>
  BY DEF RestoreStep, OpenStep, durable, world
<1> QED
  BY <1>1, <1>2 DEF Log!Write, Made

\* The record of a restore goes with every register back.
LEMMA LogForgets == IInv /\ ClearStep => [Log!Next]_(Log!vars)
<1> SUFFICES ASSUME IInv, ClearStep PROVE [Log!Next]_(Log!vars)
  OBVIOUS
<1>1. hw = Made(plan) /\ store # NoSnapshot /\ UNCHANGED <<hw, plan>>
  BY SettingsByRegister DEF IInv, Safe, Restoring, Kept, ClearStep, world
<1>2. CASE store' = NoSnapshot
  BY <1>1, <1>2 DEF Log!Next, Log!Forget, Made
<1>3. CASE UNCHANGED store
  BY <1>1, <1>3, LogStutter
<1> QED
  BY <1>2, <1>3 DEF ClearStep

\* The record of an opening is made of the user's settings, before its first write.
LEMMA LogLogs == IInv /\ OtherCycle => [Log!Next]_(Log!vars)
<1> SUFFICES ASSUME IInv, OtherCycle PROVE [Log!Next]_(Log!vars)
  OBVIOUS
<1>1. UNCHANGED <<hw, plan>>
  BY DEF OtherCycle, world
<1>2. CASE UNCHANGED store
  BY <1>1, <1>2, LogStutter
<1>3. CASE ~UNCHANGED store
  <2>1. store = NoSnapshot /\ store' = hw
    BY <1>3, LoadedIsStore DEF OtherCycle, ForceCharge, Reissue, Open, IInv
  <2>2. hw = Made(plan)
    BY <2>1 DEF IInv, Safe, Kept
  <2> QED
    BY <1>1, <2>1, <2>2 DEF Log!Next, Log!Log, Made
<1> QED
  BY <1>2, <1>3

LEMMA LogEdits == IInv /\ UserEdit => Log!Edit
BY DEF IInv, Safe, Kept, UserEdit, Log!Edit, durable

LEMMA LogQuiet ==
  ASSUME \/ LatchStep \/ OpenDone \/ Build \/ Recover \/ NormalCycle
         \/ ExportVerb \/ ToggleObserver \/ Kill \/ Settle \/ UNCHANGED vars
  PROVE  UNCHANGED Log!vars
<1>1. UNCHANGED <<hw, plan, store>>
  BY DEF LatchStep, OpenDone, Build, Recover, NormalCycle, ExportVerb, ToggleObserver, Kill, Settle,
         vars, durable, world
<1> QED
  BY <1>1, LogStutter

\* The charge implements the undo log: wherever a write, a store call or the process dies, the durable
\* record is the user's settings, made before anything is written and dropped when they are back.
THEOREM ChargeUndoesItself == Spec => UndoesItself
<1>1. IInv /\ [Next]_vars => [Log!Next]_(Log!vars)
  <2> SUFFICES ASSUME IInv, [Next]_vars PROVE [Log!Next]_(Log!vars)
    OBVIOUS
  <2>1. CASE RestoreStep \/ OpenStep
    BY <2>1, LogWrites DEF Log!Next
  <2>2. CASE ClearStep \/ OtherCycle
    BY <2>2, LogForgets, LogLogs
  <2>3. CASE UserEdit
    BY <2>3, LogEdits DEF Log!Next
  <2>4. CASE \/ LatchStep \/ OpenDone \/ Build \/ Recover \/ NormalCycle
             \/ ExportVerb \/ ToggleObserver \/ Kill \/ Settle \/ UNCHANGED vars
    BY <2>4, LogQuiet
  <2> QED
    BY <2>1, <2>2, <2>3, <2>4 DEF Next, Command
<1> QED
  BY Invariance, LogInit, <1>1, PTL DEF Spec, UndoesItself, Log!Spec
=============================================================================
