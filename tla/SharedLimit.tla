----------------------------- MODULE SharedLimit -----------------------------
(***************************************************************************)
(* Several Huawei packs behind one inverter share its one discharge limit   *)
(* entity.  SEM decides every pack on its own; each cycle one pack writes   *)
(* the entity for all of them (coordinator/battery_shared_limit.py), the    *)
(* others send everything but their limit and then take over the writer's   *)
(* record of it.  The module follows one cycle of the battery pipeline      *)
(* (decide all, send one by one, settle the sharing), the commands of the   *)
(* Huawei adapter, and an unload that starts while a cycle is still          *)
(* sending.                                                                  *)
(*                                                                           *)
(* Watts are levels 0 .. MaxW that lie further apart than the actuator's     *)
(* quantisation and the adapter's same-limit skip, so both are equality.     *)
(* What each pack is asked comes from the decision layer, which may ask      *)
(* anything of any pack on any cycle.                                        *)
(***************************************************************************)
EXTENDS Integers, FiniteSets

CONSTANTS
  N,        \* packs on the entity, in fleet order 1 .. N
  MaxW,     \* the packs' maximum discharge, the limit that limits nothing
  Dwell,    \* DISCHARGE_LIMIT_LOWER_DWELL_CYCLES
  Retries,  \* _stop_retries after a stop
  Faults    \* which service calls may fail: "limit", "sale", "stop" (of a
            \* sale), "orphan" (the stop of an operation SEM did not start);
            \* "status": the inverter's status may stay unreadable for a while

ASSUME NAssumption == N \in Nat \ {0, 1}
ASSUME WattAssumption == MaxW \in Nat \ {0}
ASSUME CountAssumption == Dwell \in Nat \ {0} /\ Retries \in Nat
ASSUME FaultAssumption == Faults \subseteq
                             {"limit", "sale", "stop", "orphan", "status"}

Packs == 1 .. N
Watts == 0 .. MaxW
None == -1          \* no limit written, nothing withheld
NoPack == 0

VARIABLES
  limit,       \* the discharge limit the entity holds
  intent,      \* per pack: adapter._last_intent
  record,      \* per pack: adapter._last_discharge_limit_w
  streak,      \* per pack: adapter._limit_lower_streak
  selling,     \* per pack: adapter._forcible_discharging
  retries,     \* per pack: adapter._stop_retries
  liftTried,   \* per pack: adapter._sale_limit_tried
  checked,     \* per pack: adapter._startup_orphan_checked
  orphanStopped, \* the fleet's _orphan_guard for this inverter
  todo,        \* packs whose command this cycle has not been sent
  want,        \* what each pack is asked this cycle
  writer,      \* the pack that writes the limit this cycle
  stopped,     \* a stop went out this cycle
  before,      \* per pack: its record when the cycle began
  saleSent,    \* packs whose sale went out or ran this cycle
  withheld,    \* per pack: the limit write held back this cycle
  settling,    \* every command is out, the sharing is not settled yet
  failed,      \* ghost: a limit write of this cycle was refused
  observer,    \* coordinator._observer_mode, set by the unload
  release,     \* packs the unload has not handed back yet
  waiting,     \* ghost, per pack: clean cycles in a row a 0 W hold was asked
               \* and the entity still let the pack discharge, since another
               \* pack last took its hold back
  capped       \* ghost, per pack: cycles in a row it wrote the limit and its
               \* sale ran under a limit of SEM's own

pack == <<intent, record, streak, selling, retries, liftTried, checked>>
cycle == <<todo, want, writer, stopped, before, saleSent, withheld, settling,
           failed>>
vars == <<limit, pack, orphanStopped, cycle, observer, release, waiting, capped>>

\* Of the last intents only these three are ever asked about; a sale, a forced
\* charge, the stop of either and "none yet" are one value
Intents == {"limit", "normal", "off", "other"}

\* A pack's decision this cycle: what it does, and (wish_of) the intent and
\* the level it writes the limit for.  They differ for a flip of the clamp
\* held on a blind cycle, which counts as the command in force, and for an
\* Off that has already spoken, which writes nothing.
Limit(w) == [do |-> "limit", as |-> "limit", w |-> w]
Plain(i) == [do |-> i, as |-> i, w |-> 0]
Orders == {Limit(w) : w \in Watts}
            \cup {Plain(i) : i \in {"normal", "sale", "endSale", "charge",
                                    "off"}}
Silent == Plain("silent")
Held(i, w) == [do |-> "held", as |-> i, w |-> w]

Clamp == {"limit", "normal"}        \* _POWER_DERIVED_INTENTS
Wishes == Orders \cup {Silent}
            \cup {Held(i, w) : i \in Clamp, w \in Watts \cup {None}}

Resolve(order, b, blind) ==
  IF blind /\ order.do \in Clamp /\ intent[b] \in Clamp /\ order.do # intent[b]
  THEN Held(intent[b], IF intent[b] = "limit" THEN record[b] ELSE 0)
  ELSE IF order.do = "off" /\ intent[b] = "off" THEN Silent ELSE order

-----------------------------------------------------------------------------
\* The _RANK table and the sort of shared_groups

\* mutant: a pack that may discharge is asked before one that may not
MutRank(i) == IF i = "sale" THEN 0 ELSE IF i = "normal" THEN 1
              ELSE IF i = "off" THEN 3 ELSE 2

Ranked == {"sale", "limit", "normal", "endSale", "off"}
Rank(i) == IF i = "sale" THEN 0 ELSE IF i = "limit" THEN 1
           ELSE IF i = "off" THEN 3 ELSE 2

Ahead(wish, a, b) ==
  \/ Rank(wish[a].as) < Rank(wish[b].as)
  \/ /\ Rank(wish[a].as) = Rank(wish[b].as)
     /\ wish[a].w < wish[b].w \/ (wish[a].w = wish[b].w /\ a <= b)

\* the packs of S whose command writes the limit, and the best of them
Writing(wish, S) == {b \in S : wish[b].as \in Ranked}

Best(wish, S) ==
  LET cands == Writing(wish, S)
  IN  IF cands = {} THEN NoPack
      ELSE CHOOSE b \in cands : \A c \in cands : Ahead(wish, b, c)

-----------------------------------------------------------------------------
Fresh ==
  /\ intent = [b \in Packs |-> "other"]
  /\ record = [b \in Packs |-> None]
  /\ streak = [b \in Packs |-> 0]
  /\ selling = [b \in Packs |-> FALSE]
  /\ retries = [b \in Packs |-> 0]
  /\ liftTried = [b \in Packs |-> FALSE]
  /\ checked = [b \in Packs |-> FALSE]
  /\ orphanStopped = FALSE

Quiet ==
  /\ todo = {}
  /\ want = [b \in Packs |-> Silent]
  /\ writer = NoPack
  /\ stopped = FALSE
  /\ before = [b \in Packs |-> None]
  /\ saleSent = {}
  /\ withheld = [b \in Packs |-> None]
  /\ settling = FALSE
  /\ failed = FALSE

\* restore_discharge_limit_on_startup lifts whatever an earlier run left
Restored == limit \in IF "limit" \in Faults THEN Watts ELSE {MaxW}

Init ==
  /\ Restored
  /\ Fresh
  /\ Quiet
  /\ observer = FALSE
  /\ release = {}
  /\ waiting = [b \in Packs |-> 0]
  /\ capped = [b \in Packs |-> 0]

AtRest == todo = {} /\ ~settling

\* Every pack has decided: the wishes are ranked and the writer is marked
Begin ==
  /\ AtRest
  /\ ~observer
  /\ \E orders \in [Packs -> Orders], blind \in BOOLEAN :
       want' = [b \in Packs |-> Resolve(orders[b], b, blind)]
  /\ writer' = Best(want', Packs)
  /\ before' = record
  /\ todo' = Packs
  /\ UNCHANGED <<limit, pack, orphanStopped, stopped, saleSent, withheld,
                 settling, failed, observer, release, waiting, capped>>

-----------------------------------------------------------------------------
\* The Huawei adapter

\* mutant: the writer's own limit write does not wait out a stop
MutMarked(b) == b \in todo /\ writer # NoPack /\ b # writer

\* _limit_writer: another pack writes this cycle, or nobody does after a stop
Marked(b) ==
  /\ b \in todo
  /\ writer # NoPack
  /\ b # writer \/ stopped

\* _apply_discharge_limit
ApplyLimit(b, w) ==
  \/ /\ Marked(b)
     /\ withheld' = [withheld EXCEPT ![b] = w]
     /\ UNCHANGED <<limit, record, failed>>
  \/ /\ ~Marked(b)
     /\ limit' = w
     /\ record' = [record EXCEPT ![b] = w]
     /\ UNCHANGED <<withheld, failed>>
  \/ /\ ~Marked(b)
     /\ "limit" \in Faults
     /\ failed' = TRUE
     /\ UNCHANGED <<limit, record, withheld>>

NoLimitWrite == UNCHANGED <<limit, record, withheld, failed>>

\* _sent_stop, as actuate_batteries reads it after the pack's command
NoteStop(b) == stopped' = (stopped \/ (writer # NoPack /\ b \in todo))

Say(b, i) == intent' = [intent EXCEPT ![b] = i]

\* _maybe_clear_startup_orphan returning True: a forcible operation this
\* lifetime did not start is running, and its stop is this cycle's command
ClearsOrphan(b) ==
  /\ ~checked[b]
  /\ ~selling[b]
  /\ ~orphanStopped
  /\ \/ /\ checked' = [checked EXCEPT ![b] = TRUE]
        /\ orphanStopped' = TRUE
     \/ /\ "orphan" \in Faults
        /\ UNCHANGED <<checked, orphanStopped>>
  /\ retries' = [retries EXCEPT ![b] = Retries]
  /\ NoteStop(b)
  /\ NoLimitWrite
  /\ UNCHANGED <<selling, liftTried, saleSent>>

\* ... returning False: nothing orphaned, or the status is not readable yet
NoOrphan(b) ==
  /\ \/ checked' = [checked EXCEPT ![b] = TRUE]
     \/ "status" \in Faults /\ UNCHANGED checked
  /\ UNCHANGED orphanStopped

\* _stop_forcible returning True
StopsSale(b) ==
  /\ NoOrphan(b)
  /\ selling[b]
  /\ selling' = [selling EXCEPT ![b] = FALSE]
  /\ retries' = [retries EXCEPT ![b] = Retries]
  /\ NoteStop(b)
  /\ NoLimitWrite
  /\ UNCHANGED <<liftTried, saleSent>>

\* ... returning False, because nothing runs or because the stop was refused
SaleStays(b) ==
  /\ NoOrphan(b)
  /\ selling[b] => "stop" \in Faults
  /\ UNCHANGED selling

\* whether that refused stop went out is all the pipeline sees of it
NoteTry(b) ==
  stopped' = (stopped \/ (selling[b] /\ writer # NoPack /\ b \in todo))

\* command_normal; said is the intent its caller ends up recording
Normal(b, said) ==
  /\ Say(b, said)
  /\ \/ ClearsOrphan(b)
     \/ StopsSale(b)
     \/ /\ SaleStays(b)
        /\ retries[b] > 0
        /\ retries' = [retries EXCEPT ![b] = @ - 1]
        /\ NoteStop(b)
        /\ NoLimitWrite
        /\ UNCHANGED <<liftTried, saleSent>>
     \/ /\ SaleStays(b)
        /\ retries[b] = 0
        /\ NoteTry(b)
        /\ ApplyLimit(b, MaxW)
        /\ UNCHANGED <<retries, liftTried, saleSent>>

\* command_limit_discharge, with its same-limit skip
LimitDischarge(b, w) ==
  /\ Say(b, "limit")
  /\ \/ ClearsOrphan(b)
     \/ StopsSale(b)
     \/ /\ SaleStays(b)
        /\ NoteTry(b)
        /\ IF record[b] = w THEN NoLimitWrite ELSE ApplyLimit(b, w)
        /\ UNCHANGED <<retries, liftTried, saleSent>>

\* mutant: a 0 W limit is read as none
MutOwnLimitHeld(b) == 0 < record[b] /\ record[b] < MaxW

\* command_force_discharge: SEM's own limit goes back to the max first, as
\* this cycle's only command, tried once before each sale
OwnLimitHeld(b) == 0 <= record[b] /\ record[b] < MaxW

HandBack(b) ==
  /\ OwnLimitHeld(b)
  /\ ~liftTried[b]
  /\ liftTried' = [liftTried EXCEPT ![b] = TRUE]
  /\ ApplyLimit(b, MaxW)
  /\ intent' = [intent EXCEPT ![b] =
                  IF @ = "limit" /\ record'[b] = MaxW THEN "other" ELSE @]
  /\ UNCHANGED <<selling, saleSent>>

SendSale(b) ==
  /\ ~(OwnLimitHeld(b) /\ ~liftTried[b])
  /\ liftTried' = [liftTried EXCEPT ![b] = FALSE]
  /\ NoLimitWrite
  /\ \/ /\ selling' = [selling EXCEPT ![b] = TRUE]
        /\ saleSent' = saleSent \cup {b}
        /\ Say(b, "other")
     \/ /\ ~selling[b]
        /\ "sale" \in Faults
        /\ UNCHANGED <<selling, saleSent, intent>>

ForceDischarge(b) ==
  /\ checked' = [checked EXCEPT ![b] = TRUE]
  /\ HandBack(b) \/ SendSale(b)
  /\ UNCHANGED <<orphanStopped, retries, stopped>>

\* command_stop_force_discharge: on this brand it lifts no limit
StopForceDischarge(b) ==
  \/ ClearsOrphan(b) /\ Say(b, "other")
  \/ StopsSale(b) /\ Say(b, "other")
  \/ /\ SaleStays(b)
     /\ IF selling[b] THEN UNCHANGED intent ELSE Say(b, "other")
     /\ NoteTry(b)
     /\ NoLimitWrite
     /\ UNCHANGED <<retries, liftTried, saleSent>>

\* command_force_charge and command_stop_force_charge: an autodetected
\* inverter's id is not handed down to the charge adapter, so the start is
\* refused every time and the stop finds nothing to stop
ForcedCharge(b) ==
  \/ ClearsOrphan(b) /\ Say(b, "other")
  \/ StopsSale(b) /\ Say(b, "other")
  \/ /\ SaleStays(b)
     /\ intent' \in {intent, [intent EXCEPT ![b] = "other"]}
     /\ NoteTry(b)
     /\ NoLimitWrite
     /\ UNCHANGED <<retries, liftTried, saleSent>>

\* command_off: one command_normal on the way out, then silence
Off(b) == Normal(b, "off")

-----------------------------------------------------------------------------
\* actuate_battery

Min2(a, b) == IF a <= b THEN a ELSE b

\* The limit the actuator sends for a decision of w, and the dwell it keeps.
\* A rise that follows the house may wait, or go part of the way.
InForce(b) == intent[b] = "limit" /\ record[b] # None

Lowered(b, w) == InForce(b) /\ w < record[b]

SentLimits(b, w) ==
  IF InForce(b) /\ w > record[b] THEN record[b] .. w
  ELSE IF Lowered(b, w) /\ streak[b] + 1 < Dwell THEN {record[b]}
  ELSE {w}

StreakOf(b, w) == IF Lowered(b, w) THEN Min2(streak[b] + 1, Dwell - 1) ELSE 0

\* Non-writers go first and the writer last, each in fleet order
Turn(b) ==
  /\ b \in todo
  /\ LET first == IF todo = {writer} THEN todo ELSE todo \ {writer}
     IN  b \in first /\ \A c \in first : b <= c

Sending(b) ==
  /\ Turn(b)
  /\ todo' = todo \ {b}
  /\ settling' = (todo = {b})
  /\ UNCHANGED <<want, writer, before, observer, release, waiting, capped>>

SendClamp(b) ==
  /\ Sending(b)
  /\ want[b].do = "limit"
  /\ streak' = [streak EXCEPT ![b] = StreakOf(b, want[b].w)]
  /\ \E w \in SentLimits(b, want[b].w) : LimitDischarge(b, w)

Order(b, i) ==
  /\ Sending(b)
  /\ want[b].do = i
  /\ UNCHANGED streak

SendNormal(b) == Order(b, "normal") /\ Normal(b, "normal")
SendDischarge(b) == Order(b, "sale") /\ ForceDischarge(b)
SendEndSale(b) == Order(b, "endSale") /\ StopForceDischarge(b)
SendCharge(b) == Order(b, "charge") /\ ForcedCharge(b)
SendOff(b) == Order(b, "off") /\ Off(b)

\* nothing goes out: a held flip, an Off that has spoken
SendNothing(b) ==
  /\ Sending(b)
  /\ want[b].do \in {"held", "silent"}
  /\ UNCHANGED <<limit, pack, orphanStopped, stopped, saleSent, withheld,
                 failed>>

-----------------------------------------------------------------------------
\* The end of actuate_batteries: the sale at the head of the line may not have
\* gone out, then the next pack writes the limit it was held back from

WentOut(b) == want[b].as = "sale" => b \in saleSent \/ record[b] > before[b]

Lead == Best(want, {b \in Packs : WentOut(b)})

Instead == Lead \notin {NoPack, writer} /\ withheld[Lead] # None

\* the pack whose record every other one takes over
Effective == IF Lead = NoPack \/ (Instead /\ stopped) THEN writer ELSE Lead

\* mutant: a pack keeps its own record of a limit it holds
MutFollow(rec) ==
  IF writer = NoPack
  THEN UNCHANGED <<intent, record>>
  ELSE /\ record' = [b \in Packs |-> IF intent[b] = "limit" THEN record[b] ELSE rec]
       /\ UNCHANGED intent

\* follow_writer, then _drop_unsent_hold, once the writer's record is rec
Follow(rec) ==
  IF writer = NoPack
  THEN UNCHANGED <<intent, record>>
  ELSE /\ record' = [b \in Packs |-> rec]
       /\ intent' = [b \in Packs |->
            IF /\ intent[b] = "limit"
               /\ \/ intent[Effective] # "limit"
                  \/ withheld[b] \notin {None, rec}
            THEN "other" ELSE intent[b]]

\* ghost: a clean cycle has no sale, no stop, no refused write, no blind hold
Asked(b) == want[b] = Limit(0)
Clean ==
  /\ ~stopped
  /\ ~failed
  /\ \A b \in Packs : want[b].do # "held" /\ want[b].as # "sale"

\* ghost: a pack took its 0 W hold back, and another than b writes in its place
TakenOver(b) == writer # b /\ \E c \in Packs : waiting[c] > 0 /\ ~Asked(c)

CountWaiting ==
  waiting' = [b \in Packs |->
                IF Asked(b) /\ Clean /\ limit > 0 /\ ~observer
                THEN IF TakenOver(b) THEN 1 ELSE Min2(waiting[b] + 1, N * Dwell)
                ELSE 0]

CountCapped ==
  capped' = [b \in Packs |->
               IF /\ b = writer /\ b \in saleSent /\ ~failed /\ ~observer
                  /\ record[b] \in 0 .. MaxW - 1
               THEN Min2(capped[b] + 1, 2) ELSE 0]

\* The streak of a limit not in force counts for nothing: the next SendClamp
\* starts it again, so it is dropped here already
EndCycle ==
  /\ settling
  /\ settling' = FALSE
  /\ todo' = {}
  /\ want' = [b \in Packs |-> Silent]
  /\ writer' = NoPack
  /\ stopped' = FALSE
  /\ before' = [b \in Packs |-> None]
  /\ saleSent' = {}
  /\ withheld' = [b \in Packs |-> None]
  /\ failed' = FALSE
  /\ CountWaiting
  /\ CountCapped
  /\ streak' = [b \in Packs |-> IF intent[b] = "limit" THEN streak[b] ELSE 0]
  /\ UNCHANGED <<selling, retries, liftTried, checked, orphanStopped,
                 observer, release>>

Settle ==
  /\ EndCycle
  /\ ~Instead \/ stopped
  /\ Follow(record[Effective])
  /\ UNCHANGED limit

SettleInstead ==
  /\ EndCycle
  /\ Instead
  /\ ~stopped
  /\ \/ /\ limit' = withheld[Lead]
        /\ Follow(withheld[Lead])
     \/ /\ "limit" \in Faults
        /\ UNCHANGED limit
        /\ Follow(record[Lead])

-----------------------------------------------------------------------------
\* async_release_batteries_on_unload: observer mode first, then every pack SEM
\* commanded is handed back, in fleet order.  It gets its turn between two
\* cycles or while the last command's service call is still out.

Unload ==
  /\ ~observer
  /\ todo = {}
  /\ observer' = TRUE
  /\ release' = Packs
  /\ waiting' = [b \in Packs |-> 0]
  /\ capped' = [b \in Packs |-> 0]
  /\ UNCHANGED <<limit, pack, orphanStopped, cycle>>

Next1(S) == CHOOSE b \in S : \A c \in S : b <= c

Commanded(b) == selling[b] \/ record[b] # None

HandOver ==
  /\ release # {}
  /\ LET b == Next1(release)
     IN  /\ release' = release \ {b}
         /\ IF Commanded(b)
            THEN Normal(b, "normal")
            ELSE UNCHANGED <<limit, intent, record, selling, retries,
                             liftTried, checked, orphanStopped, stopped,
                             saleSent, withheld, failed>>
  /\ UNCHANGED <<streak, todo, want, writer, before, settling, observer,
                 waiting, capped>>

\* the entry is set up again: new adapters, the limit restored
Reload ==
  /\ observer
  /\ release = {}
  /\ AtRest
  /\ \/ limit' = MaxW
     \/ "limit" \in Faults /\ UNCHANGED limit
  /\ observer' = FALSE
  /\ intent' = [b \in Packs |-> "other"]
  /\ record' = [b \in Packs |-> None]
  /\ streak' = [b \in Packs |-> 0]
  /\ selling' = [b \in Packs |-> FALSE]
  /\ retries' = [b \in Packs |-> 0]
  /\ liftTried' = [b \in Packs |-> FALSE]
  /\ checked' = [b \in Packs |-> FALSE]
  /\ orphanStopped' = FALSE
  /\ UNCHANGED <<cycle, release, waiting, capped>>

Next ==
  \/ Begin
  \/ \E b \in Packs :
       \/ SendNormal(b)
       \/ SendClamp(b)
       \/ SendDischarge(b)
       \/ SendEndSale(b)
       \/ SendCharge(b)
       \/ SendOff(b)
       \/ SendNothing(b)
  \/ Settle
  \/ SettleInstead

Spec == Init /\ [][Next]_vars

\* ... and with the entry unloaded and set up again at any moment
NextUnload == Next \/ Unload \/ HandOver \/ Reload

SpecUnload == Init /\ [][NextUnload]_vars

-----------------------------------------------------------------------------
TypeOK ==
  /\ limit \in Watts
  /\ intent \in [Packs -> Intents]
  /\ record \in [Packs -> Watts \cup {None}]
  /\ streak \in [Packs -> 0 .. Dwell - 1]
  /\ selling \in [Packs -> BOOLEAN]
  /\ retries \in [Packs -> 0 .. Retries]
  /\ liftTried \in [Packs -> BOOLEAN]
  /\ checked \in [Packs -> BOOLEAN]
  /\ orphanStopped \in BOOLEAN
  /\ todo \subseteq Packs
  /\ want \in [Packs -> Wishes]
  /\ writer \in Packs \cup {NoPack}
  /\ stopped \in BOOLEAN
  /\ before \in [Packs -> Watts \cup {None}]
  /\ saleSent \subseteq Packs
  /\ withheld \in [Packs -> Watts \cup {None}]
  /\ settling \in BOOLEAN
  /\ failed \in BOOLEAN
  /\ observer \in BOOLEAN
  /\ release \subseteq Packs
  /\ waiting \in [Packs -> 0 .. N * Dwell]
  /\ capped \in [Packs -> 0 .. 2]

\* Between two cycles every pack's record is what the entity holds, or no pack
\* has one (battery_shared_limit.py: "its own record is what the entity
\* holds").  The same-limit skip, the sale's hand-back, the sensor and the
\* dwell all read the record: one pack's stale 0 W is how the pack fed the car.
RecordsAgree ==
  AtRest /\ ~observer =>
    \/ \A b \in Packs : record[b] = limit
    \/ \A b \in Packs : record[b] = None

\* A 0 W hold that is asked again and again reaches the entity: without a
\* sale, a stop or a refused write in between, no pack waits out more than one
\* lowering dwell per pack that shares the entity.  With two packs that is so
\* whatever the other one asks; with more, a pack that takes its own hold back
\* and leaves the entity to a third starts the dwells again (_limit_lower_streak
\* is the writer's own), so the count starts again with it.
HoldLands == \A b \in Packs : waiting[b] <= N * (Dwell - 1)

\* A sale is not held back by SEM's own limit: with the writes accepted, a
\* pack that goes on selling does so under one for at most one cycle (the
\* hand-back of command_force_discharge, which is skipped once when the last
\* sale was given up between its hand-back and its start).
SaleNotCapped == \A b \in Packs : capped[b] <= 1

\* After a stop went out, no pack's limit write follows in the same cycle: the
\* inverter takes no write right after a stop (_sent_stop).  The unload does
\* not keep to it.
QuietAfterStop == [][stopped /\ ~observer => limit' = limit]_vars

=============================================================================
