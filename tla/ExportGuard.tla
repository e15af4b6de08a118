----------------------------- MODULE ExportGuard -----------------------------
(***************************************************************************)
(* The export axis: while the meter is closed (the export price is read    *)
(* negative) the guard caps feed-in at zero, and gives the inverter back   *)
(* when the meter reopens.                                                 *)
(*                                                                         *)
(*   export_guard.py      the tracker with its two holds (ExportGuard)     *)
(*   decide_export.py     command -> intent, gated by the guard's switch   *)
(*   actuate_export.py    the one write; a refusal comes back as a text    *)
(*   coordinator.py       adopt once per lifetime, tick, dispatch, persist *)
(*   battery_adapters     the verbs, and the marker of SEM's own cut       *)
(*                                                                         *)
(* A cycle is three atomic steps, because the cycle awaits between them:   *)
(* Tick (verdict -> command), Dispatch (the service call), Persist (the    *)
(* store).  The process can be killed between any two of them.             *)
(* Time is counted in cycles.                                              *)
(***************************************************************************)
EXTENDS Integers

CONSTANTS
  EngageHold,   \* cycles CLOSED must hold before the inverter is touched
  ReleaseHold,  \* cycles OPEN must hold before it is given back
  Environments  \* what may go wrong in an installation, see EnvironmentAssumption

ASSUME HoldAssumption    == EngageHold \in Nat /\ ReleaseHold \in Nat
ASSUME EnvironmentAssumption == \A e \in Environments :
  /\ e.refusable \subseteq {"limit", "release"}          \* verbs the adapter may refuse
  /\ e.toggles \subseteq {"guard", "observer"}           \* switches the user may flip
  /\ e.kills \subseteq {"tick", "dispatch", "persist"}   \* where the process may be killed

VARIABLES
  state,        \* ExportGuard.state
  closedFor,    \* now - _closed_since, None = -1, capped at EngageHold
  openFor,      \* now - _open_since, None = -1, capped at ReleaseHold
  refusals,     \* _refusals, capped at RefusalsForRepair
  repairWanted, \* repair_wanted
  applied,      \* _applied: did this guard apply a cut?
  enabled,      \* the option export_guard_enabled
  observer,     \* _observer_mode
  verdict,      \* the grid_export verdict of the last cycle: "open" | "closed"
  pc,           \* where the cycle is: boot, tick, dispatch, persist, off
  command,      \* this cycle's export intent: none | limit | release
  wrote,        \* the write of the last dispatch: none | limit | release
  marker,       \* adapter.holds_export_cut()
  cut,          \* the inverter is limited by a write of SEM's
  store,        \* sem.export_guard.<entry>: {"engaged": store}
  env           \* the installation's environment, fixed for a behaviour

guardVars == <<state, closedFor, openFor, refusals, repairWanted, applied>>
userVars  == <<enabled, observer, env>>
hwVars    == <<marker, cut>>
vars == <<guardVars, userVars, verdict, pc, command, wrote, hwVars, store>>

RefusalsForRepair == 3

CountsOK ==
  /\ closedFor \in -1 .. EngageHold /\ openFor \in -1 .. ReleaseHold
  /\ refusals \in 0 .. RefusalsForRepair

ValuesOK ==
  /\ state \in {"idle", "holding", "engaged", "releasing", "refused"}
  /\ verdict \in {"open", "closed"}
  /\ pc \in {"boot", "tick", "dispatch", "persist", "off"}
  /\ command \in {"none", "limit", "release"} /\ wrote \in {"none", "limit", "release"}
  /\ repairWanted \in BOOLEAN /\ applied \in BOOLEAN
  /\ enabled \in BOOLEAN /\ observer \in BOOLEAN
  /\ marker \in BOOLEAN /\ cut \in BOOLEAN /\ store \in BOOLEAN /\ env \in Environments

TypeOK == CountsOK /\ ValuesOK

\* A tracker just built: a new lifetime knows nothing but the store.
FreshGuard ==
  /\ state' = "idle" /\ closedFor' = -1 /\ openFor' = -1
  /\ refusals' = 0 /\ repairWanted' = FALSE /\ applied' = FALSE

Init ==
  /\ state = "idle" /\ closedFor = -1 /\ openFor = -1
  /\ refusals = 0 /\ repairWanted = FALSE /\ applied = FALSE
  /\ env \in Environments
  /\ enabled = TRUE /\ observer \in (IF "observer" \in env.toggles THEN BOOLEAN ELSE {FALSE})
  /\ verdict = "open" /\ pc = "boot" /\ command = "none" /\ wrote = "none"
  /\ marker = FALSE /\ cut = FALSE /\ store = FALSE

-----------------------------------------------------------------------------
(* The tracker: one tick of ExportGuard.update.                            *)

\* decide_export: no intent at all while the guard is switched off.
DecideExport(c) == IF enabled THEN c ELSE "none"

MinOf(a, b) == IF a < b THEN a ELSE b
Aged(age, cap) == MinOf(age + 1, cap)      \* None (-1) becomes 0: the hold starts now

MutHasCut == TRUE
HasCut == applied                          \* #908: only what was cut is given back

\* CLOSED before the hold has run out, or with no measured export left to clip.
Hold(export) ==
  /\ state \notin {"refused", "engaged"}
  /\ closedFor' < EngageHold \/ export # "high"
  /\ state' = "holding" /\ command' = "none" /\ UNCHANGED applied

\* CLOSED: a refusal sticks and an engaged cut simply holds.
KeepClosed ==
  /\ state \in {"refused", "engaged"}
  /\ command' = "none" /\ UNCHANGED <<state, applied>>

\* CLOSED for the whole hold and export is still measured: cut it.
Engage(export) ==
  /\ state \notin {"refused", "engaged"}
  /\ closedFor' >= EngageHold /\ export = "high"
  /\ state' = "engaged" /\ applied' = TRUE /\ command' = DecideExport("limit")

Closed(export) ==
  /\ closedFor' = Aged(closedFor, EngageHold) /\ openFor' = -1
  /\ Hold(export) \/ KeepClosed \/ Engage(export)
  /\ UNCHANGED <<refusals, repairWanted>>

\* OPEN and nothing was ever cut: there is nothing to put back.
NothingToRelease ==
  /\ state = "idle" \/ (~HasCut /\ state # "refused")
  /\ state' = "idle" /\ command' = "none"
  /\ openFor' = IF state = "idle" THEN openFor ELSE -1
  /\ UNCHANGED <<applied, refusals, repairWanted>>

MutHoldReleaseRestarts ==
  /\ state # "idle" /\ (HasCut \/ state = "refused")
  /\ Aged(openFor, ReleaseHold) < ReleaseHold
  /\ openFor' = 0
  /\ state' = IF state = "refused" THEN "refused" ELSE "releasing"
  /\ command' = "none" /\ UNCHANGED <<applied, refusals, repairWanted>>

\* OPEN, but not yet for the release hold.
HoldRelease ==
  /\ state # "idle" /\ (HasCut \/ state = "refused")
  /\ Aged(openFor, ReleaseHold) < ReleaseHold
  /\ openFor' = Aged(openFor, ReleaseHold)
  /\ state' = IF state = "refused" THEN "refused" ELSE "releasing"
  /\ command' = "none" /\ UNCHANGED <<applied, refusals, repairWanted>>

\* OPEN for the release hold: idle again; a refused guard has nothing to release.
Release ==
  /\ state # "idle" /\ (HasCut \/ state = "refused")
  /\ Aged(openFor, ReleaseHold) >= ReleaseHold
  /\ command' = IF state = "refused" \/ ~HasCut THEN "none"
                ELSE DecideExport("release")
  /\ state' = "idle" /\ openFor' = -1 /\ applied' = FALSE
  /\ refusals' = 0 /\ repairWanted' = FALSE

Open == /\ closedFor' = -1
        /\ NothingToRelease \/ HoldRelease \/ Release

\* _compute_export_command: a guard that is switched off reads every verdict OPEN.
Tick(price, export) ==
  /\ pc = "tick" /\ pc' = "dispatch"
  /\ verdict' = price /\ wrote' = "none"
  /\ IF enabled /\ price = "closed" THEN Closed(export) ELSE Open
  /\ UNCHANGED <<userVars, hwVars, store>>

-----------------------------------------------------------------------------
(* The seam: actuate_export, then the store.                               *)

\* No command this cycle, or observer mode: nothing is written, nothing refused.
Withhold ==
  /\ pc = "dispatch" /\ (command = "none" \/ observer)
  /\ pc' = "tick" /\ command' = "none"
  /\ UNCHANGED <<guardVars, userVars, verdict, wrote, hwVars, store>>

\* The verb went through.  A limit keeps what it replaced; a release puts that
\* back, and an adapter with nothing kept has nothing to put back.
Write ==
  /\ pc = "dispatch" /\ command # "none" /\ ~observer
  /\ wrote' = command
  /\ marker' = (command = "limit")
  /\ cut' = IF command = "limit" THEN TRUE ELSE cut /\ ~marker
  /\ pc' = "persist"
  /\ UNCHANGED <<guardVars, userVars, verdict, command, store>>

\* No adapter, no such verb, or the call raised: report_refused.
Refuse ==
  /\ pc = "dispatch" /\ command \in env.refusable /\ ~observer
  /\ refusals' = MinOf(refusals + 1, RefusalsForRepair)
  /\ repairWanted' = (repairWanted \/ refusals' >= RefusalsForRepair)
  /\ state' = "refused" /\ command' = "none" /\ pc' = "tick"
  /\ UNCHANGED <<closedFor, openFor, applied, userVars, verdict, wrote, hwVars, store>>

MutPersistNothing ==
  /\ pc = "persist" /\ pc' = "tick" /\ command' = "none"
  /\ UNCHANGED <<guardVars, userVars, verdict, wrote, hwVars, store>>

\* _export_guard_persist, after a real write only; observer mode is read again
\* here, after the service call was awaited.
Persist ==
  /\ pc = "persist" /\ pc' = "tick" /\ command' = "none"
  /\ store' = IF observer THEN store ELSE command = "limit"
  /\ UNCHANGED <<guardVars, userVars, verdict, wrote, hwVars>>

-----------------------------------------------------------------------------
(* Lifetimes.                                                              *)

MutAdoptNotApplied ==
  /\ pc = "boot" /\ pc' = "tick"
  /\ IF store THEN state' = "engaged" /\ marker' = TRUE ELSE UNCHANGED <<state, marker>>
  /\ UNCHANGED <<closedFor, openFor, refusals, repairWanted, applied, userVars, verdict,
                 command, wrote, cut, store>>

\* _ensure_export_guard: before its first tick a lifetime takes over the cut
\* the store names: the guard starts engaged, the adapter gets its prior back.
Adopt ==
  /\ pc = "boot" /\ pc' = "tick"
  /\ IF store THEN state' = "engaged" /\ applied' = TRUE /\ marker' = TRUE
              ELSE UNCHANGED <<state, applied, marker>>
  /\ UNCHANGED <<closedFor, openFor, refusals, repairWanted, userVars, verdict,
                 command, wrote, cut, store>>

\* The process dies (or the entry reloads) and comes back: the tracker and the
\* adapters' markers are gone, the inverter and the store are as they were.
Restart ==
  /\ pc \in env.kills
  /\ FreshGuard /\ marker' = FALSE /\ pc' = "boot" /\ command' = "none" /\ wrote' = "none"
  /\ UNCHANGED <<userVars, verdict, cut, store>>

\* The entry is disabled: async_release_export_guard hands the inverter back now
\* if SEM holds it, and the store forgets the cut, whether the verb succeeded or not.
Disable(refuses) ==
  /\ pc = "tick" /\ pc' = "off"
  /\ refuses => "release" \in env.refusable
  /\ IF applied /\ ~observer
       THEN /\ cut' = (cut /\ (~marker \/ refuses)) /\ store' = FALSE
            /\ wrote' = IF marker /\ ~refuses THEN "release" ELSE "none"
       ELSE UNCHANGED <<cut, store>> /\ wrote' = "none"
  /\ FreshGuard /\ marker' = FALSE
  /\ UNCHANGED <<userVars, verdict, command>>

Enable == /\ pc = "off" /\ pc' = "boot"
          /\ UNCHANGED <<guardVars, userVars, verdict, command, wrote, hwVars, store>>

\* The user flips a switch, at any point of a cycle: the observer switch writes the
\* coordinator's flag at once, the guard's option is read by the next Tick.
Toggle ==
  /\ \/ "guard" \in env.toggles /\ enabled' = ~enabled /\ UNCHANGED observer
     \/ "observer" \in env.toggles /\ observer' = ~observer /\ UNCHANGED enabled
  /\ UNCHANGED <<guardVars, verdict, pc, command, wrote, hwVars, store, env>>

Cycle == \/ Adopt
         \/ \E price \in {"open", "closed"}, export \in {"blind", "low", "high"} : Tick(price, export)
         \/ Withhold \/ Write \/ Refuse \/ Persist

Next == Cycle \/ Restart \/ (\E refuses \in BOOLEAN : Disable(refuses)) \/ Enable \/ Toggle

\* The coordinator runs its cycle for as long as the entry is loaded, and a
\* disabled entry is only off for a while.
Fairness == WF_vars(Cycle) /\ WF_vars(Enable)

Spec == Init /\ [][Next]_vars /\ Fairness

-----------------------------------------------------------------------------
(* Properties.                                                             *)

\* The environments in which a cut is accounted for: the adapter never refuses, nobody
\* flips a switch, and no kill falls between a write and its record.
Calm == env.refusable = {} /\ env.toggles = {} /\ "persist" \notin env.kills

\* A cut standing in the inverter is never one nobody remembers: between two
\* cycles the store names it, so whatever lifetime comes next can adopt it.
CutIsRemembered ==
  Calm /\ pc \in {"boot", "tick", "dispatch", "off"} /\ cut /\ command # "release" => store

\* Both switches of the loop agree on the cut: a lifetime past its adoption
\* that sees a cut of SEM's in the inverter still knows that it has to give it
\* back (the tracker is not idle and its release gate is open).
CutIsOwned == Calm /\ pc = "tick" /\ cut => applied /\ marker /\ state # "idle"

\* #908, "hand back only what you took": the release verb is only ever called
\* on an adapter that holds SEM's own cut.
OnlyOwnCutIsReleased == [][Calm /\ wrote' = "release" /\ wrote # "release" => marker]_vars

\* A refusal sticks: the verb is not tried again before the meter has been open
\* for the release hold (or a new lifetime starts over).
RefusalSticks == [][state = "refused" => command' = "none" /\ state' \in {"refused", "idle"}]_vars

\* #936: while SEM is only watching, no step of any path (cycle, teardown,
\* restart) changes what the inverter does or what the store says of it.
ObserverLeavesTheHouse == [][observer => UNCHANGED <<cut, store>>]_vars

\* A lifetime that is left running, on a meter that stays open, gives the
\* inverter back, whatever restarts and teardowns came before.
MeterReopens ==
  (Calm /\ <>[](verdict = "open") /\ <>[][pc' \notin {"boot", "off"}]_vars) => []<>~cut

=============================================================================
