# Verification of Solar Energy Management (SEM)

SEM is a Home Assistant integration that steers a house: solar, grid, a home
battery, car chargers and switchable loads. Every ten seconds a coordinator
reads the sensors, decides for each device what it should do, and sends the
service calls. This directory holds TLA+ models of the parts of SEM whose
mistakes reach hardware, the TLC configurations that check them, and TLAPS
proofs of what matters most in them.

Paths below are relative to the repository root (`src/` in `PROJECT.json`).

1. [Inventory](#1-inventory)
2. [Plan](#2-plan)
3. [The models](#3-the-models)
4. [Runs, bounds and fairness](#4-runs-bounds-and-fairness)
5. [Proofs](#5-proofs)
6. [What the checks found](#6-what-the-checks-found)
7. [What is not modelled](#7-what-is-not-modelled)
8. [Running it](#8-running-it)

## 1. Inventory

SEM runs on Home Assistant's single event loop. There is no preemption, but
every `await` of a service call or of a store lets a user's click, an option
write, an unload or a state change of the device in between. All control
happens in one coordinator cycle (`coordinator/coordinator.py`), which is
serialised with itself and not with the rest.

The order of a cycle: read sensors, integrate energy, tick the slow learners,
take the three control axes (export limit, chargers, batteries) and the loads.
Each axis has the same shape: a pure *decide*, one or more *filters*, a
*reconciler* or *actuator* with memory, an *adapter* per brand.

### Parts that command hardware

| Part | State it keeps | Operations | Talks to | What is hard |
|---|---|---|---|---|
| Export guard (`export_guard.py`, `decide_export.py`, `actuate_export.py`, parts of `coordinator.py`) | tracker state, two holds, refusals, `_applied`; the adapter's marker; a store | `update`, `report_refused`, adopt, dispatch, persist, teardown | tariff, inverter adapter, store | kills between write and record, refused verbs, switches flipped across an `await` |
| Charger reconciler (`charger_reconciler.py`) | belief about the relay, ten clocks and counts: dwell, park, war rounds, ceasefire, contactor floors, re-asserts, failsafe | `reconcile` per cycle, `rebuild` on reload | decision, adapter, charger device | a charger that starts by itself, a stale switch reading, lost calls, holds that starve each other |
| Charger devices (`devices/base.py`) and adapters (`charger_adapters/`) | session flag, setpoint, last write, park debt (also in a store) | start, stop, park, release, adopt | Home Assistant services | partial failure of a multi-call verb, restart between a call and its record |
| Phase switch (`ev_phase_sequencer.py`, `ev_control.py`, `ev_phases.py`) | sequencer state and pending target, gap; planner clocks, interval, budget; belief, contradiction count | `tick`, `desired`, `note_switched`, `new_session`, estimate | a select entity, charger decision | contactor wear, a box that does not stop or switch, user, planner and replug resetting different clocks |
| Phase current guard (`active_phase_guard.py`, `dual_phase_guard.py`, `features/phase_shed.py`) | latch, recovery count, amps reserved in this cycle, phases latched | `update`, `filter_decision`, shed request | meters, every charger, load management | fail-closed latch, headroom shared by several chargers whose measurements lag |
| Charge stability (`charge_stability.py`) | enable and disable delays, ramp, per charger | `filter` | charger decision, reconciler | delays that meet mode changes |
| Charge pause (`charge_pause.py`) | deadline and mode to resume, in the options | `press`, `tick`, `forget_on_mode_write` | button, select, services | an old deadline that ends an Off chosen by hand |
| Battery decision (`decide_battery.py` and its helpers) | little: pure per cycle; boost, budget, night ledger | `decide_battery` | forecasts, tariffs | numbers |
| Battery actuation (`actuate_battery.py`, `battery_shared_limit.py`) | lowering streak; per cycle: wishes, writer, withheld writes | `actuate_batteries` | battery adapters | several packs behind one limit entity |
| Battery adapters (`battery_adapters/`) | last intent and limit, selling flag, stop retries, orphan check, write verdicts; snapshots on Deye | normal, limit, sale, charge, two stops, off, hand back | Home Assistant services, stores | stops that must be the last write of a cycle, what earlier lifetimes left |
| Battery charge scheduler (`battery_charge_scheduler.py`) | the plan of the night | evaluate | battery decision | stale plans |
| Grid events (`vpp_dispatch.py`, `external_control.py`) | event seen, yielded since | evaluate per cycle | battery and charger decisions | an event that ends while a command is out |
| Peak guard (`peak_guard.py`, `features/load_management.py`, `shed_signal.py`) | import of the billing slot, shed devices | `update`, allowance, shed and restore | every import-creating command | slot rollover, restart in a slot, dark meter |
| Surplus allocation (`surplus_controller.py`, `device_reconciler.py`, `energy_reclaim.py`) | belief, ownership, grace, cooldown, daily runtime per load | allocate, `reconcile_device` | load devices | a user who switches the same load |
| Load devices (`devices/*`) | runtime, held power, deadline | activate, deactivate | Home Assistant services | a refused switch |
| Curtailment probe (`curtailment.py`) | probe state, grant | `update` | export guard, surplus | infers another component's cut |

### Parts that inform

| Part | State | What is hard |
|---|---|---|
| Sensor reader (`sensor_reader.py`, `units.py`, `sign_audit.py`, `soc_grace.py`) | last accepted readings, votes | dropouts held, sign conventions |
| Energy and flows (`energy_calculator.py`, `flow_calculator.py`, `flow_invariant.py`, `session_energy.py`) | counters per day, month, year | conservation over real numbers, rollover |
| EV estimators (`ev_taper_detector.py`, `watts_per_amp.py`, `wpa_replay.py`) | learned curves | numerical |
| Planners (`energy_planner.py`, `energy_plan_actuation.py`, `day_ledger.py`, `today_plan.py`, `ev_tariff_planner.py`, `charge_pacing.py`, ...) | slots and blocks, recomputed | numerical |
| Forecasts, tariffs, demand learning (`forecast_*`, `tariff/`, `demand_*`) | histories | numerical, missing data |
| Storage and flags (`storage.py`, `persisted_flags.py`) | Home Assistant stores | delayed saves |
| Entities, configuration, reporting, dashboard, analytics, simulation (`sensor.py` ... `time.py`, `config_flow.py`, `hardware_detection.py`, `decision_log.py`, `repair_issues.py`, `analytics/`, ...) | options, messages, reports | volume, not control |
| Setup, unload, removal (`__init__.py`, `cleanup.py`) | the entry's lifetime | an unload between two awaits of a cycle |

### What makes each commanding part correct

* **Export guard.** A cut SEM made is remembered and owned by whoever runs
  next; nothing SEM did not cut is released; a refusal sticks; observer mode
  leaves the house alone; an open meter gets its inverter back.
* **Reconciler.** A ceasefire with a box that restarts itself is kept and
  ends; Off sends one stop; the device's failsafe timer is fed; the relay is
  not moved faster than its floor; a lasting OFF ends the draw.
* **Charger devices.** Whoever told a box to refuse tells it yes before he
  leaves, and nobody hands back a box SEM did not stop; the dead man's OFF lands
  only behind a no that still stands.
* **Charge pause.** The mode that comes back is the one the pause was pressed
  over, at the end of that pause and not of an older one; every pause ends.
* **Phase switch.** Minimum distances between switches, a budget per session,
  windows that belong to the plugged-in car; no charge is held for ever;
  retries end.
* **Phase guard.** No increase is authorised above what the worst phase has
  left, whatever the number of chargers; recovery takes its full count; loads
  answer only after the chargers have been stopped.
* **Shared limit.** All packs' records are one; a 0 W hold lands; SEM's own
  limit does not cap a sale; a stop is followed by no limit write in its
  cycle; when SEM goes, its limit goes.
* **Deye.** The user's charge programs can be given back from wherever a write
  or the process dies, and in the end are; grid charging is never on over a
  program that is not SEM's own.
* **Loads under peak and phase guard.** What was taken stays down while the
  reason lasts, stays on record, and comes back.
* **Loads on the surplus.** What the user started is never switched off by
  letting go; minimum run and pause hold; a run ends with its reason.
* **Peak slot.** A slot that is booked was watched as a whole; a house that
  keeps to the allowance lands the slot on its target.

The hazards behind these properties are listed line by line in
`PROJECT.json`.

## 2. Plan

Order of work, most important behaviour first. A line marked with a tick is
done.

| | Module | Composes or refines | Questions | Theorems |
|---|---|---|---|---|
| ✓ | `ExportGuard` | tracker, seam, store, adapter marker, lifetime | cuts forgotten, foreign releases, reopening | types, `CutIsRemembered`, `CutIsOwned`, `OnlyOwnCutIsReleased`, observer mode, refusals |
| ✓ | `ChargerReconciler` | - | ceasefire, Off, failsafe, probing | types, `CeasefireHolds`, `OffIsHandsOff`, `WatchdogFed` |
| ✓ | `RelayPromise` | abstract specification of the contactor floor | - | - |
| ✓ | `ChargerLoop` | `ChargerReconciler` with a box; implements `RelayPromise` | does the floor hold with a real box; does a lasting OFF end the draw | `KeepsPromise`, but for a polled switch |
| ✓ | `PhaseSwitch` | sequencer, planner and tick with a free box | wear, budgets, hostage charges | types, `ContactorSpared`, the budget, `OwnWindow`, `BlameHasCause` |
| ✓ | `SharedLimit` | seam, sharing, Huawei adapter, unload | one entity, several packs | types and all four properties, for any number of packs |
| ✓ | `UndoLog` | abstract specification of a borrowed setting | - | - |
| ✓ | `DeyeSession` | adapter, two stores, lifetimes; implements `UndoLog` | half-done charges, rollbacks, restarts | types, `ChargesOnlyOnPlan`, `UndoesItself` |
| ✓ | `PhaseLatch` | abstract specification of the guard towards the loads | - | - |
| ✓ | `PhaseGuard` | guard and several chargers; implements `PhaseLatch` | shared headroom, recovery, chargers before loads | types, all four properties, for any number of chargers and phases |
| ✓ | `LoadShed` | load management, surplus controller, registry and users; built on `PhaseLatch` | two authorities over the same loads | types, `DebtKept`, `TakenStaysDown` under every guard that keeps the latch |
| ✓ | `PeakSlot` | tracker, allowance, store, clock | holes, boundaries, restarts | types, `BooksTheSlot`, `SlotLands`, the honest integral |
| ✓ | `ChargePause` | button, select, sweep, service, dialog, reload | stale copies of one row | types, `PauseIsPaidOnce` |
| ✓ | `SurplusLoad` | reconciler, walk, device, registry and user of one load | ownership, clocks, paid runs | types, `UsersLoadStays`, `ContactorRests` |
| ✓ | `ParkDebt` | device, store, adoption, observer mode, unload and removal over lifetimes | who owes a box its release | types, all three properties |
| | several loads in the walk | two `SurplusLoad`s and their watts | who yields to whom | - |
| | `SharedLimit`, generic brand; read-back verdict | second adapter under the same seam | the same properties | as above |

Every safety property that a run checks is proved, and so are the three refinements
(section 5). What has no theorem is liveness.

Modules that are proved about together carry distinct names (`ParkInit`, `PauseSpec`,
`SlotTypeOK`), so that one module can extend them.

## 3. The models

One operation of the code is one action. Time is counted in coordinator
cycles, and clocks are ages that stop at the threshold the code compares them
with. What a part only reads (sensors, decisions of other parts, user clicks)
is chosen freely on every step, within what the code can produce.

### ExportGuard

| Code | Model |
|---|---|
| `ExportGuard.update` | `Tick`: `Hold`, `KeepClosed`, `Engage` while the meter reads closed, `NothingToRelease`, `HoldRelease`, `Release` while it reads open |
| `decide_export` | `DecideExport`, the guard's switch |
| `actuate_export` and its caller | `Withhold`, `Write`, `Refuse` |
| `_export_guard_persist` | `Persist`: the observer flag is read again here, after the await |
| `_ensure_export_guard` | `Adopt`, before the first tick of a lifetime |
| `async_release_export_guard` | `Disable`, and `Enable` for the next setup |
| kills, flipped switches | `Restart`, `Toggle`, enabled by the `env` of a behaviour |

Each behaviour runs in one *environment*: which verbs the adapter may refuse,
which switches the user may flip, and where the process may die. *Calm*
environments have no refusals, no flips and no kill between a write and its
record; the properties about memory are stated for them, the others for all.
The code's window between the limit call and the save (`coordinator.py:13513`)
is real: a kill there leaves a cut without a record, and the model shows the
records right everywhere else.

### ChargerReconciler, ChargerLoop, RelayPromise

`ChargerReconciler` is the decision table of `reconcile`, a row an action,
with its whole memory. Wishes and observations are constants, so a run chooses
how wide they are. `Rebuilds` adds the reload that builds a new reconciler and
carries over what the code carries over.

`ChargerLoop` puts the reconciler in front of a box: a contactor, an enable
switch that is read live, polled or not at all, a car that comes, goes and
draws; calls may be lost (`stop_session` swallows the exception and the
reconciler stamps a stop that never left), the box may start by itself, the
entity may go dark. `RelayPromise` is what `CONTACTOR_MIN_ON_S` and
`CONTACTOR_MIN_OFF_S` promise about a relay, with no reconciler in it: a relay
SEM opened is not closed by SEM inside the minimum OFF, and a relay SEM closed
is opened by SEM inside the minimum ON only on demand. `KeepsPromise` is the
refinement, with `Promise == INSTANCE RelayPromise`.

Assumptions: CHARGE is only wished for a connected car (the decision layer
checks the plug before it); the loop's box can be stopped and has a start and
stop surface; the loop does not rebuild. A rebuild is covered by the run `charger`; it
forgets the floor's clocks, so the promise is one of a lifetime.

### PhaseSwitch

`_phase_switch_tick` in three steps: `Measure` (plug, belief, contradiction),
one of `WantManual`, `WantNothing`, `WantAuto` (the target), and one row of the
sequencer. `Skip` is the other kind of cycle: at night a charger whose mode takes
no part in the night is passed over before its tick (`coordinator.py:4531-4558`);
clocks run on and cars come and go. So `plug`, the car, and `connected`, what the
last tick made of it (`_phase_conn_memo`), are two things. The box is entirely
free: it may ignore a stop, start at any time, switch or not, and read as any
number of phases. The watts on offer are abstracted to `pressing`: whether they
make a case for leaving the believed count. A service call that raises is logged
and nothing else, and in observer mode it is only logged that it would have been
made: to the tick both look like a box that does not switch.

Ghosts keep the truth the properties need: `pluggedFor`, `autoSwitches` and
`lastSwitch` of the real car and contactor, `missed` for a car that came while no
tick ran, and for the blame what was really sent since the target was set
(`tried`) and what observer mode kept back (`logged`).

### SharedLimit

Several packs behind one inverter share one discharge-limit entity.
`Begin` takes any order for every pack, resolves the clamp held on a blind
cycle and elects the writer (`Rank`, `Ahead`, `Best`: the sort of
`shared_groups`); the `Send...` actions run the adapter command of one pack,
non-writers first; `Settle` lets the records follow the writer, and
`SettleInstead` first writes what the next pack in line was held back from,
because the writer's sale did not go out. `Unload`, `HandOver` and `Reload` are
the teardown, which may start while the cycle is awaiting its last command. Refusals are drawn per call from
`Faults`.

Abstractions: Huawei adapters only, one entity group; watts are levels further
apart than the quantisation and the adapter's same-limit skip; a rise that
follows the house may go out or wait (any choice); a forced charge never starts
on an autodetected Huawei inverter (no device id is handed down), so that side
is its refusals; the read-back verdict on a pending write and the resend it
causes are left out, as are changes of the entity by others and the observer
switch of the user; the hand-over is atomic per pack; an unload begins between
cycles or after the last command has been sent (one that begins earlier lets
the remaining commands through as well). A streak of a limit that is not in
force is dropped at the end of the cycle: the code never reads it again.

### DeyeSession, UndoLog

A forced grid charge on a Deye hybrid overwrites the user's own charge programs
and gives them back. The adapter's commands are sequences of awaited writes, and
each write is a step: `Open` saves the snapshot and reads it back before
`OpenStep` writes current, programs and, last, the grid-charge switch;
`RestoreStep` goes the other way round; a write that fails, landed or not, turns
an opening into a rollback and a failed rollback into the *unsafe latch*
(`LatchStep`), both durable in stores that may fail too. `Kill` falls between
any two steps; `Build` and `Recover` are what the next lifetime does first.
`Normal`, `Off`, `Stop`, `Limit`, `ForceCharge` are the adapter's verbs, any of
them at any cycle, `ExportVerb` the export guard's write on the same inverter.

`UndoLog` is the promise with nothing of Deye in it: a durable record of the
user's settings before the first write, dropped only when they are back.
`UndoesItself` is the refinement: the record is the snapshot store, and the
device is dirty when its registers are not the user's.

### PhaseGuard, PhaseLatch, LoadShed

`PhaseGuard` is a cycle of the phase current guard: `Update` reads the meters
(margins of the worst phase, in amps), `Filter` is `filter_decision` for one
charger after the other, which stops, clamps and reserves, `AskLoads` is the
request to the loads once the chargers had `FirstCycles` of being stopped.
Margins and draws are free from cycle to cycle.

`PhaseLatch` is what the loads rely on: a phase stays latched until the guard
is trusted again, loads are asked for latched phases only. `PhaseGuard`
implements it (`KeepsLatch`), and `LoadShed` EXTENDS it, so what is shown of the
loads holds of every guard that keeps that promise. The two never meet in one
run, and need not.

`LoadShed` is a cycle in order: `Guard` (any reading of the latch), `Release` or
`Request`, an `Answer` per phase, `Peak` (state, emergency and progressive
shedding, the clean-up of the list, one restore), `Surplus`. Users switch any
load at any time (`TurnsOn`, `TurnsOff`), minimum on and off times end (`Settles`),
a service call may raise, and `Rebuild` is the registry's sync, which replaces the rows and not the list.
Loads the surplus controller owns are its to back off; both lists are modelled.
The arithmetic of how many loads cover an excess is a free choice.

### PeakSlot

The budget of the fifteen-minute slot: `PeakSlotTracker.update` with its gaps,
boundaries and dark readings and the allowance (`Cycle`), the closed slot handed on
(`Pop`), the state in the daily store (`Save`), kills and restarts (`Crash`). Time is in beats, energy in draw times beats; cycles come on time,
late, past the step cap and over a whole slot. `drawn` is what the house really
imported, `doubt` the beats whose draw SEM cannot know, so the properties
compare the books with the meter up to that doubt.

### ChargePause

A timed pause is charge mode Off and two stored facts in the charger's row of
the options. `Press`, `Choose`, `Sweep` read and write the row at once; the
service and the dialog (`Holders`) write a row they copied earlier; a write ends
in a reload, and until it is through the coordinator has the old row (`live`).
`owed` is what the user is owed, `lost` says that somebody wrote or decided from
a row that was no longer the stored one; the properties say what the code keeps
as long as nobody did. See section 6 for what happens when somebody does.

### SurplusLoad

One on/off load: what SEM believes of it, whether SEM claims the run
(`_sem_owned` and `commanded`), the clocks of minimum run and pause, the markers
of a run that is paid for (cheap hours, battery night). `Look` is the beginning
of a cycle: `reconcile_device` with its grace and cooldown, then
`sync_belief_to_observation`. `Walk` takes one decision of the pass over the
loads (release, expire, done, short, shed, start, idle), at most one awaited
service call, which lands, raises or raises although it landed. `SetMode`,
`Rebuild` (the device object built anew while the load runs), `Disable`,
`Enable`, `Restart` are the other writers of the same facts; `UserFlips`,
`Report`, `GoDark`, `Weather` the world. The sun, the tariff, the battery and the
daily goals together are one value, free at every cycle. `mine`, `unseen`,
`calm` and `since` are kept for the properties only: whose the run really is,
whether the user acted since SEM looked, whether something went wrong in this
run, and the true age of the last switching.

### ParkDebt

One wallbox with enable, disable and failsafe services. Every stop leaves three
things: a disabled box, a *dead man's OFF* in its failsafe register, and a debt,
noted in the device and in a store, to undo the two. The commands (`Start`,
`Stop`, `Park`, the hand-back) are sequences of awaited calls; beside them run
the read-back and resends of the dead man's OFF (`ask`; `stray` after a reload
replaced the device object), the adoption task that reads what an earlier
lifetime owes, and the user's observer switch, of which the devices are told
once per cycle (`Tell`). `Leave` is disabling or removing the entry, `Setup`
its return. `said` is the truth about SEM's no. `slip` is raised by the events
after which the code does not promise its books: a kill between a verb and its
record, a debt adopted after it was paid, a park whose disable raised, a start
that lost both of its failsafe writes, a resend of a replaced object, a
hand-back that failed, and leaving while SEM does not know its debt. Section 6
says what each of them does.

Left out: the energy target and current writes of the same verbs, the yield to
another party, changes of the box by others, store failures, several boxes in
one store. An unload begins between commands.

## 4. Runs, bounds and fairness

Every run passes.

| Run | Module | What it shows |
|---|---|---|
| `export_guard` | `MCExportGuard` | cuts remembered, owned, only SEM's released, meter reopened: calm houses with kills, and faulty ones |
| `charger` | `MCChargerReconciler` | the table against every wish and sight, with rebuilds |
| `charger_loop` | `MCChargerLoop` | the loop implements `RelayPromise`; a lasting OFF ends the draw of a box that behaves in the end |
| `phase_switch` | `PhaseSwitch` | wear, windows, blame, no hostage, retries end |
| `shared_limit` | `SharedLimit` | records, holds, sales and quiet stops with refused calls and unloads |
| `deye_session` | `DeyeSession` | a forced charge is an undo log and is undone |
| `phase_guard` | `PhaseGuard` | headroom, recovery, chargers first, the latch |
| `load_shed` | `MCLoadShed` | debt kept, taken loads stay down, the list empties |
| `peak_slot` | `PeakSlot` | booked slots and the allowance against the real draw |
| `charge_pause` | `ChargePause` | paid once, and in the end |
| `surplus_load` | `SurplusLoad` | the user's load, the contactor, the end of a run |
| `park_debt` | `ParkDebt` | books, hand-back, dead man's OFF |

**Bounds.** One step is one ten second cycle unless said otherwise.

* `ExportGuard` uses the real holds: 12 cycles to engage, 30 to release.
* `ChargerReconciler` and `ChargerLoop` scale the thresholds and keep the order in
  which the code compares them: `QuietReset` outlasts the first ceasefire and not the
  longest. In both, `MinOn` and `MinOff` leave a cycle inside each floor, `Dwell = 2`
  really withholds a stop, and `ParkCycles = 2` is the smallest debounce in which a
  single dropout differs from a parted car. In the reconciler's run a ceasefire
  doubles twice and meets its cap (`MaxFactor = 4`), a war takes more than one edge
  (`WarRounds = 2`), and after two re-asserts (`MaxAttempts = 2`) there are cycles
  that wait for the next probe (`EnableRetry = 2`). The loop, whose box has a state of
  its own, has a ceasefire of two cycles that doubles once (`Backoff = 2`), a minimum
  ON longer than the dwell, one edge and one re-assert.
* `PhaseSwitch`: `Settle = 1` and `StopWait = 2` give at least one cycle of
  waiting in each state, `Gap = 3` outlasts the settling, `AutoInterval = 4`
  outlasts the gap, two automatic switches per session, two strikes; night cycles
  and the observer switch at any time.
* `SharedLimit`: two packs, two levels (the hold and the maximum, what the
  properties tell apart), a dwell of two so that a lowering has to wait a cycle
  and come again, one retry of a stop; refused limit writes, refused sales and
  orphans of an earlier lifetime. Refused stops of a sale and an unreadable
  status are left to the proofs, which cover every kind of refusal; the theorems
  also cover any number of packs, levels, dwell and retries.
* `DeyeSession`: two settings a user may have (one before, one after an edit),
  three failing calls (opening, rollback and the save of the latch in one
  behaviour) and two kills.
* `PhaseGuard`: the code's cycle counts (three to recover, two for the chargers
  alone), two phases, two chargers of 2 to 4 A under a limit of 5 A: both fit
  at their smallest current and not at their largest.
* `LoadShed`: one phase and three loads: two known to sit on it, one of them the
  surplus controller's, and one of unknown phase; one failing call. The theorems cover any
  loads, phases, wiring, priorities and failures.
* `PeakSlot`: a slot of six beats with its neighbours' ends; gaps of one, two
  (the step cap), three and seven beats (more than a slot); one kill. The clock
  stops at `Horizon`, so the run has no deadlock check. The clock only goes
  forward, the ceiling is constant and the draw changes at readings only.
* `ChargePause`: two modes, two durations, three presses (a pause, one over it,
  one after it), both holders of copies, a cycle during a reload.
* `SurplusLoad`: minimum run and pause of two cycles, grace and cooldown of one,
  and every kind of fault at once, without a bound on their number.
* `ParkDebt`: the code's three tries of a dead man's OFF, two failing calls (two
  are what it takes to lose both arms of a start).

**Counts in the properties.** `HoldLands` counts *clean* cycles, those without
a refused limit write, since a refusal may repeat for ever; `SaleNotCapped`
allows the one cycle the hand-back needs and the retry of it. `HoldLands` allows a
dwell per pack, and starts again when a pack takes its hold back and the entity falls
to another one; with two packs that other is the one that waits, and the count runs
on. Section 6 says what three packs can do.

**Fairness.** Home Assistant's `DataUpdateCoordinator` calls the cycle again
and again, also after one that raised; weak fairness of the cycle states that
and nothing more (`ExportGuard`, `ChargerReconciler`, `ChargerLoop`,
`PhaseSwitch`). `ExportGuard` adds that a disabled entry is set up again some
day, `ChargerLoop` that a polled entity is polled. `OffStopsTheCar` is about boxes
that behave from some time on: no more rogue starts, commands obeyed, the entity
reachable. Whatever the box did before, and the hold, dwell, ceasefire or park that
came of it, may stand when OFF begins. `NeverHostage` and `RetriesEnd` are about
chargers that are not passed over for good (`Ticking`). `DeyeSession`: an awaited
command goes on, an adapter is built and recovered, and, once the decisions have
settled, a cycle dispatches; faults and kills are bounded by the run. `LoadShed`:
the cycle, the restore delay and the minimum times pass; `ComesBack` assumes that
peak and phases stay calm and that no load on the list is left running. The second
is an assumption about users, and needed (section 6). `ChargePause`: the sweep runs, a reload comes
through, time passes. `SurplusLoad`: the cycle runs and its calls return, an
entity in reach reports, and a call made again and again succeeds at last (strong
fairness: a house whose relay never answers is beyond SEM); `RunsEnd` assumes
that user, process and entity leave the load alone from some time on. No fairness
is asked of users, prices or cars. `PhaseGuard`, `SharedLimit`, `PeakSlot` and
`ParkDebt` have only safety properties.

Every property of a passing run has a mutant in `PROJECT.json`: a plausible
bug in a mapped definition (a dropped guard, a clock that is not reset, an
off-by-one, a record that does not follow) that TLC finds through it. The
operators named `Mut...` in the modules are those bugs; nothing else uses them.
The type invariants are proved and not repeated in the runs.

## 5. Proofs

`*Proofs.tla` extend the models. Each safety theorem is `Spec => []Inv` or
`Spec => [][A]_vars`, for every value of the constants that satisfies the named
assumptions of the module.

| Theorem | Inductive invariant | Why it is needed |
|---|---|---|
| `ExportGuardProofs!CutIsKept`, `CutHasAnOwner`, `OwnCutOnly` | `CalmOwned`: in a calm environment marker, tracker, command and store agree at every point of the cycle | the record is only right at its end; the invariant says what is owed in between |
| `ExportGuardProofs!ObserverNeverWrites`, `RefusalIsSticky` | types | each step by its guard |
| `ChargerProofs!CeasefireKept` | `AtPeace`: with a ceasefire open SEM has no session of its own and its idle has settled | the wind-down row sends a stop without looking at the ceasefire |
| `ChargerProofs!OffKeepsHandsOff` | `Latched`: the one stop is spent whenever a cycle in Off follows another or a boot | the property is about what is sent over many cycles |
| `ChargerProofs!WatchdogKeptFed` | `Fed`: a switch read closed means a relay believed closed | neither the close hold nor the enable back-off then stands before the write |
| `ChargerProofs!LoopKeepsPromise` | `Linked`: belief, clocks and the promise's clocks in step with the relay | for a switch read live on any box and line, and for a relay that cannot be read when no call is lost, where the belief is the session (`Believed`) and nothing but a believed charge is meant to go on (`Meant`); with a polled switch it is false, see section 6. Needs a park of two cycles (`ParkCycles > 1`, the code's value): with one, TLC finds the park leaving a charge that is meant to go on, and its next setpoint write closing the relay unstamped |
| `PhaseSwitchProofs!ContactorIsSpared`, `BudgetIsKept` | `Spared`: the ages the guards look at are no older than the last switch; `Earned`: no more automatic switches than the budget counted | replugs reset the budget and not the interval |
| `PhaseSwitchProofs!WindowIsOwn` | `OwnClocks`: unless the car was missed, no sustain clock is older than its plug | a replug restarts the clocks in another step than the one that reads them, and cars change in cycles without a tick; a missed car is excepted, and there the claim is false (section 6) |
| `PhaseSwitchProofs!BlameIsCaused` | `Blamed`: what is counted against a target was done for it, with at most one stale strike, unless something was only logged in observer mode | needs at least two strikes to give (`NotTaking > 1`, assumed) |
| `SharedLimitProofs!RecordsAgreeHolds`, `StopsAreQuiet` | `IInv == TypeOK /\ CycleOK /\ Shared /\ RecordsAgree` | during a cycle the records differ; `Shared` says whose record the entity follows and who still has to follow it |
| `SharedLimitProofs!HoldsLand` | `HInv`, on top of `IInv`: a pack with a limit in force has counted every cycle of its wait (`Worn`); its turn has landed, counted or held back the write (`Told`); between the first pack that waits and another lies a dwell for each step in rank (`Waits`) | the property counts over several cycles and writers; the claim per pack is not inductive, since each new writer waits out its own dwell |
| `SharedLimitProofs!SalesAreNotCapped` | `Sales` in `HInv`: a pack that sold under SEM's limit once has its one try of the hand-back unspent | the try is spent in one cycle and the sale goes out in another |
| `DeyeSessionProofs!ChargesOnPlan`, `ChargeUndoesItself` | `IInv`: types, `Kept` (without a record the registers are the user's, and a record is of the user's settings), `Opening` and `Restoring` (which registers are written at which step), `ChargesOnlyOnPlan` | a kill may fall between any two writes, so each half-way state has to be described |
| `ChargerStopProofs!HeadroomIsShared`, `RecoveryIsEarned`, `GuardKeepsLatch` | `IInv`: types, `Earning` (the guard counts no more calm readings than there were), `Shared` (what is promised is what is reserved) | the headroom is handed out charger by charger |
| `ChargerStopProofs!ChargersGoFirst` | `Counting`: the guard's count of cycles over against the cycles the chargers were stopped | for `FirstCycles = 2`, the code's value |
| `ChargerStopProofs!BooksStayTrue`, `LeavesNoRefusal`, `DeadManStaysBehindNo` | `DebtInv`: the books of every settled state and what each command owes between two of its calls (`Between`), `Floored` and `Armed` (where the dead man's OFF may be, and on its way), `Lifetimes` | debt, record, box and timers are written in different steps, and timers outlive the command that set them |
| `ChargerStopProofs!PausesArePaidOnce` | `PauseInv`: every held copy is what its holder read (`Copied`), and the stored row is the pause the user is owed while nobody wrote from an old row (`OnRecord`) | the sweep sees the row only; that the row is the debt depends on all six writers |
| `LoadManagementProofs!DebtIsKept` | `Owing`: who is owed is listed, off, and not marked as having run | the clean-up reads marks of earlier cycles against live switches |
| `LoadManagementProofs!TakenLoadsStayDown` | the types | every path that switches a load on asks the latch; the guard is any that keeps `PhaseLatch` |
| `LoadManagementProofs!ClosedSlotsAreTrue`, `ObedienceLandsTheSlot`, `TrackerStaysHonest` | `SlotInv`: the tracker is off the meter by the beats in doubt (`Metered`, `Tracked`), a saved one by those and the beats since (`Stored`), and what an obedient house has drawn and will draw at its present load fits the budget (`Landing`) | the allowance is computed from the tracker and kept by the meter; a restart resumes from the saved one |
| `SurplusLoadProofs!LoadOfTheUserStays` | `Claimed`: a claim stands only over a run of SEM's own, or over one the user changed since SEM looked | the claim is set and cleared in eight places |
| `SurplusLoadProofs!ContactorIsRested` | `Timed`: the clock a decision reads is no older than the load's last switching | clocks move with rebuilt objects and adoptions |

One proof module stands for each group of models that belong together:
`ChargerProofs` (reconciler and loop), `ChargerStopProofs` (phase guard, park debt and
charge pause: who stops a charger, and until when) and `LoadManagementProofs` (shed
loads and slot budget). Each inductive invariant was a TLC invariant of a small
instance before it was proved.

The writer of a `SharedLimit` cycle is the least element of an order of wishes,
chosen among any finite set of packs: `LeastNat` and `BestIsAhead` get it from
the well-foundedness of the naturals, `BestOfFewer` says that dropping a pack
that was not the best leaves the best where it was. The adapter's commands have
one lemma each (`...Effect`): what they do to the entity, to the record and to
the cycle. `SharedLimitProofs` proves its theorems for `SpecUnload`, the
specification the run checks. The slot's arithmetic is not linear: `SlotLands` rests
on `Division`, `ProductOrder` and `ScaleOrder`, which keep the products away from the
solver.

`LoopKeepsPromise`, `GuardKeepsLatch` and `ChargeUndoesItself` are refinements, proved
over initial states and steps. What `ObserverNeverWrites`, `RefusalIsSticky`,
`BudgetIsKept` and `TrackerStaysHonest` state is proved and not among the runs.

**Assumptions.** Each is named, stands in the module that declares the constant, and is
evaluated by the runs. They bound constants (numbers are naturals, the dwell and the
slot have a length, the step caps a restart may stand for fit into a slot), order
thresholds the way the code's are, or keep model values apart: `NoneAssumption` of
`PeakSlot` says that the missing tracker is not a tracker, `PauseAssumption` of
`ChargePause` that the missing value is neither a mode nor a time nor a pause. The
theorems about `ParkDebt` and `ChargePause` have the same premises as the properties:
no `slip`, nobody who wrote from an old row.

Liveness (`MeterReopens`, `StopReturns`, `EnableProbed`, `OffStopsTheCar`,
`NeverHostage`, `RetriesEnd`, `HandedBack`, `ComesBack`, `PauseEnds`, `RunsEnd`)
is outside of TLAPS's reach and only model-checked.

## 6. What the checks found

Modelling and checking turned up places where the code does something else than
its comments say, or leaves a window open. They are told here and not as runs:
the models take the code as it is, and the properties are stated for what it
does keep.

*Export guard.*
- A refused release is never tried again (`export_guard.py:143`): the tracker
  forgets the cut before the release is written; refused, the guard goes idle
  after the next open hold without a command, although its docstring (19-22)
  says it never idles silently. The Repair after three refusals is therefore
  never raised.
- A guard that is switched off over a cut keeps the cut (`decide_export.py:42`
  against `coordinator.py:13574`): the tracker emits the release, `decide_export`
  drops it because the guard is off.
- A kill between the limit call and the save (`coordinator.py:13513`) leaves a
  cut without a record; so does observer mode switched on during the call
  (13508). A release that falls due in observer mode is dropped and not made up
  for.
- The curtailment probe (`coordinator.py:14059`) stands back only in `engaged`,
  while a cut also stands in `releasing` and in `holding` after a meter that
  reopened for a moment.

*Charger reconciler.*
- The contactor floor relies on a fresh switch reading
  (`charger_reconciler.py:597` against 171-173). A polled switch still reads off
  after SEM closed it, belief follows it, and the opening that comes next is not
  stamped: close, open, close in three cycles. `KeepsPromise` is about live
  switches.
- The rounds of a stop war count edges of the draw while the minimum ON still
  withholds the stop (748), so a ceasefire can be declared before any DISABLE
  left. The one stop of entering Off is latched before it is sent (635): a lost
  call is not made up for.

*Charger devices.*
- The read-back timer of a dead man's OFF survives a reload with the object it
  belongs to, and its resend (`devices/base.py:3431`) may put 0 A into a box the
  new lifetime has started or handed back; the comment above it (3428-3430) says
  never during a session.
- A park whose disable raised takes no debt and arms the dead man's OFF all the
  same (3676-3712): removing SEM leaves it in the box.
- A start whose failsafe writes were both lost pays the debt over a dead man's
  OFF (3607, 3639) that the box keeps "until the next start" (3327-3331).
- A stop's debt is taken half a second after its disable (4050-4056), a park's
  in a write after it (3689): a kill in between forgets it.
- `release_to_user` clears the record even when its enable failed (3879-3887).
- An adoption may take a debt that was paid while it read the store. Switched
  off right after observer mode, before a cycle told the devices, SEM hands
  nothing back.
- While SEM yields a charger to another party, `send` withholds and the debt is
  taken or paid all the same (4055, 3639 against 3683-3688). A start withheld in
  observer mode still sets the session flag. Several chargers load, change and
  save one store.

*Charge pause.* The options dialog saves a row it read pages ago
(`config_flow.py:211`, 4684): an old pause comes back, or a new one is lost
(`charge_pause.py:36` promises that it cannot end a later Off). `set_option`
merges before its awaits and writes after them (`__init__.py:6254-6264`,
6479-6493), and a cycle during a reload decides from the old row.

*Phase switch.*
- A sustain window with a hole counts as sustained (`ev_control.py:1054`): in a
  manual phase mode the planner is not called and its clocks keep running; back
  in auto, one cycle with headroom switches.
- A replug at night is missed (`coordinator.py:4531-4558`): an `off` or
  `solar_only` charger is passed over before its tick, and when the next tick comes
  `_phase_conn_memo` (`ev_control.py:1007-1013`) holds the car before and sees no
  edge. The new car inherits budget, contradictions and sustain clocks, against "a
  replug is a new car" (1007); a window that filled under the last car may switch
  it on its first cycle. `OwnWindow` is about the cars a tick saw come.
- Contradictions are counted in observer mode, where nothing was switched. The
  give-up on a stop asks the observer mode of its own cycle only (1098): switched
  off just before, it blames a box to which no stop was sent, what 1096-1097 call
  a lie. `BlameHasCause` is about targets for which observer mode kept nothing
  back. A contradiction left by the old target is charged once to the new one. The sequencer fires on
  a charging flag read earlier in the cycle (1087). A reload forgets gap,
  interval, budget and the target that did not take (990). A stop that is given
  up uses none of the session budget.

*Phase guard.* Cycles over the limit are counted while the guard only observes,
so the loads may be asked in the first enforcing cycle. What was reserved for
one charger is forgotten at the next cycle while its measured current still
lags (`active_phase_guard.py:251`); that window lasts one reading of the meter.

*Loads under peak and phase guard.*
- The registry's sync replaces every row (`features/device_registry.py:1422`,
  1426) and with it the state before the shed. The restore then takes the
  present off for that state (`features/load_management.py:2096-2178`), counts
  the load as restored and drops it, off: what 1052-1054 calls the defect to
  avoid. Lines 246-250 know the cause for the phase mark only. `DebtKept` is
  about loads whose row was not rebuilt.
- Only the first load in order is looked at (1715-1721, 1744): one that cannot be
  switched on, or that a user switched back on and keeps on, holds up the others
  for as long. `ComesBack` is claimed while no load on the list is left running. A reading that lags a restore
  lets the clean-up drop the load. The list is in memory only. A turn-off that
  raised but landed is not recorded. The peak's restore may turn on a load the
  peak took on a phase the guard has latched. A load the user switched back on
  stays on the list.

*Surplus loads.*
- A cheap-hours run switched off by hand keeps its marker; after the mode went
  to Off and the user switched the load on himself, the expiry of the forced run
  (`surplus_controller.py:1915-1996`) switches it off, against 1896-1897.
- `sync_belief_to_observation` on OFF leaves the claim (`devices/base.py:1218`);
  after a restart a load SEM started is only adopted, not owned
  (`device_registry.py:2718`); a stop that raised gives up the claim (996-998);
  a teardown inside the minimum run leaves the load on and counts it as stopped
  (1121, 1158). Peak and phase sheds, and a hand that switches off, leave the
  marker too. The grace and the cooldown never act for switches, whose belief
  follows the entity in the same cycle. Loads of other domains whose turn-off
  raised are not stopped again.

*Shared limit.*
- An Off that has to stop something first leaves SEM's limit
  (`battery_adapters/base.py:683`): `command_off` hands over once through
  `command_normal`, which on Huawei returns after a stop.
- A cycle in flight writes after the unload (`battery_shared_limit.py:219`): the
  observer flag is an argument read when the cycle began.
- A first hold whose write failed records a limit in force, so its retry waits
  the lowering dwell. The rank table says a stopped sale writes the maximum,
  which is not so on Huawei. A sale, or another stop, of the writer may follow a
  sibling's stop in the same cycle, and so may the pack's own limit write after
  a stop that was refused. A seller that does not write uses up its one try to
  lift the limit; `_sale_limit_tried` stays set when a sale is abandoned. After
  an orphan stop, a blind-held limit without a value outranks a real 0 W hold
  while blind. Two packs with equal 0 W holds may need two dwells. With three, a hold may not
land for as long as two of them take turns: the lowering streak belongs to the pack that
writes (`actuate_battery.py:402-423`) and each new writer waits out its own, so a third
pack that asks for 0 W all the time stays behind them. An unload's
  hand-back right after a pack's stop does not keep the quiet cycle, and an
  unload of a pack that sold under its own hold sends only the stop.

*Deye.*
- The mark of a session's first write is also set by the export guard's writes
  (`deye.py:970-973`), and a marked adapter opens no session (1086): after one
  export cut no charge is possible until a restart.
- Two failing calls let an Off be recorded over SEM's own plan
  (`base.py:676-685`, `deye.py:1295-1313`): the restore waits for the next
  Normal.
- A lifetime that begins in observer mode never reads the latch
  (`coordinator.py:9887-9892` against `deye.py:1247-1250`).
- `unload_release_reason` (`base.py:29-62`) never releases a Deye in forced
  charge; the snapshot waits for the next setup. A pending snapshot, restored
  later, overwrites what the user set in between. A cut during a sale remembers
  the sale's work mode as the user's.

*Peak slot.* A restart whose hole is no longer than the step cap is not a gap: the
slot is still booked, with the hole counted at the last draw, where
`peak_guard.py:178-180` says the slot is not booked.
A slot that was closed and not yet booked is lost with the process;
a clock moved backwards closes the slot it leaves.

## 7. What is not modelled

`PROJECT.json` lists every component with its status and reason. In short:

* *Pure decisions and planners* (`decide.py`, `decide_battery.py`, the
  planners, forecasts, tariffs, learners): functions of many real-valued
  inputs without shared control state. Their result is a free input of the
  models, which therefore hold for whatever they decide. Most of the repository's
  lines are of this kind or of the next two, so the models cover the part of the
  code that has state and concurrency, and a small share of its lines.
* *Accounting and sensor reading*: arithmetic over real numbers and parsing.
* *Entities, forms, discovery, dashboards, reports, simulation*: nothing they
  do feeds back into a command except the option writes, which are environment
  actions (and, for the charge pause and the load rows, actions of a model).
* *Planned*: see section 2.

Within the modelled parts:

* wording, logging, Repairs and notifications; watts below the resolution named
  above;
* store faults of the export guard and the replay of its removal; the arithmetic
  of the failsafe gap;
* `LoadShed`: observer mode, loads that change owner, critical and hands-off
  loads, set points and currents, the futile-plan arithmetic;
* `DeyeSession`: the sale commands, a command that outlives an unload, the user's
  edits under a pending snapshot, clock steps, records that do not parse;
* `SurplusLoad`: several loads and their watts, dependencies, climates, set
  points and heat pumps, the desired-state path, a rebuild during an awaited
  call;
* `ChargePause`: missing or unreadable rows;
* `PeakSlot`: the clamps of single commands, `record_closed_slot`, a ceiling
  that changes;
* `ParkDebt`: what section 3 names.

## 8. Running it

    tlc -workers 2 -config ExportGuard.cfg MCExportGuard
    tlc -workers 2 -config ChargerReconciler.cfg MCChargerReconciler
    tlc -workers 2 -config ChargerLoop.cfg MCChargerLoop
    tlc -workers 2 -config PhaseSwitch.cfg PhaseSwitch
    tlc -workers 2 -config SharedLimit.cfg SharedLimit
    tlc -workers 2 -config DeyeSession.cfg DeyeSession
    tlc -workers 2 -config PhaseGuard.cfg PhaseGuard
    tlc -workers 2 -config LoadShed.cfg MCLoadShed
    tlc -workers 2 -config PeakSlot.cfg PeakSlot
    tlc -workers 2 -config ChargePause.cfg ChargePause
    tlc -workers 2 -config SurplusLoad.cfg SurplusLoad
    tlc -workers 2 -config ParkDebt.cfg ParkDebt
    tlapm ExportGuardProofs.tla      # and Charger-, ChargerStop-, PhaseSwitch-,
                                     # SharedLimit-, DeyeSession-, LoadManagement-
                                     # and SurplusLoadProofs.tla

The largest run takes some minutes. The sets are small enough to do without
symmetry, which would not be sound for the liveness properties anyway.
