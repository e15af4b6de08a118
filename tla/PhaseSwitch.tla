----------------------------- MODULE PhaseSwitch -----------------------------
(***************************************************************************)
(* Switching a wallbox between one and three phases in mid-session:        *)
(*                                                                         *)
(*   ev_phase_sequencer.py  stop, switch, settle, start: the sequencer;    *)
(*                          the planner that wants 1 or 3 by itself        *)
(*   ev_control.py          _phase_switch_tick: belief, the give-up on a   *)
(*                          target the box does not take, the service call *)
(*                                                                         *)
(* A cycle is three steps, all within one call of _phase_switch_tick:      *)
(* Measure (session, belief, contradiction), Want (the target), then a row *)
(* of the sequencer.  While a switch is in flight the tick turns the       *)
(* cycle's charge into DISABLE, which is what "stopping" and "settling"    *)
(* stand for here.  In a cycle of the night in which the coordinator       *)
(* passes over a charger that takes no part in the night the tick does not *)
(* run (Skip).  The box is free: whatever it is told it may stop drawing,  *)
(* go on or start again, switch or not, so what holds holds for every box. *)
(* The clocks are ages in cycles that stop at the threshold they are       *)
(* compared with, -1 for a clock that is not running.                      *)
(***************************************************************************)
EXTENDS Integers

CONSTANTS
  Settle,        \* SETTLE_S
  Gap,           \* MIN_SWITCH_GAP_S
  StopWait,      \* STOP_WAIT_S
  UpDelay,       \* AUTO_UP_DELAY_S
  DownDelay,     \* AUTO_DOWN_DELAY_S
  AutoInterval,  \* AUTO_MIN_INTERVAL_S
  AutoMax,       \* AUTO_MAX_PER_SESSION
  NotTaking      \* PHASE_NOT_TAKING_AFTER

ASSUME DelayAssumption ==
  /\ Settle \in Nat /\ Gap \in Nat /\ StopWait \in Nat /\ UpDelay \in Nat
  /\ DownDelay \in Nat /\ AutoInterval \in Nat /\ AutoMax \in Nat /\ NotTaking \in Nat \ {0, 1}

NoPhase == 0            \* None, for a belief and for a target
AutoMode == 0               \* phase_mode "auto"

VARIABLES
  pc,              \* "sense": between two cycles; "want", "tick": inside one
  mode,            \* phase_mode: AutoMode, 1 or 3
  observer,        \* _observer_mode
  plug,            \* the confirmed plug, as the last cycle read it
  connected,       \* what the last tick made of it (_phase_conn_memo)
  pressing,        \* this cycle's watts on offer: too few for three phases when it is
                   \* believed to be on three, ample for three when on fewer; nobody asks
                   \* without a car or in a manual mode
  ready,           \* the switch entity exists and both its values are known
  desired,         \* this cycle's target
  state,           \* PhaseSwitchSequencer._state; the charge is held unless it is "idle"
  pending,         \* its _pending
  since,           \* now - _stopping_since in "stopping", now - _switched_at in "settling"
  gapAge,          \* now - _last_switch_at
  upFor, downFor,  \* PhaseAutoPlanner: now - _up_since, now - _down_since
  autoAge,         \* its now - _last_switch_at
  switches,        \* its _session_switches, counted up to AutoMax
  believed,        \* _phase_believed
  target, count,   \* contra["target"], contra["count"] up to NotTaking
  asserted,        \* contra["last_asserted"]
  drawing,         \* the car draws
  pluggedFor,      \* ghost: since the car was plugged in, 0 without one
  autoSwitches,    \* ghost: automatic switches since then
  missed,          \* ghost: it came while the tick did not run, which still takes it for
                   \* the car before
  lastSwitch,      \* ghost: since a switch was decided, by anyone
  stopOut,         \* ghost: a stop was sent in the present wait
  tried,           \* ghost: since the target was set a switch was sent for it, or a stop
                   \* that the box drew through
  logged           \* ghost: since then a switch was only logged, or a wait was over in which
                   \* no stop was sent, for SEM was in observer mode

locals == <<pressing, ready, desired>>
user == <<mode, observer>>
seq == <<state, pending, since, gapAge>>
planner == <<upFor, downFor, autoAge, switches>>
contra == <<target, count, asserted>>
blame == <<tried, logged>>
ghosts == <<pluggedFor, autoSwitches, missed, lastSwitch, stopOut, blame>>
vars == <<pc, locals, plug, connected, user, seq, planner, believed, contra, drawing,
          ghosts>>

Larger(a, b) == IF a > b THEN a ELSE b
Longest == Larger(UpDelay, DownDelay) + 1
Rarest == Larger(Gap, AutoInterval)

ClocksOK ==
  /\ since \in 0 .. Larger(Settle + 1, StopWait) /\ gapAge \in 0 .. Gap
  /\ upFor \in -1 .. UpDelay + 1 /\ downFor \in -1 .. DownDelay + 1
  /\ autoAge \in 0 .. AutoInterval /\ pluggedFor \in 0 .. Longest /\ lastSwitch \in 0 .. Rarest
  /\ switches \in 0 .. AutoMax /\ autoSwitches \in 0 .. AutoMax + 1 /\ count \in 0 .. NotTaking

ValuesOK ==
  /\ pc \in {"sense", "want", "tick"} /\ mode \in {AutoMode, 1, 3} /\ observer \in BOOLEAN
  /\ plug \in BOOLEAN /\ connected \in BOOLEAN /\ pressing \in BOOLEAN /\ ready \in BOOLEAN
  /\ state \in {"idle", "stopping", "settling"}
  /\ pending \in {NoPhase, 1, 3} /\ believed \in {NoPhase, 1, 2, 3}
  /\ target \in {NoPhase, 1, 3} /\ asserted \in {NoPhase, 1, 3} /\ desired \in {NoPhase, 1, 3}
  /\ drawing \in BOOLEAN /\ missed \in BOOLEAN
  /\ stopOut \in BOOLEAN /\ tried \in BOOLEAN /\ logged \in BOOLEAN

TypeOK == ClocksOK /\ ValuesOK

\* The first cycle of a lifetime builds a sequencer and a planner; nothing is persisted.
Init ==
  /\ pc = "sense" /\ mode \in {AutoMode, 1, 3} /\ observer \in BOOLEAN
  /\ plug = FALSE /\ connected = FALSE /\ pressing = FALSE /\ ready = TRUE
  /\ desired = NoPhase /\ state = "idle" /\ pending = NoPhase /\ since = 0 /\ gapAge = Gap
  /\ upFor = -1 /\ downFor = -1 /\ autoAge = AutoInterval /\ switches = 0
  /\ believed = NoPhase /\ target = NoPhase /\ count = 0 /\ asserted = NoPhase
  /\ drawing = FALSE /\ pluggedFor = 0 /\ autoSwitches = 0 /\ lastSwitch = Rarest
  /\ missed = FALSE /\ stopOut = FALSE /\ tried = FALSE /\ logged = FALSE

-----------------------------------------------------------------------------
(* Measure: time, the plug, the belief, the contradiction.                 *)

Older(age, cap) == IF age < cap THEN age + 1 ELSE cap
Running(age, cap) == IF age = -1 THEN -1 ELSE Older(age, cap)

Elapse ==
  /\ since' = (IF state = "idle" THEN 0 ELSE Older(since, Larger(Settle + 1, StopWait)))
  /\ gapAge' = Older(gapAge, Gap) /\ autoAge' = Older(autoAge, AutoInterval)

Replugged == connected' /\ ~connected

MutNewSession ==
  /\ switches' = (IF Replugged THEN 0 ELSE switches)
  /\ upFor' = Running(upFor, UpDelay + 1)
  /\ downFor' = Running(downFor, DownDelay + 1)
\* planner.new_session: a replug gives a fresh budget and fresh clocks; the interval stays.
NewSession ==
  /\ switches' = (IF Replugged THEN 0 ELSE switches)
  /\ upFor' = (IF Replugged THEN -1 ELSE Running(upFor, UpDelay + 1))
  /\ downFor' = (IF Replugged THEN -1 ELSE Running(downFor, DownDelay + 1))

\* estimate_active_phases: watts over offered amps, rounded.  A car that uses less than the
\* offer reads as fewer phases than it is on; one that draws too little does not read.
Estimates == {NoPhase} \cup (IF drawing THEN 1 .. 3 ELSE {})

\* No measurement while a switch is in flight.
Belief(est) == IF state = "idle" /\ est # NoPhase THEN est ELSE believed

\* A switch completed asserting one count, and the measurement now says another.
Contradicts ==
  /\ ~Replugged /\ state = "idle"
  /\ asserted # NoPhase /\ believed' # NoPhase /\ believed' # asserted

\* A replug is a fresh chance for a target the box did not take.
Contradiction ==
  /\ target' = (IF Replugged THEN NoPhase ELSE target)
  /\ count' = (IF Replugged THEN 0 ELSE IF Contradicts THEN Older(count, NotTaking) ELSE count)
  /\ asserted' = (IF Replugged \/ Contradicts THEN NoPhase ELSE asserted)

\* The car itself: it comes and goes in every cycle, whether the tick runs or not.
CarTime ==
  /\ plug' \in BOOLEAN /\ (drawing => plug')
  /\ lastSwitch' = Older(lastSwitch, Rarest)
  /\ pluggedFor' = (IF plug' /\ plug THEN Older(pluggedFor, Longest) ELSE 0)
  /\ autoSwitches' = (IF plug' /\ plug THEN autoSwitches ELSE 0)

\* A car that comes while the tick still believes in the one before.
StillMissed == plug' /\ (missed \/ (~plug /\ connected))

Measure ==
  /\ pc = "sense" /\ pc' = "want"
  /\ CarTime /\ connected' = plug' /\ ready' \in BOOLEAN
  /\ Elapse /\ NewSession
  /\ missed' = (~Replugged /\ StillMissed) /\ tried' = (~Replugged /\ tried)
  /\ logged' = (~Replugged /\ logged)
  /\ \E est \in Estimates : believed' = Belief(est)
  /\ Contradiction
  /\ pressing' \in BOOLEAN /\ (pressing' => mode = AutoMode /\ plug')
  /\ UNCHANGED <<user, desired, state, pending, drawing, stopOut>>

\* NIGHT_CHARGING_ACTIVE or TARIFF_WAITING_FOR_CHEAP, and a charge mode that takes no part
\* in it: the charger is policed and passed over before its tick.  Time passes for the
\* clocks, and a car that is changed for another is not noticed.
Skip ==
  /\ pc = "sense" /\ CarTime /\ Elapse
  /\ upFor' = Running(upFor, UpDelay + 1) /\ downFor' = Running(downFor, DownDelay + 1)
  /\ missed' = StillMissed
  /\ UNCHANGED <<pc, locals, connected, user, state, pending, switches, believed, contra,
                 drawing, stopOut, blame>>

-----------------------------------------------------------------------------
(* Want: what the phases should be.                                        *)

MutAim(t) ==
  /\ target' = t /\ count' = count
  /\ tried' = (tried /\ target = t) /\ logged' = (logged /\ target = t)
  /\ desired' = (IF count >= NotTaking THEN NoPhase ELSE t)
\* A target that is new forgets what was held against the old one; a target the box
\* did not take is not asked for.
Aim(t) ==
  /\ target' = t /\ count' = (IF target = t THEN count ELSE 0)
  /\ tried' = (tried /\ target = t) /\ logged' = (logged /\ target = t)
  /\ desired' = (IF count' >= NotTaking THEN NoPhase ELSE t)

NoAim == desired' = NoPhase /\ UNCHANGED <<target, count, blame>>

Wanting ==
  /\ pc = "want" /\ pc' = "tick"
  /\ pressing' = FALSE   \* read once
  /\ UNCHANGED <<ready, plug, connected, user, seq, autoAge, switches, believed,
                 asserted, drawing, pluggedFor, autoSwitches, missed, lastSwitch, stopOut>>

WantManual == Wanting /\ mode # AutoMode /\ Aim(mode) /\ UNCHANGED <<upFor, downFor>>

\* No car, no power question.
WantNothing == Wanting /\ mode = AutoMode /\ ~connected /\ NoAim /\ UNCHANGED <<upFor, downFor>>

\* The planner's sustain clocks run first; the gates only veto its answer.
Since(age, holds) == IF ~holds THEN -1 ELSE IF age = -1 THEN 0 ELSE age
Headroom == believed \in {1, 2} /\ pressing
Starvation == believed = 3 /\ pressing

Permitted == switches < AutoMax /\ autoAge = AutoInterval

WantAuto ==
  /\ Wanting /\ mode = AutoMode /\ connected
  /\ upFor' = Since(upFor, Headroom) /\ downFor' = Since(downFor, Starvation)
  /\ IF Permitted /\ believed = 3 /\ downFor' > DownDelay THEN Aim(1)
     ELSE IF Permitted /\ believed = 1 /\ upFor' > UpDelay THEN Aim(3)
     ELSE NoAim

-----------------------------------------------------------------------------
(* The sequencer, and what the caller does with its answer.                *)

Reached == desired = NoPhase \/ desired = believed

\* The end of the cycle: its local values are gone.
Row ==
  /\ pc = "tick" /\ pc' = "sense"
  /\ ready' = TRUE /\ desired' = NoPhase
  /\ UNCHANGED <<pressing, plug, connected, user, drawing, pluggedFor, missed>>

Quiet == UNCHANGED <<planner, autoSwitches, lastSwitch, blame>>

\* Nothing to do, or too soon after the last switch.
Rest ==
  /\ state = "idle" /\ (~ready \/ Reached \/ gapAge < Gap)
  /\ Row /\ Quiet /\ UNCHANGED <<seq, believed, contra, stopOut>>

\* The charge of this cycle is held; the stop leaves the house unless SEM only observes (what the
\* charger's reconciler may hold back of it aside).
StopGoesOut == stopOut' = (stopOut \/ ~observer)

StartStop ==
  /\ state = "idle" /\ ready /\ ~Reached /\ gapAge = Gap /\ drawing /\ StopGoesOut
  /\ state' = "stopping" /\ pending' = desired /\ since' = 0
  /\ Row /\ Quiet /\ UNCHANGED <<gapAge, believed, contra>>

MutPatient == TRUE
Patient == since < StopWait

AwaitStop ==
  /\ state = "stopping" /\ ready /\ ~Reached /\ drawing /\ Patient /\ StopGoesOut
  /\ Row /\ Quiet /\ UNCHANGED <<seq, believed, contra>>

Abort ==
  state' = "idle" /\ pending' = NoPhase /\ since' = 0 /\ gapAge' = gapAge /\ stopOut' = FALSE

GivingUp ==
  /\ state = "stopping" /\ ready /\ ~Reached /\ drawing /\ ~Patient
  /\ Abort
  /\ Row /\ UNCHANGED <<believed, asserted, planner, autoSwitches, lastSwitch>>

MutGiveUp == GivingUp /\ UNCHANGED <<target, count, blame>>
\* The box kept drawing through the stop: the target is dropped, except in observer mode.
\* Only this cycle's mode is asked, not that of the cycles in which the stop was due.
GiveUp ==
  /\ GivingUp
  /\ IF observer THEN UNCHANGED <<target, count, blame>>
     ELSE /\ target' = desired /\ count' = NotTaking
          /\ tried' = (tried \/ stopOut) /\ logged' = (logged \/ ~stopOut)

DropIt ==
  /\ (state = "stopping" /\ (~ready \/ Reached)) \/ (state = "settling" /\ ~ready)
  /\ Abort
  /\ Row /\ Quiet /\ UNCHANGED <<believed, contra>>

MutNoteSwitched ==
  /\ autoAge' = (IF mode = AutoMode THEN 0 ELSE autoAge) /\ switches' = Older(switches, AutoMax)
  /\ upFor' = -1 /\ downFor' = -1
\* planner.note_switched, for a manual switch and in observer mode too.
NoteSwitched ==
  /\ autoAge' = 0 /\ switches' = Older(switches, AutoMax)
  /\ upFor' = -1 /\ downFor' = -1

\* The one service call; a call that raises is only logged, and in observer mode it is only
\* logged that it would have been made: neither is told from a box that does not switch.
Fire ==
  /\ state = "stopping" \/ (state = "idle" /\ gapAge = Gap)
  /\ ready /\ ~Reached /\ ~drawing
  /\ state' = "settling" /\ pending' = desired /\ since' = 0 /\ gapAge' = 0
  /\ NoteSwitched
  /\ autoSwitches' = (IF mode = AutoMode THEN Older(autoSwitches, AutoMax + 1) ELSE autoSwitches)
  /\ lastSwitch' = 0 /\ stopOut' = FALSE
  /\ tried' = (tried \/ ~observer) /\ logged' = (logged \/ observer)
  /\ Row /\ UNCHANGED <<believed, contra>>

HoldStill ==
  /\ state = "settling" /\ ready /\ since <= Settle
  /\ Row /\ Quiet /\ UNCHANGED <<seq, believed, contra, stopOut>>

\* The command is assumed to have taken, said once; from then on measurement decides.
SettleEnd ==
  /\ state = "settling" /\ ready /\ since > Settle
  /\ Abort /\ believed' = pending /\ asserted' = pending
  /\ Row /\ Quiet /\ UNCHANGED <<target, count>>

-----------------------------------------------------------------------------
(* Between two cycles.                                                     *)

Between ==
  pc = "sense" /\ UNCHANGED <<pc, locals, plug, connected, seq, planner, believed, contra, ghosts>>

CarMoves == Between /\ plug /\ drawing' = ~drawing /\ UNCHANGED user
UserChooses == Between /\ mode' \in {AutoMode, 1, 3} \ {mode} /\ UNCHANGED <<observer, drawing>>
ToggleObserver == Between /\ observer' = ~observer /\ UNCHANGED <<mode, drawing>>

Rows == Rest \/ StartStop \/ AwaitStop \/ GiveUp \/ DropIt \/ Fire \/ HoldStill \/ SettleEnd
Cycle == Measure \/ Skip \/ WantManual \/ WantNothing \/ WantAuto \/ Rows
Next == Cycle \/ CarMoves \/ UserChooses \/ ToggleObserver

\* The coordinator keeps running its cycle.
Spec == Init /\ [][Next]_vars /\ WF_vars(Cycle)

-----------------------------------------------------------------------------
(* Properties.                                                             *)

\* The charger is not passed over for good; while it is, no tick holds its charge.
Ticking == []<>(pc = "tick")

\* #804: whatever the box does and the user wants, no charger is held hostage: while the
\* tick runs, the sequence lets go of the charge commands again and again.
NeverHostage == Ticking => []<>(state = "idle")

\* #804, the contradiction cap: a manual target is tried for so long and no longer; from
\* some point on a box that does not stop, or does not switch, is left to charge.  In
\* observer mode nothing is given up, nor sent.
RetriesEnd ==
  \A m \in {1, 3} :
    Ticking /\ <>[](mode = m /\ ready /\ plug /\ ~observer) => <>[](state = "idle")

\* The contactor's protection: no two switches closer than Gap, whoever asks, and an automatic
\* one at least AutoInterval after any other, a replug between them or not.
Fired == state # "settling" /\ state' = "settling"
ContactorSpared ==
  [][Fired => lastSwitch >= Gap /\ (mode = AutoMode => lastSwitch >= AutoInterval)]_vars

\* A plugged-in car meets at most AutoMax automatic switches.
BudgetKept == autoSwitches <= AutoMax

\* #1008: an automatic switch rests on a window that filled while this car was plugged in,
\* never on what the last car left behind, a car the tick missed coming excepted.
OwnWindow ==
  [][Fired /\ mode = AutoMode /\ ~missed
       => pluggedFor > (IF pending' = 3 THEN UpDelay ELSE DownDelay)]_vars

\* A target is only called not-taking when, since it was set, a switch was sent for it or a
\* stop that the box drew through; what observer mode did not send may be blamed as well.
BlameHasCause == count = NotTaking /\ ~logged => tried
=============================================================================
