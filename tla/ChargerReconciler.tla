-------------------------- MODULE ChargerReconciler --------------------------
(***************************************************************************)
(* coordinator/charger_reconciler.py: the one path that commands a wallbox.*)
(* Once per coordinator cycle it compares what SEM wants with what it      *)
(* observes and answers with actions; its memory is what keeps it from     *)
(* strobing a contactor, fighting a box that restarts itself, or touching  *)
(* a charger the user has taken over.                                      *)
(*                                                                         *)
(* A cycle is two or three steps: Sense takes the wish and the observation *)
(* of the cycle and lets the clocks run; the rows senior to the table      *)
(* (hands-off, failsafe cleared, plug) answer or pass on; then one row of  *)
(* the table answers.  The rows stand in the order of the code's early     *)
(* returns.  This module leaves wish and observation to the environment;   *)
(* ChargerLoop closes the loop with a box.                                 *)
(*                                                                         *)
(* Clocks are ages in ticks that stop at the threshold they are compared   *)
(* with; -inf in the code ("never") is an age at that threshold.           *)
(***************************************************************************)
EXTENDS Integers

CONSTANTS
  Wishes,         \* [desired : {"OFF","IDLE","CHARGE","RELEASED"}, safety : BOOLEAN]
  Observations,   \* what a cycle may observe, see ObservationOK
  Steps,          \* ticks between two cycles
  ParkCycles,     \* PARK_ON_DISCONNECT_CYCLES
  IdleThreshold,  \* idle_disable_threshold: grace cycles before an idle stop
  WarRounds,      \* STOP_WAR_ROUNDS
  Backoff,        \* STOP_WAR_BACKOFF_S
  MaxFactor,      \* STOP_WAR_BACKOFF_MAX_FACTOR
  QuietReset,     \* STOP_WAR_QUIET_RESET_S
  Dwell,          \* STOP_REASSERT_DWELL_S
  MinOn, MinOff,  \* CONTACTOR_MIN_ON_S, CONTACTOR_MIN_OFF_S
  MaxAttempts,    \* max_enable_attempts
  EnableRetry,    \* enable_retry_interval_s
  Heartbeat,      \* heartbeat_s
  Rebuilds        \* an options reload may build a new reconciler at any time

\* observed.charging, .self_charging, .connected, .enabled (the enable switch: "open"
\* is off, "unknown" unreadable), .enable_controllable, .stop_controllable,
\* .contactor_surface, and whether the setpoint differs from the wished amps.
ObservationOK(o) ==
  /\ o.charging \in BOOLEAN /\ o.selfCharging \in BOOLEAN /\ o.connected \in BOOLEAN
  /\ o.enabled \in {"open", "closed", "unknown"} /\ o.controllable \in BOOLEAN
  /\ o.stoppable \in BOOLEAN /\ o.surface \in BOOLEAN /\ o.drift \in BOOLEAN

ASSUME WishAssumption == \A w \in Wishes :
  w.desired \in {"OFF", "IDLE", "CHARGE", "RELEASED"} /\ w.safety \in BOOLEAN
ASSUME ObservationAssumption == \A o \in Observations : ObservationOK(o)
ASSUME TimeAssumption ==
  /\ Steps \subseteq Nat \ {0}
  /\ ParkCycles \in Nat \ {0} /\ IdleThreshold \in Nat \ {0} /\ WarRounds \in Nat \ {0}
  /\ Backoff \in Nat \ {0} /\ MaxFactor \in Nat \ {0} /\ QuietReset \in Nat /\ Dwell \in Nat
  /\ MinOn \in Nat /\ MinOff \in Nat /\ MaxAttempts \in Nat \ {0} /\ EnableRetry \in Nat
  /\ Heartbeat \in Nat /\ Rebuilds \in BOOLEAN

VARIABLES
  pc,            \* "sense": between two cycles; "enter", "decide": inside one
  wish, obs,     \* the inputs of the cycle
  previous,      \* the desired state of the cycle before, "none" at boot
  acts,          \* the actions the last cycle answered
  intent,        \* _charging_intent_active
  idleCount,     \* _consecutive_idle_count
  settled,       \* _idle_settled
  seen,          \* _seen_connected
  parked,        \* _parked_off
  awayRun,       \* _disconnect_run, up to ParkCycles
  rounds,        \* _stop_war_rounds, up to WarRounds + 1
  roundAge,      \* now - _stop_war_last_round_at
  truce,         \* what is left of the ceasefire: _stop_war_backoff_until - now
  drawSeen,      \* _stop_war_draw_seen
  factor,        \* of the next ceasefire: min(2 ** _stop_war_ceasefires, MaxFactor)
  stopAge,       \* now - _last_disable_at
  releasedStop,  \* _released_stop_issued
  belief,        \* _contactor_closed: "closed", "open", "unknown"
  closeAge,      \* now - _contactor_closed_at
  openAge,       \* now - _contactor_opened_at
  attempts,      \* _enable_attempts
  gaveUpAge,     \* now - _enable_gave_up_at
  writeAge,      \* now - _last_write_at
  named          \* _failsafe_reported

inputs == <<wish, obs, previous>>
idle   == <<intent, idleCount, settled>>
plug   == <<seen, parked, awayRun>>
war    == <<rounds, roundAge, truce, drawSeen, factor>>
relay  == <<belief, closeAge, openAge>>
enable == <<attempts, gaveUpAge>>
vars == <<pc, inputs, acts, idle, plug, war, stopAge, releasedStop, relay, enable,
          writeAge, named>>

Commands == {"DISABLE", "PARK_OFF", "ENABLE", "START_AND_WRITE", "WRITE_CURRENT"}
Reports  == {"REPORT_STOP_WAR", "REPORT_STOP_UNENFORCEABLE", "REPORT_ENABLE_BLOCKED",
             "REPORT_FAILSAFE_SUSPECTED", "CLEAR_FAILSAFE_SUSPECTED"}
Boot == [desired |-> "none", safety |-> FALSE]   \* no cycle has run yet

AgesOK ==
  /\ idleCount \in 0 .. IdleThreshold /\ awayRun \in 0 .. ParkCycles
  /\ rounds \in 0 .. WarRounds + 1 /\ factor \in 1 .. MaxFactor
  /\ roundAge \in 0 .. QuietReset + 1 /\ truce \in Nat
  /\ stopAge \in 0 .. Dwell /\ closeAge \in 0 .. MinOn /\ openAge \in 0 .. MinOff
  /\ attempts \in 0 .. MaxAttempts /\ gaveUpAge \in 0 .. EnableRetry
  /\ writeAge \in 0 .. Heartbeat

FlagsOK ==
  /\ pc \in {"sense", "enter", "decide"} /\ wish \in Wishes \cup {Boot}
  /\ obs \in Observations
  /\ previous \in {"none", "OFF", "IDLE", "CHARGE", "RELEASED"}
  /\ acts \subseteq Commands \cup Reports
  /\ intent \in BOOLEAN /\ settled \in BOOLEAN /\ seen \in BOOLEAN /\ parked \in BOOLEAN
  /\ drawSeen \in BOOLEAN /\ releasedStop \in BOOLEAN /\ named \in BOOLEAN
  /\ belief \in {"open", "closed", "unknown"}

TypeOK == AgesOK /\ FlagsOK

\* A reconciler just built: at setup, or by an options reload.
Init ==
  /\ pc = "sense" /\ wish = Boot /\ obs \in Observations /\ previous = "none"
  /\ acts = {}
  /\ intent = FALSE /\ idleCount = 0 /\ settled = TRUE
  /\ seen = FALSE /\ parked = FALSE /\ awayRun = 0
  /\ rounds = 0 /\ roundAge = QuietReset + 1 /\ truce = 0 /\ drawSeen = FALSE /\ factor = 1
  /\ stopAge = Dwell /\ releasedStop = TRUE
  /\ belief = "unknown" /\ closeAge = MinOn /\ openAge = MinOff
  /\ attempts = 0 /\ gaveUpAge = EnableRetry /\ writeAge = Heartbeat /\ named = FALSE

(***************************************************************************)
(* The cycle's inputs.  A readable enable switch overrides the belief about*)
(* the relay in both directions, and stamps no clock.                      *)
(***************************************************************************)
Older(age, d, cap) == IF age + d < cap THEN age + d ELSE cap

Elapse(d) ==
  /\ roundAge' = Older(roundAge, d, QuietReset + 1)
  /\ truce' = IF truce > d THEN truce - d ELSE 0
  /\ stopAge' = Older(stopAge, d, Dwell)
  /\ closeAge' = Older(closeAge, d, MinOn)
  /\ openAge' = Older(openAge, d, MinOff)
  /\ gaveUpAge' = Older(gaveUpAge, d, EnableRetry)
  /\ writeAge' = Older(writeAge, d, Heartbeat)

Adopt(reading) == IF reading = "unknown" THEN belief ELSE reading

Sense(w, o, d) ==
  /\ pc = "sense" /\ pc' = "enter"
  /\ previous' = wish.desired /\ wish' = w /\ obs' = o /\ acts' = {}
  /\ Elapse(d) /\ belief' = Adopt(o.enabled)
  /\ UNCHANGED <<idle, plug, rounds, drawSeen, factor, releasedStop, attempts, named>>

Answer(as) == pc' = "sense" /\ acts' = as /\ UNCHANGED inputs

NoteOpened ==
  /\ belief' = "open" /\ openAge' = (IF belief = "open" THEN openAge ELSE 0)
  /\ UNCHANGED closeAge
NoteClosed ==
  /\ belief' = "closed" /\ closeAge' = (IF belief = "closed" THEN closeAge ELSE 0)
  /\ UNCHANGED openAge

MutEndStopWar ==
  /\ rounds' = 0 /\ drawSeen' = FALSE /\ factor' = 1 /\ UNCHANGED <<roundAge, truce>>
EndStopWar ==
  /\ rounds' = 0 /\ truce' = 0 /\ drawSeen' = FALSE /\ factor' = 1
  /\ UNCHANGED roundAge

(***************************************************************************)
(* The rows senior to the table.                                           *)
(***************************************************************************)
MutReleased ==      \* the latch is only set by the stop itself
  /\ pc = "enter" /\ wish.desired = "RELEASED"
  /\ EndStopWar /\ idleCount' = 0 /\ settled' = FALSE
  /\ seen' = (seen \/ obs.connected)
  /\ awayRun' = (IF obs.connected THEN 0 ELSE awayRun)
  /\ releasedStop' = (releasedStop \/ intent \/ obs.charging)
  /\ UNCHANGED <<parked, writeAge>>
\* Row 0: mode Off.  Entering it earns one stop for whatever is charging.
Released ==
  /\ pc = "enter" /\ wish.desired = "RELEASED"
  /\ EndStopWar /\ idleCount' = 0 /\ settled' = FALSE
  /\ seen' = (seen \/ obs.connected)
  /\ awayRun' = (IF obs.connected THEN 0 ELSE awayRun)
  /\ releasedStop' = TRUE
  /\ UNCHANGED <<parked, writeAge>>

StopOnRelease ==
  /\ Released /\ ~releasedStop /\ (intent \/ obs.charging)
  /\ Answer({"DISABLE"}) /\ NoteOpened
  /\ intent' = FALSE /\ stopAge' = 0 /\ attempts' = 0 /\ gaveUpAge' = EnableRetry
  /\ UNCHANGED named

\* From then on nothing is sent; a self-re-enable on a constant interval may be named
\* (or, having held, cleared), the gap arithmetic being left out.
HandsOff ==
  /\ Released /\ (releasedStop \/ ~(intent \/ obs.charging))
  /\ \/ Answer({}) /\ UNCHANGED named
     \/ obs.charging /\ ~named /\ named' = TRUE /\ Answer({"REPORT_FAILSAFE_SUSPECTED"})
     \/ ~obs.charging /\ named /\ named' = FALSE /\ Answer({"CLEAR_FAILSAFE_SUSPECTED"})
  /\ UNCHANGED <<intent, stopAge, relay, enable>>

Engaged == pc = "enter" /\ wish.desired # "RELEASED" /\ releasedStop' = FALSE

\* A stop has held for twice the learned interval (never under Dwell): return early.
ClearFailsafe ==
  /\ Engaged /\ named /\ ~obs.charging /\ stopAge = Dwell
  /\ named' = FALSE /\ Answer({"CLEAR_FAILSAFE_SUSPECTED"})
  /\ UNCHANGED <<idle, plug, war, stopAge, relay, enable, writeAge>>

Plugged ==
  /\ Engaged /\ obs.connected
  /\ seen' = TRUE /\ awayRun' = 0 /\ parked' = FALSE /\ pc' = "decide"
  /\ UNCHANGED <<inputs, acts, idle, war, stopAge, relay, enable, writeAge, named>>

CarLeft == seen /\ awayRun + 1 >= ParkCycles /\ ~parked

Away ==
  /\ Engaged /\ ~obs.connected /\ EndStopWar
  /\ awayRun' = Older(awayRun, 1, ParkCycles)
  /\ UNCHANGED <<seen, idle, stopAge, enable, writeAge, named>>

Park == Away /\ CarLeft /\ parked' = TRUE /\ Answer({"PARK_OFF"}) /\ NoteOpened

Unplugged ==
  /\ Away /\ ~CarLeft /\ pc' = "decide"
  /\ UNCHANGED <<parked, relay, inputs, acts>>

(***************************************************************************)
(* OFF and IDLE: the contactor should be open.                             *)
(***************************************************************************)
Drawing == obs.charging \/ obs.selfCharging
WasSettled == settled /\ ~intent          \* leaving CHARGE begins a wind-down
Demand == wish.desired = "OFF" \/ wish.safety
Opposed == wish.desired = "OFF" \/ WasSettled
MutQuietSpell == FALSE
QuietSpell == rounds > 0 /\ roundAge > QuietReset

Stopping ==
  /\ pc = "decide" /\ wish.desired \in {"OFF", "IDLE"}
  /\ intent' = FALSE /\ attempts' = 0 /\ gaveUpAge' = EnableRetry
  /\ UNCHANGED <<plug, releasedStop, writeAge>>

\* Row 2: already converged, nothing is sent.
Converged ==
  /\ Stopping /\ ~Drawing /\ Answer({})
  /\ idleCount' = 0 /\ settled' = TRUE /\ drawSeen' = FALSE
  /\ rounds' = (IF QuietSpell THEN 0 ELSE rounds)
  /\ factor' = (IF QuietSpell THEN 1 ELSE factor)
  /\ UNCHANGED <<roundAge, truce, stopAge, relay, named>>

Resisted == Stopping /\ Drawing /\ settled' = WasSettled

\* No mechanism can open this contactor: send the stop all the same, stamp nothing.
Unenforceable ==
  /\ Resisted /\ ~obs.stoppable
  /\ Answer({"DISABLE", "REPORT_STOP_UNENFORCEABLE"})
  /\ UNCHANGED <<idleCount, war, stopAge, relay, named>>

\* The ceasefire holds: the box may finish its session.
StandDown ==
  /\ Resisted /\ obs.stoppable /\ Opposed /\ truce > 0
  /\ Answer({"REPORT_STOP_WAR"})
  /\ UNCHANGED <<idleCount, war, stopAge, relay, named>>

\* A round of the war: the box draws again after a stop that had landed.
NextRound == IF QuietSpell THEN 1 ELSE Older(rounds, 1, WarRounds + 1)
Fighting == Resisted /\ obs.stoppable /\ Opposed /\ truce = 0

DeclareTruce ==
  /\ Fighting /\ ~drawSeen /\ NextRound > WarRounds
  /\ rounds' = NextRound /\ roundAge' = 0 /\ drawSeen' = TRUE
  /\ truce' = Backoff * factor /\ factor' = Older(factor, factor, MaxFactor)
  /\ Answer({"REPORT_STOP_WAR"})
  /\ UNCHANGED <<idleCount, stopAge, relay, named>>

CountRound ==
  \/ drawSeen /\ UNCHANGED war
  \/ /\ ~drawSeen /\ NextRound <= WarRounds
     /\ rounds' = NextRound /\ roundAge' = 0 /\ drawSeen' = TRUE
     /\ UNCHANGED <<truce, factor>>

\* One DISABLE per dwell, and a discretionary one never inside the minimum ON.
HeldOn == ~Demand /\ obs.surface /\ closeAge < MinOn

MutGatedDisable(reports) ==   \* the dwell begins anew with every stop it holds back
  \/ (HeldOn \/ stopAge < Dwell) /\ Answer(reports) /\ stopAge' = 0 /\ UNCHANGED relay
  \/ ~HeldOn /\ stopAge = Dwell
     /\ Answer(reports \cup {"DISABLE"}) /\ stopAge' = 0 /\ NoteOpened
GatedDisable(reports) ==
  \/ (HeldOn \/ stopAge < Dwell) /\ Answer(reports) /\ UNCHANGED <<stopAge, relay>>
  \/ /\ ~HeldOn /\ stopAge = Dwell
     /\ Answer(reports \cup {"DISABLE"}) /\ stopAge' = 0 /\ NoteOpened

Locked == IF obs.connected THEN {"REPORT_ENABLE_BLOCKED"} ELSE {}

\* Row 1: OFF.  The failsafe may be named on the way (gap arithmetic left out).
StopOff ==
  /\ Fighting /\ wish.desired = "OFF" /\ CountRound /\ UNCHANGED idleCount
  /\ \E names \in SUBSET {"REPORT_FAILSAFE_SUSPECTED"} :
       /\ (names # {} => ~named) /\ named' = (named \/ names # {})
       /\ \/ obs.controllable /\ GatedDisable(names)
          \/ ~obs.controllable /\ Answer(names \cup Locked) /\ UNCHANGED <<stopAge, relay>>

\* A draw after idle had settled is a rogue start: no grace.
StopRogue ==
  /\ Fighting /\ wish.desired = "IDLE" /\ CountRound /\ GatedDisable({})
  /\ UNCHANGED <<idleCount, named>>

\* Rows 3-4: SEM's own session winding down, after the flicker grace.
WindDown ==
  /\ Resisted /\ obs.stoppable /\ ~Opposed
  /\ idleCount' = Older(idleCount, 1, IdleThreshold)
  /\ \/ idleCount' < IdleThreshold /\ Answer({}) /\ UNCHANGED <<stopAge, relay>>
     \/ idleCount' = IdleThreshold /\ GatedDisable({})
  /\ UNCHANGED <<war, named>>

(***************************************************************************)
(* CHARGE: the contactor should be closed and the setpoint fed.            *)
(***************************************************************************)
MutHeldOffEarly ==
  belief # "closed" /\ obs.controllable /\ obs.surface /\ openAge + 1 < MinOff
MutHeldOff == ~intent /\ obs.controllable /\ obs.surface /\ openAge < MinOff
HeldOff == belief # "closed" /\ obs.controllable /\ obs.surface /\ openAge < MinOff
GaveUp == attempts = MaxAttempts
MutBacked == obs.enabled = "open" /\ GaveUp
Backed == obs.enabled = "open" /\ GaveUp /\ gaveUpAge < EnableRetry

Charging ==
  /\ pc = "decide" /\ wish.desired = "CHARGE" /\ EndStopWar /\ idleCount' = 0
  /\ UNCHANGED <<settled, plug, stopAge, releasedStop, named>>

\* The anti-cycle floor, and the rows that only report.
ChargeHeld ==
  /\ Charging
  /\ \/ HeldOff /\ Answer({})
     \/ ~HeldOff /\ ~obs.controllable /\ Answer(Locked)
     \/ ~HeldOff /\ obs.controllable /\ Backed /\ Answer({"REPORT_ENABLE_BLOCKED"})
  /\ UNCHANGED <<intent, relay, enable, writeAge>>

\* Re-assert a switch that is off: MaxAttempts times, then once per EnableRetry.
Reassert ==
  \/ /\ ~GaveUp /\ attempts' = attempts + 1
     /\ gaveUpAge' = (IF attempts + 1 = MaxAttempts THEN 0 ELSE gaveUpAge)
  \/ GaveUp /\ gaveUpAge' = 0 /\ UNCHANGED attempts

\* Rows 5-8: start the session, correct the setpoint, feed the watchdog, or nothing.
Current ==
  IF ~intent THEN {"START_AND_WRITE"}
  ELSE IF obs.drift \/ writeAge = Heartbeat THEN {"WRITE_CURRENT"} ELSE {}

ChargeRow(enables) ==
  /\ Charging /\ ~HeldOff /\ obs.controllable /\ ~Backed
  /\ Answer(enables \cup Current)
  /\ intent' = TRUE /\ writeAge' = (IF Current = {} THEN writeAge ELSE 0)
  /\ IF enables \cup Current \in {{}, {"WRITE_CURRENT"}} THEN UNCHANGED relay ELSE NoteClosed

Charge == obs.enabled # "open" /\ ChargeRow({}) /\ attempts' = 0 /\ gaveUpAge' = EnableRetry
ChargeEnable == obs.enabled = "open" /\ ChargeRow({"ENABLE"}) /\ Reassert

(***************************************************************************)
(* An options reload rebuilds the reconciler between two cycles.           *)
(***************************************************************************)
Rebuild ==
  /\ Rebuilds /\ pc = "sense" /\ wish # Boot
  /\ wish' = Boot /\ previous' = "none" /\ acts' = {}
  /\ intent' = FALSE /\ idleCount' = 0 /\ settled' = TRUE
  /\ seen' = FALSE /\ parked' = FALSE /\ awayRun' = 0
  /\ rounds' = 0 /\ roundAge' = QuietReset + 1 /\ truce' = 0 /\ drawSeen' = FALSE
  /\ factor' = 1 /\ stopAge' = Dwell /\ releasedStop' = TRUE
  /\ belief' = "unknown" /\ closeAge' = MinOn /\ openAge' = MinOff
  /\ attempts' = 0 /\ gaveUpAge' = EnableRetry /\ writeAge' = Heartbeat /\ named' = FALSE
  /\ UNCHANGED <<pc, obs>>

Rows ==
  \/ StopOnRelease \/ HandsOff \/ ClearFailsafe \/ Plugged \/ Park \/ Unplugged
  \/ Converged \/ Unenforceable \/ StandDown \/ DeclareTruce \/ StopOff \/ StopRogue
  \/ WindDown \/ ChargeHeld \/ Charge \/ ChargeEnable

Sensing == \E w \in Wishes, o \in Observations, d \in Steps : Sense(w, o, d)
Cycle == Sensing \/ Rows
Next == Cycle \/ Rebuild

\* The coordinator keeps running its cycle.
Spec == Init /\ [][Next]_vars /\ WF_vars(Cycle)

-----------------------------------------------------------------------------
(***************************************************************************)
(* Properties.                                                             *)
(***************************************************************************)
\* While SEM has stood down from a stop war it sends that box no stop it could obey,
\* by whatever row: the wind-down row has no ceasefire check of its own.
CeasefireHolds ==
  pc = "sense" /\ truce > 0 /\ "DISABLE" \in acts => "REPORT_STOP_UNENFORCEABLE" \in acts

\* Mode Off is hands-off: a cycle in Off sends nothing unless it is the one that entered
\* Off, and a reconciler that boots into Off has nothing to send at all.
OffIsHandsOff ==
  pc = "sense" /\ wish.desired = "RELEASED" /\ previous \in {"RELEASED", "none"}
    => acts \cap Commands = {}

\* The device's failsafe watchdog is fed: whatever stops, locks and back-offs came before,
\* a CHARGE cycle that reads its switch closed leaves a write no older than the heartbeat.
WatchdogFed ==
  pc = "sense" /\ wish.desired = "CHARGE" /\ obs.enabled = "closed" /\ obs.controllable
    => \/ writeAge < Heartbeat
       \/ acts \cap {"START_AND_WRITE", "WRITE_CURRENT"} # {}
       \/ "PARK_OFF" \in acts \/ "CLEAR_FAILSAFE_SUSPECTED" \in acts

\* A stop SEM insists on is never given up for good: however long the ceasefires grow, a
\* box that keeps drawing against OFF is sent a stop again and again.
StopReturns ==
  <>[](wish.desired = "OFF" /\ obs.stoppable /\ obs.controllable)
    => ([]<>(pc = "decide" /\ Drawing) => []<>("DISABLE" \in acts))

\* A box that keeps its switch off is probed forever, not only MaxAttempts times.
EnableProbed ==
  <>[](wish.desired = "CHARGE" /\ obs.enabled = "open" /\ obs.controllable /\ obs.connected)
    => []<>("ENABLE" \in acts)
=============================================================================
