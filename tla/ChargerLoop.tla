----------------------------- MODULE ChargerLoop -----------------------------
(***************************************************************************)
(* ChargerReconciler closed over the wallbox it commands: a relay, the     *)
(* session flag of the device (devices/base.py), the switch entity SEM     *)
(* reads the relay from, a car.  The wish stays free, as fast as a decision*)
(* may flap.  Checked against RelayPromise.                                *)
(***************************************************************************)
EXTENDS ChargerReconciler

CONSTANT Setups   \* the chargers there may be, see LoopAssumption

ASSUME LoopAssumption == \A s \in Setups :
  /\ s.readback \in {"none", "live", "polled"}     \* how the relay is read, if at all
  /\ s.faults \subseteq {"rogue", "lost", "dark"}  \* starts by itself, calls, the entity
ASSUME SightAssumption ==
  \A c, p, a \in BOOLEAN, e \in {"open", "closed", "unknown"} :
    [charging |-> c, selfCharging |-> FALSE, connected |-> p, enabled |-> e,
     controllable |-> a, stoppable |-> TRUE, surface |-> TRUE, drift |-> FALSE]
      \in Observations

VARIABLES
  contactor,             \* the box's relay
  shown,                 \* what the polled switch entity last read
  session,               \* _session_active of the device
  plugged, wants,        \* the car is there; it would draw
  mover,                 \* who moved the relay last: "sem" or "box"
  sinceOpen, sinceClose, \* since SEM last opened, closed it (ghosts of the promise)
  setup                  \* this charger's setup, fixed for a behaviour

box == <<contactor, shown, session, mover, sinceOpen, sinceClose>>
car == <<plugged, wants>>
lvars == <<vars, box, car, setup>>

LoopTypeOK ==
  /\ contactor \in {"open", "closed"} /\ shown \in {"open", "closed"}
  /\ session \in BOOLEAN /\ plugged \in BOOLEAN /\ wants \in BOOLEAN
  /\ mover \in {"sem", "box"} /\ sinceOpen \in 0 .. MinOff /\ sinceClose \in 0 .. MinOn
  /\ setup \in Setups

LoopInit ==
  /\ Init /\ setup \in Setups /\ contactor \in {"open", "closed"} /\ shown = contactor
  /\ session = FALSE /\ plugged \in BOOLEAN /\ wants \in BOOLEAN
  /\ mover = "box" /\ sinceOpen = MinOff /\ sinceClose = MinOn

SwitchReads ==
  CASE setup.readback = "live" -> contactor
    [] setup.readback = "polled" -> shown
    [] OTHER -> "unknown"

\* What observe() gets to see; a dark entity is unavailable to reads and to commands.
Reading(dark) ==
  [charging |-> contactor = "closed" /\ plugged /\ wants, selfCharging |-> FALSE,
   connected |-> plugged, enabled |-> IF dark THEN "unknown" ELSE SwitchReads,
   controllable |-> ~dark, stoppable |-> TRUE, surface |-> TRUE, drift |-> FALSE]

\* A charge is only ever wished for a car that is there (decide.py).
LoopSense(w, dark, d) ==
  /\ (w.desired = "CHARGE" => plugged) /\ (dark => "dark" \in setup.faults)
  /\ Sense(w, Reading(dark), d)
  /\ sinceOpen' = Older(sinceOpen, d, MinOff) /\ sinceClose' = Older(sinceClose, d, MinOn)
  /\ UNCHANGED <<contactor, shown, session, mover, car, setup>>

Opens == acts' \cap {"DISABLE", "PARK_OFF"} # {}

\* start_session is sent when no session is open and the switch does not already read
\* running; ensure_enabled is always sent.
Closes ==
  \/ "ENABLE" \in acts'
  \/ /\ acts' \cap {"START_AND_WRITE", "WRITE_CURRENT"} # {}
     /\ ~session /\ obs.enabled # "closed"

Calls == acts' \cap Commands # {}

Moved(to) ==
  /\ contactor' = to
  /\ mover' = (IF to = contactor THEN mover ELSE "sem")
  /\ sinceOpen' = (IF to = "open" /\ contactor = "closed" THEN 0 ELSE sinceOpen)
  /\ sinceClose' = (IF to = "closed" /\ contactor = "open" THEN 0 ELSE sinceClose)

Deaf == ~obs.controllable \/ "lost" \in setup.faults

Obey ==
  /\ UNCHANGED <<shown, car, setup>>
  /\ \/ Calls /\ session' = ~Opens /\ obs.controllable
        /\ Moved(IF Opens THEN "open" ELSE IF Closes THEN "closed" ELSE contactor)
     \/ (~Calls \/ Deaf) /\ UNCHANGED <<contactor, session, mover, sinceOpen, sinceClose>>

LoopRow == Rows /\ Obey

(***************************************************************************)
(* The world, between two cycles.                                          *)
(***************************************************************************)
Poll ==
  /\ pc = "sense" /\ shown # contactor /\ shown' = contactor
  /\ UNCHANGED <<vars, car, setup, contactor, session, mover, sinceOpen, sinceClose>>

RogueStart ==
  /\ pc = "sense" /\ "rogue" \in setup.faults /\ contactor = "open" /\ plugged
  /\ contactor' = "closed" /\ mover' = "box"
  /\ UNCHANGED <<vars, car, setup, shown, session, sinceOpen, sinceClose>>

CarChanges ==
  /\ pc = "sense" /\ plugged' \in BOOLEAN /\ wants' \in BOOLEAN /\ car' # car
  /\ UNCHANGED <<vars, box, setup>>

LoopSensing == \E w \in Wishes, dark \in BOOLEAN, d \in Steps : LoopSense(w, dark, d)
LoopNext == LoopSensing \/ LoopRow \/ Poll \/ RogueStart \/ CarChanges

LoopSpec ==
  LoopInit /\ [][LoopNext]_lvars /\ WF_lvars(LoopSensing \/ LoopRow) /\ WF_lvars(Poll)

-----------------------------------------------------------------------------
(***************************************************************************)
(* Properties.                                                             *)
(***************************************************************************)
\* A stop that is a demand: everything but a plain IDLE with the car still there.
DemandNow == wish.desired \in {"OFF", "RELEASED"} \/ wish.safety \/ ~obs.connected

Promise == INSTANCE RelayPromise WITH demand <- DemandNow

\* The reconciler and its box keep the anti-cycle promise, however fast the wish flaps.
KeepsPromise == Promise!Spec

\* The box behaves from some time on: no start by itself, no call lost, no entity dark.
Answering == pc # "sense" /\ pc' = "sense" /\ Calls
Behaves ==
  /\ <>[][~RogueStart]_lvars
  /\ <>[][Answering => session' = ~Opens /\ (Opens => contactor' = "open")]_lvars
  /\ <>[](obs.controllable)

\* OFF means off: under a lasting OFF a box that has come to its senses is stopped for good,
\* whatever the war with it left standing (a hold, a dwell, a ceasefire, a park).
OffStopsTheCar == Behaves /\ <>[](wish.desired = "OFF") => <>[](~obs.charging)
=============================================================================
