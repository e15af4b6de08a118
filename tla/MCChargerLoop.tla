---------------------------- MODULE MCChargerLoop ----------------------------
(***************************************************************************)
(* The wishes and observations of the runs of ChargerLoop.                 *)
(***************************************************************************)
EXTENDS ChargerLoop

AllWishes == {[desired |-> d, safety |-> FALSE] : d \in {"OFF", "IDLE", "CHARGE", "RELEASED"}}
               \cup {[desired |-> "IDLE", safety |-> TRUE]}
AllSights ==
  {[charging |-> c, selfCharging |-> FALSE, connected |-> p, enabled |-> e,
    controllable |-> a, stoppable |-> TRUE, surface |-> TRUE, drift |-> FALSE]
     : c, p, a \in BOOLEAN, e \in {"open", "closed", "unknown"}}
EachTick == {1}

\* Switches that read the relay live, on a box that starts by itself and a line that drops
\* calls, or whose entity goes dark; a charger whose relay cannot be read; a polled switch.
Chargers == {[readback |-> "live", faults |-> {"rogue", "lost"}],
             [readback |-> "live", faults |-> {"dark"}],
             [readback |-> "none", faults |-> {}]}
PolledSwitch == {[readback |-> "polled", faults |-> {}]}
=============================================================================
