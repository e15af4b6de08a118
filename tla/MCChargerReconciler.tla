------------------------- MODULE MCChargerReconciler -------------------------
(***************************************************************************)
(* The wishes and observations of the runs of ChargerReconciler.           *)
(***************************************************************************)
EXTENDS ChargerReconciler

Want(d, s) == [desired |-> d, safety |-> s]
See(charging, enabled, connected, controllable, stoppable) ==
  [charging |-> charging, selfCharging |-> FALSE, connected |-> connected,
   enabled |-> enabled, controllable |-> controllable, stoppable |-> stoppable,
   surface |-> TRUE, drift |-> FALSE]

\* A stop war: every wish, and a box that draws or does not, with or without a car.
WarWishes == {Want(d, FALSE) : d \in {"OFF", "IDLE", "CHARGE", "RELEASED"}}
                \cup {Want("IDLE", TRUE)}
WarSights == {See(c, "unknown", p, TRUE, TRUE) : c, p \in BOOLEAN}
                \cup {See(TRUE, "unknown", TRUE, TRUE, FALSE),
                      [See(FALSE, "unknown", TRUE, TRUE, TRUE) EXCEPT !.selfCharging = TRUE]}

\* An enable switch: off, on, unreadable or locked.
SwitchWishes == {Want(d, FALSE) : d \in {"OFF", "CHARGE", "RELEASED"}}
SwitchSights == {See(c, e, TRUE, TRUE, TRUE) : c \in BOOLEAN, e \in {"open", "closed"}}
                  \cup {See(FALSE, "unknown", FALSE, FALSE, TRUE),
                        See(FALSE, "unknown", TRUE, FALSE, TRUE),
                        [See(TRUE, "closed", TRUE, TRUE, TRUE) EXCEPT !.drift = TRUE]}

EachTick == {1}

\* Everything at once.
AllWishes == WarWishes \cup SwitchWishes
AllSights == WarSights \cup SwitchSights
=============================================================================
