---------------------------- MODULE ChargePause ----------------------------
(***************************************************************************)
(* The timed pause of a charger (#980), and every writer of the options    *)
(* row it lives in:                                                        *)
(*                                                                         *)
(*   charge_pause.py   the button's press, the sweep's tick, the rule that *)
(*                     a mode other than Off forgets the pause             *)
(*   __init__.py       persist_per_charger_option (button, select, sweep), *)
(*                     the set_option service and its merge                *)
(*   config_flow.py    the options dialog's draft of the charger list      *)
(*                                                                         *)
(* A pause is charge mode Off and two stored facts: when it ends and what  *)
(* to go back to.  Every writer replaces the whole row.  The button, the   *)
(* select and the sweep read and write in one go; the dialog holds its     *)
(* copy while the user turns pages, and the service holds its merge while  *)
(* the other settings of the same call are applied.  Both end in a reload, *)
(* and until that is through the coordinator has the old row.  The instant *)
(* a pause ends is kept as the time left, in every copy of it.  One        *)
(* charger; a write is on disk when it is made.                            *)
(***************************************************************************)
EXTENDS Naturals

CONSTANTS
  Modes,      \* the charge modes other than off
  Durations,  \* what the dropdown offers
  MaxPresses, \* bound: presses of the button
  Holders,    \* the writers that hold a copy: a subset of {"dialog", "service"}
  InFlight,   \* a cycle may run while a reload is on its way
  None

ASSUME PauseAssumption ==
  /\ "off" \notin Modes /\ None \notin Modes \cup {"off"} \cup Nat \cup [back : Modes, left : Nat]
  /\ Durations \subseteq Nat \ {0} /\ MaxPresses \in Nat
  /\ Holders \subseteq {"dialog", "service"} /\ InFlight \in BOOLEAN

VARIABLES
  stored,    \* the charger's row in entry.options: mode, until, resume
  live,      \* the same row in coordinator.config
  held,      \* each holder's copy: the row it read, the row it will write, the mode asked for
  reloading, \* a write that calls for a reload has been made
  presses,
  \* kept for the properties only
  owed,      \* the pause the user is owed: its way back and the time left, None
  lost       \* somebody has written, or decided, from a row that was no longer the stored one

pauseVars == <<stored, live, held, reloading, presses, owed, lost>>

Left == {0} \cup UNION {0 .. d : d \in Durations}
Rows == [mode : Modes \cup {"off"}, until : Left \cup {None}, resume : Modes \cup {None}]

PauseTypeOK ==
  /\ stored \in Rows /\ live \in Rows
  /\ held \in [Holders -> [read : Rows, row : Rows, asked : Modes \cup {"off", None}] \cup {None}]
  /\ reloading \in BOOLEAN /\ presses \in 0 .. MaxPresses /\ lost \in BOOLEAN
  /\ owed \in [back : Modes, left : Left] \cup {None}

PauseInit ==
  /\ stored \in [mode : Modes \cup {"off"}, until : {None}, resume : {None}]
  /\ live = stored /\ held = [h \in Holders |-> None]
  /\ reloading = FALSE /\ presses = 0 /\ owed = None /\ lost = FALSE

-----------------------------------------------------------------------------
(* Writing a row.                                                          *)

Cleared(row) == [row EXCEPT !.until = None, !.resume = None]

MutModeWritten(row, m) == [row EXCEPT !.mode = m]

\* forget_on_mode_write, in the same write as the mode.
ModeWritten(row, m) ==
  IF m = "off" THEN [row EXCEPT !.mode = m] ELSE [Cleared(row) EXCEPT !.mode = m]

\* persist_per_charger_option: into the stored row, mirrored to the coordinator, no reload.
Land(row) ==
  /\ stored' = row /\ live' = row
  /\ UNCHANGED <<held, reloading>>

Stale == lost \/ live # stored

\* The pause after the user has put the charger in mode m; Off leaves a pause running.
Spoken(m) == IF m \in Modes THEN None ELSE owed

-----------------------------------------------------------------------------
(* The writers that read and write in one go.                              *)

MutWayBack(row) == row.mode

\* The mode a pause remembers: never the Off that is the pause itself.
WayBack(row) == IF row.mode # "off" THEN row.mode ELSE row.resume

\* The button: pause for d, or run the pause again for d.  Off by hand is not a pause.
Press(d) ==
  LET back == WayBack(live)
      row  == [stored EXCEPT !.until = d, !.resume = back]
  IN /\ presses < MaxPresses /\ presses' = presses + 1
     /\ back # None
     /\ Land(IF live.mode # "off" THEN [row EXCEPT !.mode = "off"] ELSE row)
     /\ owed' = [back |-> IF owed # None THEN owed.back ELSE back, left |-> d]
     /\ lost' = Stale

\* The charge-mode select.
Choose(m) ==
  /\ Land(ModeWritten(stored, m))
  /\ owed' = Spoken(m) /\ UNCHANGED <<presses, lost>>

HoldsPause(row) == row.until # None \/ row.resume # None

\* tick has something to write: the knob was taken back, or the time is up.
Due(row) == HoldsPause(row) /\ (row.mode # "off" \/ row.until \in {0, None})

\* tick's writes, applied one key at a time to the row as stored now.
Ticked(seen, row) ==
  IF seen.mode = "off" /\ seen.resume # None
  THEN Cleared(ModeWritten(row, seen.resume))
  ELSE Cleared(row)

\* Every cycle, before the charger decisions.
Sweep ==
  /\ reloading => InFlight
  /\ Due(live) /\ Land(Ticked(live, stored))
  /\ owed' = (IF stored'.mode # "off" THEN None ELSE owed)
  /\ lost' = Stale /\ UNCHANGED presses

-----------------------------------------------------------------------------
(* The writers that hold a copy.                                           *)

Hold(h, row, m) ==
  /\ held[h] = None
  /\ held' = [held EXCEPT ![h] = [read |-> stored, row |-> row, asked |-> m]]
  /\ UNCHANGED <<stored, live, reloading, presses, owed, lost>>

\* The dialog's first page is submitted: the list goes into the draft.
OpenDialog == "dialog" \in Holders /\ Hold("dialog", stored, None)

\* set_option with a mode for the charger and other settings: merged first, those settings next.
CallService(m) == "service" \in Holders /\ Hold("service", ModeWritten(stored, m), m)

\* The copy replaces the list, and the integration reloads.
Finish(h) ==
  /\ held[h] # None
  /\ stored' = held[h].row /\ reloading' = TRUE
  /\ held' = [held EXCEPT ![h] = None]
  /\ owed' = Spoken(held[h].asked)
  /\ lost' = (lost \/ held[h].read # stored)
  /\ UNCHANGED <<live, presses>>

-----------------------------------------------------------------------------
ReloadEntry ==
  /\ reloading /\ reloading' = FALSE /\ live' = stored
  /\ UNCHANGED <<stored, held, presses, owed, lost>>

\* Home Assistant starts anew; the dialog and the call are gone.
Restart ==
  /\ live' = stored /\ reloading' = FALSE /\ held' = [h \in Holders |-> None]
  /\ live' # live \/ held' # held
  /\ UNCHANGED <<stored, presses, owed, lost>>

Later(left) == IF left \in Nat \ {0} THEN left - 1 ELSE left
Aged(row)   == [row EXCEPT !.until = Later(@)]

\* Time passes, running or not.
Elapse ==
  /\ stored' = Aged(stored) /\ live' = Aged(live)
  /\ held' = [h \in Holders |-> IF held[h] = None THEN None
                ELSE [held[h] EXCEPT !.read = Aged(@), !.row = Aged(@)]]
  /\ owed' = IF owed = None THEN None ELSE [owed EXCEPT !.left = Later(@)]
  /\ <<stored, live, held, owed>>' # <<stored, live, held, owed>>
  /\ UNCHANGED <<reloading, presses, lost>>

PauseNext ==
  \/ \E d \in Durations : Press(d)
  \/ \E m \in Modes \cup {"off"} : Choose(m) \/ CallService(m)
  \/ Sweep \/ OpenDialog
  \/ \E h \in Holders : Finish(h)
  \/ ReloadEntry \/ Restart \/ Elapse

PauseSpec == PauseInit /\ [][PauseNext]_pauseVars

\* Cycles keep running, a reload comes through, time passes.
FairPauseSpec == PauseSpec /\ WF_pauseVars(Sweep) /\ WF_pauseVars(ReloadEntry) /\ WF_pauseVars(Elapse)

-----------------------------------------------------------------------------
MayPay == owed # None /\ owed.left = 0 /\ stored'.mode = owed.back

\* The sweep puts a mode back only over a pause that has run out and that the
\* user has not ended, and puts back the mode the charger had when that pause
\* was first pressed; as long as nobody works from an old copy of the row
\* (charge_pause.py:36-38, tick).
PauseIsPaidOnce ==
  [][Sweep /\ stored'.mode # stored.mode => MayPay \/ lost']_pauseVars

\* Every pause ends: the charger gets its mode back, or the user takes the knob,
\* through restarts and reloads, as long as nobody works from an old copy of the
\* row (charge_pause.py:28-34, _resume_expired_pauses).
PauseEnds == owed # None ~> owed = None \/ lost
=============================================================================
