------------------------------ MODULE UndoLog ------------------------------
(***************************************************************************)
(* What a component promises that borrows a user's settings and writes its *)
(* own over them: a record of the user's settings is durable before the    *)
(* first write, and is dropped only when they are back.  Whoever comes     *)
(* after a crash can therefore always give the user his settings.          *)
(*                                                                         *)
(*   own     the settings as the user made them                            *)
(*   record  the durable record of them, or NoRecord                       *)
(*   dirty   do the device's settings differ from the user's?              *)
(***************************************************************************)
CONSTANTS
  Settings, \* what a user may set
  NoRecord  \* none of them

VARIABLES own, record, dirty

vars == <<own, record, dirty>>

Init == own \in Settings /\ record = NoRecord /\ dirty = FALSE

\* The user changes his settings while nobody has borrowed them.
Edit ==
  /\ record = NoRecord /\ ~dirty
  /\ own' \in Settings /\ UNCHANGED <<record, dirty>>

\* What is recorded is the user's, read before anything is written.
Log ==
  /\ record = NoRecord /\ ~dirty
  /\ record' = own /\ UNCHANGED <<own, dirty>>

\* The device is written only under a record; a write may also be the last one of a restore.
Write ==
  /\ record = own
  /\ dirty' \in BOOLEAN /\ UNCHANGED <<own, record>>

\* The record goes only when the device holds the user's settings again.
Forget ==
  /\ record # NoRecord /\ ~dirty
  /\ record' = NoRecord /\ UNCHANGED <<own, dirty>>

Next == Edit \/ Log \/ Write \/ Forget

Spec == Init /\ [][Next]_vars
=============================================================================
