------------------------------ MODULE PhaseLatch ------------------------------
(***************************************************************************)
(* What the phase current guard promises the loads of the house            *)
(* (active_phase_guard.py: latched_phases, loads_may_return,               *)
(* phase_shed_request): a phase that was over its limit stays latched      *)
(* until the guard is trusted again, loads are only asked to answer for    *)
(* latched phases, and the loads may return whenever none is latched for   *)
(* a guard that is trusted or does not enforce.  How trust is earned and   *)
(* what happens to the chargers is no part of it: see PhaseGuard, which    *)
(* implements this module, and LoadShed, which is built on it.             *)
(***************************************************************************)
CONSTANT Phases \* the monitored phases

VARIABLES
  enforcing,  \* the guard acts: enabled, enforcing, not in observer mode
  authorized, \* control_authorized
  latched,    \* _latched_phases
  asked       \* the phases whose loads must answer in this cycle

latch == <<enforcing, authorized, latched, asked>>

\* loads_may_return
LoadsMayReturn == ~enforcing \/ authorized

LatchInit == enforcing = FALSE /\ authorized = FALSE /\ latched = {} /\ asked = {}

\* A guard that does not enforce authorises everything and holds nothing.
Watch == enforcing' = FALSE /\ authorized' = TRUE /\ latched' = {} /\ asked' = {}

\* An unsafe, stale or not yet recovered reading.
Block(over) ==
  /\ enforcing' = TRUE /\ authorized' = FALSE
  /\ latched' = latched \cup over /\ asked' = {}

Trust == enforcing' = TRUE /\ authorized' = TRUE /\ latched' = {} /\ asked' = {}

Reading == Watch \/ Trust \/ \E over \in SUBSET Phases : Block(over)

\* Later in the same cycle, once the chargers have had their turn.
Ask == asked' \in SUBSET latched /\ UNCHANGED <<enforcing, authorized, latched>>

Spec == LatchInit /\ [][Reading \/ Ask]_latch
=============================================================================
