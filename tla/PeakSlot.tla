------------------------------ MODULE PeakSlot ------------------------------
(***************************************************************************)
(* The 15-minute slot budget of the peak guard:                            *)
(*                                                                         *)
(*   peak_guard.py   the tracker of the running clock slot, the allowance  *)
(*                   for the rest of it, the average of a closed slot      *)
(*   coordinator.py  _compute_peak_slot_allowance, once per cycle          *)
(*   storage.py      the daily store the tracker's state rides in          *)
(*                                                                         *)
(* Every cycle reads the meter (or finds it dark) and feeds the tracker;   *)
(* the house may change its draw at every reading.  Cycles come as late as *)
(* Gaps says, the process may be killed or stopped at any time, and the    *)
(* store holds whatever its last save wrote.  Time is counted in beats,    *)
(* energy in draw times beats.  The clock is only ever moved forward, and  *)
(* the ceiling stays as configured.                                        *)
(***************************************************************************)
EXTENDS Integers

CONSTANTS
  SlotLen,    \* SLOT_S
  MaxStep,    \* _MAX_STEP_S: a longer gap is unknown consumption
  Target,     \* the ceiling: the average draw a slot may carry
  CapFactor,  \* _ALLOWANCE_CAP_FACTOR
  Draws,      \* what the house may be importing
  Most,       \* the largest of them
  Gaps,       \* beats from one cycle to the next
  Start,      \* the clock when the first process starts
  Horizon,    \* bound: the clock stops here
  MaxCrashes, \* bound: how often the process ends
  None

Trackers == [slotStart : Nat, lastT : Nat, lastW : Draws \cup {0},
             imported : Nat, blind : BOOLEAN, watched : BOOLEAN]

ASSUME LengthAssumption ==
  /\ SlotLen \in Nat \ {0} /\ MaxStep \in Nat \ {0} /\ Target \in Nat /\ CapFactor \in Nat \ {0}
  /\ CapFactor * MaxStep <= SlotLen
ASSUME DrawAssumption == /\ Draws \subseteq 0 .. Most /\ Most \in Nat
                         /\ Gaps \subseteq Nat \ {0} /\ Start \in Nat /\ Horizon \in Nat /\ MaxCrashes \in Nat
ASSUME NoneAssumption == None \notin Trackers

VARIABLES
  now,      \* the clock
  load,     \* what the house imports until the next reading
  tracker,  \* _peak_slot_tracker, None in a process that has not had a cycle yet
  closed,   \* _closed: the slot waiting to be booked, None
  saved,    \* peak_slot in the daily store's file, None
  crashes,
  \* kept for the properties only
  drawn,    \* what the house has imported in this clock slot
  known,    \* the house still draws what the last readable sample showed
  doubt,    \* beats of this slot whose draw SEM does not know
  looked,   \* SEM looked at the meter at least every MaxStep in this slot
  obedient  \* the house has kept to the allowance in this slot

slotVars == <<now, load, tracker, closed, saved, crashes, drawn, known, doubt, looked, obedient>>

Least(a, b) == IF a < b THEN a ELSE b

\* _slot_of
SlotOf(at) == at - (at % SlotLen)

Budget == Target * SlotLen

SlotTypeOK ==
  /\ now \in Nat /\ crashes \in 0 .. MaxCrashes /\ load \in Draws \cup {0}
  /\ tracker \in Trackers \cup {None} /\ saved \in Trackers \cup {None}
  /\ closed \in [slot : Nat, energy : Nat] \cup {None}
  /\ drawn \in Nat /\ known \in BOOLEAN /\ doubt \in Nat /\ looked \in BOOLEAN /\ obedient \in BOOLEAN

SlotInit ==
  /\ now = Start /\ load = 0 /\ tracker = None /\ closed = None /\ saved = None /\ crashes = 0
  /\ drawn = 0 /\ known = FALSE /\ doubt = 0 /\ looked = (Start % SlotLen = 0) /\ obedient = TRUE

-----------------------------------------------------------------------------
(* The tracker.  A step longer than MaxStep counts as MaxStep; a step over *)
(* the boundary closes the slot and is split there.                        *)

\* A new tracker at its first sample: the whole slot is watched only when it starts here.
Fresh(at) == [slotStart |-> SlotOf(at), lastT |-> at, lastW |-> 0,
              imported |-> 0, blind |-> FALSE, watched |-> at = SlotOf(at)]

\* Spent stays spent: the saved state is taken up in the slot it was saved in.
FromState(at) == IF saved # None /\ saved.slotStart = SlotOf(at) THEN saved ELSE Fresh(at)

Seen(t, at)   == at - t.lastT <= MaxStep
Step(t, at)   == Least(at - t.lastT, MaxStep)
Inside(t, at) == Least(Step(t, at), at - SlotOf(at))

MutIntegrated(t, at) ==
  IF SlotOf(at) = t.slotStart
  THEN [t EXCEPT !.imported = @ + t.lastW * Step(t, at)]
  ELSE [t EXCEPT !.imported = t.lastW * Inside(t, at), !.slotStart = SlotOf(at),
                 !.watched = Seen(t, at)]

\* The previous reading held over the step, in the slot each beat belongs to.
Integrated(t, at) ==
  IF SlotOf(at) = t.slotStart
  THEN [t EXCEPT !.imported = @ + t.lastW * Step(t, at), !.watched = @ /\ Seen(t, at)]
  ELSE [t EXCEPT !.imported = t.lastW * Inside(t, at), !.slotStart = SlotOf(at),
                 !.watched = Seen(t, at)]

\* What closes at this sample: a slot of which no beat went unmeasured.
Closed(t, at) ==
  IF SlotOf(at) # t.slotStart /\ t.watched /\ Seen(t, at)
  THEN [slot |-> t.slotStart,
        energy |-> t.imported + t.lastW * (Step(t, at) - Inside(t, at))]
  ELSE closed

MutSampled(t, at, w, dark) ==
  [t EXCEPT !.lastT = at, !.blind = dark, !.lastW = IF dark THEN 0 ELSE w]

\* A dark meter keeps the last reading: unread is not zero.
Sampled(t, at, w, dark) ==
  [t EXCEPT !.lastT = at, !.blind = dark, !.lastW = IF dark THEN @ ELSE w]

\* slot_allowed_import_w: w is within what the rest of the slot may carry.
Allows(t, w) ==
  \/ w = 0
  \/ /\ w * (SlotLen - (t.lastT - t.slotStart)) <= Budget - t.imported
     /\ w <= Target * (IF t.blind THEN 1 ELSE CapFactor)

-----------------------------------------------------------------------------
(* What the properties remember of the stretch from now to at.             *)

Crosses(at) == SlotOf(at) # SlotOf(now)
Before(at)  == IF Crosses(at) THEN SlotOf(now) + SlotLen - now ELSE at - now
After(at)   == at - SlotOf(at)

\* The last beats whose draw SEM does not know.
Unknown(at) ==
  IF tracker = None
  THEN IF saved # None /\ saved.slotStart = SlotOf(at) THEN at - saved.lastT ELSE After(at)
  ELSE IF ~known \/ at - now > MaxStep THEN at - now
  ELSE 0

\* The slot the clock is in, as it stands when it ends or, before that, at the time at.
DrawnIn(at)  == drawn + load * Before(at)
DoubtIn(at)  == IF Unknown(at) = 0 THEN doubt ELSE doubt + Before(at)
LookedIn(at) == looked /\ at - now <= MaxStep

Remember(at) ==
  IF Crosses(at)
  THEN /\ drawn' = load * After(at) /\ doubt' = Least(Unknown(at), After(at))
       /\ looked' = (at - now <= MaxStep \/ After(at) = 0)
       /\ obedient' = (load <= CapFactor * Target /\ Allows(tracker', load'))
  ELSE /\ drawn' = DrawnIn(at) /\ doubt' = Least(doubt + Unknown(at), After(at))
       /\ looked' = LookedIn(at)
       /\ obedient' = (obedient /\ Allows(tracker', load'))

-----------------------------------------------------------------------------
\* One cycle: the tracker is made or resumed if need be, and updated.
SlotCycle(gap, w, dark) ==
  LET at == now + gap
      t  == IF tracker = None THEN FromState(at) ELSE tracker
  IN /\ at <= Horizon
     /\ now' = at /\ load' = w /\ known' = (~dark \/ (known /\ w = load))
     /\ tracker' = Sampled(Integrated(t, at), at, w, dark)
     /\ closed' = Closed(t, at)
     /\ Remember(at)
     /\ UNCHANGED <<saved, crashes>>

\* pop_closed, for the load manager's monthly peak; a cycle that fails leaves it to the next.
Pop ==
  /\ closed # None /\ closed' = None
  /\ UNCHANGED <<now, load, tracker, saved, crashes, drawn, known, doubt, looked, obedient>>

\* The daily store reaches the disk, at most every two minutes.
Save ==
  /\ tracker # None /\ crashes < MaxCrashes /\ saved' = tracker
  /\ UNCHANGED <<now, load, tracker, closed, crashes, drawn, known, doubt, looked, obedient>>

\* A kill; a clean stop saves first.
Crash ==
  /\ tracker # None /\ crashes < MaxCrashes
  /\ tracker' = None /\ closed' = None /\ crashes' = crashes + 1 /\ known' = FALSE
  /\ UNCHANGED <<now, load, saved, drawn, doubt, looked, obedient>>

SlotNext ==
  \/ \E gap \in Gaps, w \in Draws, dark \in BOOLEAN : SlotCycle(gap, w, dark)
  \/ Pop \/ Save \/ Crash

SlotSpec == SlotInit /\ [][SlotNext]_slotVars

-----------------------------------------------------------------------------
\* A booked slot is one SEM watched from its first beat to its last, and its
\* energy is what the house imported in it, up to the beats the meter was dark
\* or SEM away: no beat of a neighbouring slot, none twice, none missing
\* (peak_guard.py:74-86, 127-148).
BooksTheSlot ==
  [][closed' \notin {closed, None} =>
       /\ closed'.slot = SlotOf(now) /\ LookedIn(now')
       /\ closed'.energy <= DrawnIn(now') + Most * DoubtIn(now')
       /\ DrawnIn(now') <= closed'.energy + Most * DoubtIn(now')]_slotVars

\* A house that keeps to the allowance lands the slot on its target, through
\* boundaries, dark readings, late cycles, kills and restarts, up to the beats
\* nobody measured (peak_guard.py:45-68, 111-116, 172-196).
SlotLands ==
  [][obedient => DrawnIn(now') <= Budget + Most * DoubtIn(now')]_slotVars

\* The integral is off by no more than the beats nobody measured.
IntegralIsHonest ==
  tracker # None => /\ tracker.imported <= drawn + Most * doubt
                    /\ drawn <= tracker.imported + Most * doubt
=============================================================================
