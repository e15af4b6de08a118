----------------------------- MODULE SurplusLoad -----------------------------
(***************************************************************************)
(* One on/off load of the surplus controller: SEM's belief about it, its    *)
(* claim on the run, the anti-flicker clocks and the marker of a run it     *)
(* pays for.  The load has a relay, an entity that reports it, and a user   *)
(* who switches both the load and its mode.  Every cycle first brings the   *)
(* belief in line with the entity (coordinator/device_reconciler.py, then    *)
(* sync_belief_to_observation), then decides once and makes at most one      *)
(* service call, which it awaits.  Registration may build the device object *)
(* anew, the entry may be reloaded, disabled and set up again.              *)
(*                                                                           *)
(* One cycle is the unit of time.  What the sun, the tariff, the battery    *)
(* and the daily goals add up to for this load is one value, the world; a   *)
(* dependency, a phase hold or the start debounce may refuse any start.     *)
(***************************************************************************)
EXTENDS Integers

CONSTANTS
  MinOn,    \* min_on_seconds, in cycles
  MinOff,   \* min_off_seconds
  Grace,    \* OFF_GRACE_S
  Cool,     \* EXTERNAL_OFF_COOLDOWN_S
  Faults    \* "call": a service call may raise, landed or not;
            \* "late": the entity may report a switching late;
            \* "dark": the entity may become unavailable;
            \* "restart": the process may end at any moment

ASSUME ClockAssumption ==
  MinOn \in Nat \ {0} /\ MinOff \in Nat \ {0} /\ Grace \in Nat /\ Cool \in Nat
ASSUME FaultAssumption == Faults \subseteq {"call", "late", "dark", "restart"}

None == -1
Modes == {"off", "peak_only", "surplus"}

\* "sun": surplus for the load; "enough": not enough to start, enough to go on;
\* "short": the walk is short by this load; "cheap", "night": short too, and the
\* cheap hours or the battery may finish the day's target; "done": a goal gate
\* (daily cap, stop condition) is closed
Worlds == {"sun", "enough", "short", "cheap", "night", "done"}
Paid == {"cheap", "night"}

Min2(a, b) == IF a <= b THEN a ELSE b
Longest == IF MinOn >= MinOff THEN MinOn ELSE MinOff

VARIABLES
  domain,   \* "switch": in _BELIEF_SYNC_DOMAINS, "other": not
  plug,     \* the relay
  seen,     \* the entity's state: "on", "off" or "dark"
  dev,      \* the device object
  mode,     \* control_mode
  world,    \* what there is to run the load on
  stage,    \* where the cycle is
  gone,     \* the entry is disabled
  mine,     \* ghost: the last ON was SEM's, and nobody switched the load since
  unseen,   \* ghost: the user switched the load and SEM has not noticed yet
  calm,     \* ghost: nothing went wrong since SEM's last ON
  since     \* ghost: cycles since a cycle of SEM switched the relay, at its
            \* bound once the user did

vars == <<domain, plug, seen, dev, mode, world, stage, gone, mine, unseen, calm,
          since>>
user == <<domain, mode, world, gone>>
ghosts == <<mine, unseen, calm, since>>

\* The device object.  owned and commanded are the two halves of the claim;
\* sinceOn and sinceOff are the ages of _last_activated and _last_deactivated,
\* at their bound when long ago or never; offFor is the age of the drift anchor
Device == [active : BOOLEAN, owned : BOOLEAN, commanded : BOOLEAN,
           sinceOn : 0 .. MinOn, sinceOff : 0 .. MinOff,
           offFor : 0 .. Grace \cup {None}, cooldown : 0 .. Cool,
           forced : SUBSET Paid]

New == [active |-> FALSE, owned |-> FALSE, commanded |-> FALSE,
        sinceOn |-> MinOn, sinceOff |-> MinOff, offFor |-> None,
        cooldown |-> 0, forced |-> {}]

\* _sem_commanded: commanded counts only below an owned claim
Commanded(d) == d.owned /\ d.commanded

CanActivate(d) == d.sinceOff = MinOff /\ d.cooldown = 0
CanDeactivate(d) == d.sinceOn = MinOn

Shows(p) == IF p THEN "on" ELSE "off"

\* what the entity may report once the relay is p
Reports(p) ==
  IF seen = "dark" THEN {"dark"}
  ELSE {Shows(p)} \cup (IF "late" \in Faults THEN {seen} ELSE {})

-----------------------------------------------------------------------------
\* The device object's own changes

\* mutant: an adopted run keeps the claim of an earlier one
MutClaim(d) == [d EXCEPT !.owned = (mode = "surplus")]

\* _adopt_ownership
Claim(d) == [d EXCEPT !.owned = (mode = "surplus"), !.commanded = FALSE]

\* adopt_if_running, once it found the load on
Adopt(d) == Claim([d EXCEPT !.active = TRUE, !.sinceOn = 0])

\* record_activated
Activated(d) ==
  [d EXCEPT !.active = TRUE, !.owned = TRUE, !.commanded = TRUE, !.sinceOn = 0,
            !.offFor = None]

\* deactivate and record_deactivated; a call that raised leaves the state ERROR,
\* which is not ACTIVE either
Deactivated(d) ==
  [d EXCEPT !.active = FALSE, !.owned = FALSE, !.commanded = FALSE,
            !.sinceOff = 0, !.offFor = None]

Unforced(d) == [d EXCEPT !.forced = {}]

\* reconcile_device
Reconciled(d) ==
  IF d.active /\ seen = "off"
  THEN IF d.offFor = None THEN [d EXCEPT !.offFor = 0]
       ELSE IF d.offFor < Grace THEN d
       ELSE [d EXCEPT !.active = FALSE, !.owned = FALSE, !.sinceOff = 0,
                      !.offFor = None, !.cooldown = Cool]
  ELSE IF ~d.active /\ seen = "on"
  THEN [d EXCEPT !.owned = FALSE, !.offFor = None]
  ELSE [d EXCEPT !.offFor = None]

\* sync_belief_to_observation
Synced(d) ==
  IF domain = "switch" /\ seen = "on" /\ ~d.active THEN Adopt(d)
  ELSE IF domain = "switch" /\ seen = "off" /\ d.active
  THEN [d EXCEPT !.active = FALSE, !.sinceOff = 0]
  ELSE d

Older(d) ==
  [d EXCEPT !.sinceOn = Min2(@ + 1, MinOn), !.sinceOff = Min2(@ + 1, MinOff),
            !.offFor = IF @ = None THEN None ELSE Min2(@ + 1, Grace),
            !.cooldown = IF @ = 0 THEN 0 ELSE @ - 1]

\* a fresh object at registration
Registered == IF seen = "on" THEN Adopt(New) ELSE New

\* mutant: a rebuild starts the anti-flicker clocks again
MutTransplant(old, fresh) ==
  [fresh EXCEPT !.forced = old.forced, !.active = old.active \/ @,
                !.owned = IF old.active THEN old.owned ELSE @,
                !.commanded = IF old.active THEN old.commanded ELSE @]

\* mutant: a rebuild carries ownership without its commanded half
MutHalfClaim(old, fresh) ==
  [old EXCEPT !.active = old.active \/ fresh.active,
              !.owned = IF old.active THEN @ ELSE fresh.owned,
              !.commanded = fresh.commanded]

\* register_device: the volatile fields are the old object's; belief and claim
\* are so only if the old object was active
Transplant(old, fresh) ==
  [old EXCEPT !.active = old.active \/ fresh.active,
              !.owned = IF old.active THEN @ ELSE fresh.owned,
              !.commanded = IF old.active THEN @ ELSE fresh.commanded]

-----------------------------------------------------------------------------
Init ==
  /\ domain \in {"switch", "other"}
  /\ plug = FALSE
  /\ seen = "off"
  /\ dev = New
  /\ mode = "surplus"
  /\ world \in Worlds
  /\ stage = "rest"
  /\ gone = FALSE
  /\ mine = FALSE
  /\ unseen = FALSE
  /\ calm = TRUE
  /\ since = Longest

Readable == seen = Shows(plug)

\* The top of update(): reconcile_all, then the belief sync.  SEM notices what
\* the user did if the reading is right and changes what it believes.
Look ==
  /\ stage = "rest"
  /\ ~gone
  /\ stage' = "walk"
  /\ dev' = Synced(Reconciled(Older(dev)))
  /\ unseen' = (unseen /\ ~(/\ Readable
                            /\ \/ dev'.active # dev.active
                               \/ domain = "other" /\ plug /\ ~dev.active))
  /\ calm' = (calm /\ seen \in {Shows(plug), "dark"})
  /\ since' = Min2(since + 1, Longest)
  /\ UNCHANGED <<plug, seen, user, mine>>

\* Force expiry, first part: the mode is Off and SEM started the run
Releases(d) == mode = "off" /\ d.active /\ Commanded(d)

\* ... second part: what the run was paid for is over
Expires(d) ==
  /\ d.active
  /\ \/ "cheap" \in d.forced /\ world # "cheap"
     \/ "night" \in d.forced /\ world # "night"

\* a goal gate, or the deficit pass
IsDone(d) == mode = "surplus" /\ d.active /\ world = "done"

IsShort(d) ==
  /\ mode = "surplus"
  /\ d.active
  /\ d.forced = {}
  /\ world \in {"short"} \cup Paid

Ends(d) == Expires(d) \/ IsDone(d) \/ IsShort(d)

Decide(next) ==
  /\ stage = "walk"
  /\ stage' = next
  /\ UNCHANGED <<plug, seen, user, ghosts>>

Release == Decide("release") /\ Releases(dev) /\ CanDeactivate(dev) /\ UNCHANGED dev

\* the mode is Off and the run was only adopted: no write
Disown ==
  /\ Decide("rest")
  /\ mode = "off" /\ dev.active /\ dev.owned /\ ~dev.commanded
  /\ dev' = Unforced([dev EXCEPT !.owned = FALSE])

EndRun ==
  /\ Decide("endRun")
  /\ ~Releases(dev)
  /\ ~(mode = "off" /\ dev.owned)
  /\ Ends(dev)
  /\ CanDeactivate(dev)
  /\ UNCHANGED dev

\* the peak shed pass and the phase guard's order
Shed(why) ==
  /\ Decide(why)
  /\ mode = "surplus" /\ dev.active
  /\ CanDeactivate(dev)
  /\ ~Ends(dev)
  /\ UNCHANGED dev

\* the activation pass, the cheap-hours pass and the overnight battery pass
Start(source) ==
  /\ Decide(source)
  /\ mode = "surplus"
  /\ ~dev.active
  /\ world = source
  /\ CanActivate(dev)
  /\ UNCHANGED dev

\* nothing to stop, or the minimum run holds it; nothing to start, or not yet
Idle ==
  /\ Decide("rest")
  /\ ~(mode = "off" /\ dev.active /\ dev.owned /\ ~dev.commanded)
  /\ ~(CanDeactivate(dev) /\ (Releases(dev) \/ Ends(dev)))
  /\ UNCHANGED dev

-----------------------------------------------------------------------------
\* The awaited calls

Sources == {"sun"} \cup Paid
Stops == {"release", "endRun", "peakShed", "phaseShed"}

\* SEM's relay write lands; age is since when the switching counts
Switched(p, age) ==
  /\ plug' = p
  /\ seen' \in Reports(p)
  /\ since' = IF plug = p THEN since ELSE age

TurnedOn ==
  /\ stage \in Sources
  /\ stage' = "rest"
  /\ Switched(TRUE, 0)
  /\ dev' = [Activated(dev) EXCEPT !.forced = @ \cup ({stage} \cap Paid)]
  /\ mine' = TRUE
  /\ unseen' = FALSE
  /\ calm' = TRUE
  /\ UNCHANGED user

TurnOnFailed ==
  /\ stage \in Sources
  /\ "call" \in Faults
  /\ stage' = "rest"
  /\ \/ Switched(TRUE, 0) /\ mine' = TRUE
     \/ UNCHANGED <<plug, seen, since, mine>>
  /\ dev' = [dev EXCEPT !.active = FALSE]
  /\ calm' = FALSE
  /\ UNCHANGED <<user, unseen>>

\* which markers each stop clears
Stopped(d) ==
  Deactivated([d EXCEPT !.forced = IF stage = "phaseShed" THEN @
                                   ELSE IF stage = "peakShed" THEN @ \ {"night"}
                                   ELSE {}])

TurnedOff ==
  /\ stage \in Stops
  /\ stage' = "rest"
  /\ Switched(FALSE, 0)
  /\ dev' = Stopped(dev)
  /\ mine' = FALSE
  /\ UNCHANGED <<user, unseen, calm>>

TurnOffFailed ==
  /\ stage \in Stops
  /\ "call" \in Faults
  /\ stage' = "rest"
  /\ UNCHANGED <<plug, seen, since, mine>>
  /\ dev' = Stopped(dev)
  /\ calm' = FALSE
  /\ UNCHANGED <<user, unseen>>

-----------------------------------------------------------------------------
\* update_device_control_mode: into Off, a run SEM started is switched off at
\* once, minimum run or not; an adopted one is let go

Held(d) == d.owned /\ (seen = "on" \/ (seen = "dark" /\ d.active))

SetMode(m) ==
  /\ ~gone
  /\ m # mode
  /\ mode' = m
  /\ \/ /\ m = "off" /\ Held(dev) /\ dev.commanded
        /\ \/ /\ Switched(FALSE, Longest)
              /\ dev' = Unforced(Deactivated([dev EXCEPT !.sinceOn = MinOn]))
              /\ mine' = FALSE
              /\ UNCHANGED calm
           \/ /\ "call" \in Faults
              /\ UNCHANGED <<plug, seen, since, mine>>
              /\ dev' = Unforced([dev EXCEPT !.active = FALSE, !.owned = FALSE,
                                             !.commanded = FALSE,
                                             !.sinceOn = MinOn])
              /\ calm' = FALSE
     \/ /\ m = "off" /\ Held(dev) /\ ~dev.commanded
        /\ dev' = Unforced([dev EXCEPT !.owned = FALSE])
        /\ UNCHANGED <<plug, seen, mine, calm, since>>
     \/ /\ ~(m = "off" /\ Held(dev))
        /\ UNCHANGED <<plug, seen, dev, mine, calm, since>>
  /\ UNCHANGED <<domain, world, stage, gone, unseen>>

\* the device is registered anew between two cycles
Rebuild ==
  /\ stage = "rest"
  /\ ~gone
  /\ dev' = Transplant(dev, Registered)
  /\ dev' # dev
  /\ UNCHANGED <<plug, seen, user, stage, ghosts>>

\* a reload or a restart: the modes are stored, everything else is not.  A call
\* that was out may have landed.
Restart ==
  /\ "restart" \in Faults
  /\ ~gone
  /\ plug' \in {plug} \cup (IF stage \in Sources THEN {TRUE} ELSE {})
                     \cup (IF stage \in Stops THEN {FALSE} ELSE {})
  /\ seen' \in {seen, Shows(plug')}
  /\ dev' = IF seen' = "on" THEN Adopt(New) ELSE New
  /\ stage' = "rest"
  /\ mine' = (plug' /\ (mine \/ stage \in Sources))
  /\ unseen' = FALSE
  /\ calm' = FALSE
  /\ since' = Longest
  /\ UNCHANGED user

\* deactivate_devices
Left(d) == d.active /\ Commanded(d)

\* the entry is disabled or removed: every load SEM commanded is switched off,
\* unless its minimum run is not over
Disable ==
  /\ stage = "rest"
  /\ ~gone
  /\ gone' = TRUE
  /\ \/ /\ Left(dev) /\ CanDeactivate(dev)
        /\ Switched(FALSE, Longest)
        /\ mine' = FALSE
        /\ UNCHANGED calm
     \/ /\ Left(dev) /\ CanDeactivate(dev)
        /\ "call" \in Faults
        /\ calm' = FALSE
        /\ UNCHANGED <<plug, seen, since, mine>>
     \/ /\ ~(Left(dev) /\ CanDeactivate(dev))
        /\ UNCHANGED <<plug, seen, mine, calm, since>>
  /\ dev' = New
  /\ UNCHANGED <<domain, mode, world, stage, unseen>>

Enable ==
  /\ gone
  /\ gone' = FALSE
  /\ dev' = Registered
  /\ unseen' = FALSE
  /\ calm' = FALSE
  /\ since' = Longest
  /\ UNCHANGED <<domain, plug, seen, mode, world, stage, mine>>

-----------------------------------------------------------------------------
\* Around SEM

UserFlips ==
  /\ plug' = ~plug
  /\ seen' \in Reports(plug')
  /\ mine' = FALSE
  /\ unseen' = TRUE
  /\ since' = Longest
  /\ UNCHANGED <<user, dev, stage, calm>>

Report ==
  /\ ~Readable
  /\ seen' = Shows(plug)
  /\ UNCHANGED <<plug, user, dev, stage, ghosts>>

GoDark ==
  /\ "dark" \in Faults
  /\ seen # "dark"
  /\ seen' = "dark"
  /\ UNCHANGED <<plug, user, dev, stage, ghosts>>

Weather ==
  /\ stage = "rest"
  /\ world' \in Worlds \ {world}
  /\ UNCHANGED <<domain, plug, seen, dev, mode, stage, gone, ghosts>>

Walk ==
  \/ Release
  \/ Disown
  \/ EndRun
  \/ \E why \in {"peakShed", "phaseShed"} : Shed(why)
  \/ \E source \in Sources : Start(source)
  \/ Idle

Next ==
  \/ Look
  \/ Walk
  \/ TurnedOn \/ TurnOnFailed \/ TurnedOff \/ TurnOffFailed
  \/ \E m \in Modes : SetMode(m)
  \/ Rebuild \/ Restart \/ Disable \/ Enable
  \/ UserFlips \/ Report \/ GoDark \/ Weather

\* The cycle runs every ten seconds and its calls return; a call that is made
\* again and again succeeds at last; an entity that is back in reach reports.
Fairness ==
  /\ WF_vars(Look)
  /\ WF_vars(Walk)
  /\ WF_vars(TurnedOn \/ TurnOnFailed)
  /\ WF_vars(TurnedOff \/ TurnOffFailed)
  /\ SF_vars(TurnedOff)
  /\ WF_vars(Report)

Spec == Init /\ [][Next]_vars /\ Fairness

-----------------------------------------------------------------------------
TypeOK ==
  /\ domain \in {"switch", "other"}
  /\ plug \in BOOLEAN
  /\ seen \in {"on", "off", "dark"}
  /\ dev \in Device
  /\ mode \in Modes
  /\ world \in Worlds
  /\ stage \in {"rest", "walk"} \cup Sources \cup Stops
  /\ gone \in BOOLEAN
  /\ mine \in BOOLEAN
  /\ unseen \in BOOLEAN
  /\ calm \in BOOLEAN
  /\ since \in 0 .. Longest

\* a step that switches a load off because it is no longer SEM's to run: the
\* cycle's release, the change of mode, the teardown
LetsGo ==
  /\ plug
  /\ \/ stage' = "release" /\ stage # "release"
     \/ ~plug' /\ (mode' # mode \/ gone' # gone)

\* Letting go of a load (mode Off, entry disabled) switches it off only if SEM
\* switched it on; a load the user started stays as it is (#847, #908).  What
\* the user did since SEM last looked is beyond it, and so is what he did to a
\* load other than a switch for as long as the grace keeps SEM from noticing.
UsersLoadStays == [][LetsGo => mine \/ unseen]_vars

\* A cycle never takes back what an earlier one switched before the minimum run
\* or the minimum pause is over, across rebuilds, changes of mode and a dark
\* entity.  (A call that raised but landed, or a late reading, leaves the clock
\* at an older switching; a rebuild then carries it over the adoption's.)
ContactorRests ==
  [][ /\ stage \in Sources \cup Stops /\ stage' = "rest"
      /\ plug' # plug
      /\ calm
      => since >= IF plug THEN MinOn ELSE MinOff ]_vars

\* the user, the process and the entity leave the load alone from now on
Undisturbed == [][~UserFlips /\ ~Restart /\ ~Disable /\ ~GoDark]_vars

\* A run ends when its reason does.  A SEM-started run that nothing went wrong
\* with ends once the mode is Off and stays so; a load in surplus mode with
\* nothing left to run on is switched off for good, whoever started it, through
\* late readings and calls that raise, where the belief follows the entity.
RunsEnd ==
  /\ (mode = "off" /\ plug /\ mine /\ calm)
       ~> (~plug \/ ~mine \/ ~calm \/ mode # "off" \/ gone)
  /\ ( /\ <>[](mode = "surplus" /\ world = "short" /\ domain = "switch" /\ ~gone)
       /\ <>Undisturbed )
     => <>[]~plug

=============================================================================
