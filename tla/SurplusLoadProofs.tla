-------------------------- MODULE SurplusLoadProofs --------------------------
(***************************************************************************)
(* Proofs about SurplusLoad for any minimum run and pause, grace, cooldown   *)
(* and set of faults: its types, that letting go of a load never switches   *)
(* off what the user started, and that the cycles keep the minimum run and  *)
(* the minimum pause between them.                                          *)
(***************************************************************************)
EXTENDS SurplusLoad, TLAPS

-----------------------------------------------------------------------------
(* The device object's own changes keep it a device object.                *)

LEMMA LongestType == Longest \in Nat \ {0} /\ MinOn <= Longest /\ MinOff <= Longest
  BY ClockAssumption DEF Longest

\* The ranges of the clocks, by name: most facts need no arithmetic.
Ons == 0 .. MinOn
Offs == 0 .. MinOff
Ages == 0 .. Grace \cup {None}
Cools == 0 .. Cool

LEMMA DeviceIs ==
  Device = [active : BOOLEAN, owned : BOOLEAN, commanded : BOOLEAN, sinceOn : Ons,
            sinceOff : Offs, offFor : Ages, cooldown : Cools, forced : SUBSET Paid]
  BY DEF Device, Ons, Offs, Ages, Cools

LEMMA Bounds ==
  /\ 0 \in Ons /\ MinOn \in Ons /\ 0 \in Offs /\ MinOff \in Offs
  /\ 0 \in Ages /\ None \in Ages /\ 0 \in Cools /\ Cool \in Cools
  BY ClockAssumption DEF Ons, Offs, Ages, Cools

LEMMA NewType == New \in Device
  BY DeviceIs, Bounds DEF New

LEMMA ClaimType ==
  ASSUME NEW d \in Device
  PROVE  Claim(d) \in Device
<1>1. (mode = "surplus") \in BOOLEAN
  OBVIOUS
<1> QED BY <1>1, DeviceIs DEF Claim

LEMMA AdoptType ==
  ASSUME NEW d \in Device
  PROVE  /\ Adopt(d) \in Device
         /\ Adopt(d).active = TRUE /\ Adopt(d).commanded = FALSE
         /\ Adopt(d).sinceOn = 0 /\ Adopt(d).sinceOff = d.sinceOff
<1> DEFINE e == [d EXCEPT !.active = TRUE, !.sinceOn = 0]
<1>1. e \in Device /\ e.active = TRUE /\ e.sinceOn = 0 /\ e.sinceOff = d.sinceOff
  BY DeviceIs, Bounds
<1>2. Claim(e) \in Device
  BY <1>1, ClaimType
<1>3. /\ Claim(e).active = e.active /\ Claim(e).commanded = FALSE
      /\ Claim(e).sinceOn = e.sinceOn /\ Claim(e).sinceOff = e.sinceOff
  BY <1>1, DeviceIs DEF Claim
<1> QED BY <1>1, <1>2, <1>3 DEF Adopt

LEMMA ActivatedType ==
  ASSUME NEW d \in Device, NEW paid \in SUBSET Paid
  PROVE  LET e == [Activated(d) EXCEPT !.forced = @ \cup paid]
         IN  e \in Device /\ e.sinceOn = 0 /\ e.sinceOff = d.sinceOff
  BY DeviceIs, Bounds DEF Activated

LEMMA DeactivatedType ==
  ASSUME NEW d \in Device
  PROVE  /\ Deactivated(d) \in Device
         /\ Deactivated(d).owned = FALSE
         /\ Deactivated(d).sinceOff = 0 /\ Deactivated(d).sinceOn = d.sinceOn
  BY DeviceIs, Bounds DEF Deactivated

LEMMA StoppedType ==
  ASSUME NEW d \in Device
  PROVE  /\ Stopped(d) \in Device
         /\ Stopped(d).owned = FALSE
         /\ Stopped(d).sinceOff = 0 /\ Stopped(d).sinceOn = d.sinceOn
<1> DEFINE kept == IF stage = "phaseShed" THEN d.forced
                   ELSE IF stage = "peakShed" THEN d.forced \ {"night"} ELSE {}
           e == [d EXCEPT !.forced = kept]
<1>1. kept \in SUBSET Paid
  BY DeviceIs
<1>3. Stopped(d) = Deactivated(e)
  BY DEF Stopped
<1> HIDE DEF kept
<1>2. e \in Device /\ e.sinceOn = d.sinceOn
  BY <1>1, DeviceIs
<1> QED BY <1>2, <1>3, DeactivatedType

LEMMA UnforcedType ==
  ASSUME NEW d \in Device
  PROVE  /\ Unforced(d) \in Device
         /\ Unforced(d).owned = d.owned /\ Unforced(d).commanded = d.commanded
         /\ Unforced(d).sinceOff = d.sinceOff /\ Unforced(d).sinceOn = d.sinceOn
  BY DeviceIs, Bounds DEF Unforced

LEMMA RegisteredType ==
  /\ Registered \in Device /\ Registered.commanded = FALSE
  /\ New.commanded = FALSE
<1>1. New.commanded = FALSE
  BY DEF New
<1> QED BY <1>1, NewType, AdoptType DEF Registered

LEMMA TransplantType ==
  ASSUME NEW d \in Device, NEW fresh \in Device, fresh.commanded = FALSE
  PROVE  /\ Transplant(d, fresh) \in Device
         /\ Transplant(d, fresh).sinceOn = d.sinceOn
         /\ Transplant(d, fresh).sinceOff = d.sinceOff
         /\ Transplant(d, fresh).owned /\ Transplant(d, fresh).commanded
              => d.owned /\ d.commanded
<1> DEFINE act == d.active \/ fresh.active
           own == IF d.active THEN d.owned ELSE fresh.owned
           com == IF d.active THEN d.commanded ELSE fresh.commanded
           e == [d EXCEPT !.active = act, !.owned = own, !.commanded = com]
<1>1. act \in BOOLEAN /\ own \in BOOLEAN /\ com \in BOOLEAN
  BY DeviceIs
<1>2. own /\ com => d.owned /\ d.commanded
  BY DeviceIs
<1>3. Transplant(d, fresh) = e
  BY DEF Transplant
<1> HIDE DEF act, own, com
<1>4. /\ e \in Device /\ e.sinceOn = d.sinceOn /\ e.sinceOff = d.sinceOff
      /\ e.owned = own /\ e.commanded = com
  BY <1>1, DeviceIs
<1> QED BY <1>2, <1>3, <1>4

\* One cycle later, read against the entity.
LEMMA OlderType ==
  ASSUME NEW d \in Device
  PROVE  /\ Older(d) \in Device
         /\ Older(d).active = d.active /\ Older(d).owned = d.owned
         /\ Older(d).commanded = d.commanded
         /\ Older(d).sinceOn = Min2(d.sinceOn + 1, MinOn)
         /\ Older(d).sinceOff = Min2(d.sinceOff + 1, MinOff)
<1> DEFINE on   == Min2(d.sinceOn + 1, MinOn)
           off  == Min2(d.sinceOff + 1, MinOff)
           age  == IF d.offFor = None THEN None ELSE Min2(d.offFor + 1, Grace)
           cool == IF d.cooldown = 0 THEN 0 ELSE d.cooldown - 1
           e    == [d EXCEPT !.sinceOn = on, !.sinceOff = off, !.offFor = age, !.cooldown = cool]
<1>1. d.sinceOn \in Ons /\ d.sinceOff \in Offs /\ d.offFor \in Ages /\ d.cooldown \in Cools
  BY DeviceIs
<1>2. on \in Ons /\ off \in Offs /\ age \in Ages /\ cool \in Cools
  BY <1>1, ClockAssumption DEF Ons, Offs, Ages, Cools, Min2, None
<1>3. Older(d) = e
  BY DEF Older
<1> HIDE DEF on, off, age, cool
<1>4. /\ e \in Device /\ e.active = d.active /\ e.owned = d.owned
      /\ e.commanded = d.commanded /\ e.sinceOn = on /\ e.sinceOff = off
  BY <1>2, DeviceIs
<1> QED BY <1>3, <1>4 DEF on, off

LEMMA ReconciledType ==
  ASSUME NEW d \in Device
  PROVE  /\ Reconciled(d) \in Device
         /\ Reconciled(d).commanded = d.commanded
         /\ Reconciled(d).owned => d.owned
         /\ ~d.active /\ seen = "on" => ~Reconciled(d).owned
         /\ Reconciled(d).active # d.active => d.active /\ seen = "off"
         /\ Reconciled(d).sinceOn = d.sinceOn
         /\ Reconciled(d).sinceOff \in {d.sinceOff, 0}
  BY DeviceIs, Bounds DEF Reconciled

LEMMA SyncedType ==
  ASSUME NEW d \in Device
  PROVE  /\ Synced(d) \in Device
         /\ Synced(d).owned /\ Synced(d).commanded => d.owned /\ d.commanded
         /\ Synced(d).active # d.active =>
              \/ seen = "on" /\ ~d.active /\ ~Synced(d).commanded
              \/ seen = "off" /\ d.active
         /\ Synced(d).sinceOn \in {d.sinceOn, 0}
         /\ Synced(d).sinceOff \in {d.sinceOff, 0}
<1>1. CASE domain = "switch" /\ seen = "on" /\ ~d.active
  BY <1>1, AdoptType DEF Synced
<1>2. CASE domain = "switch" /\ seen = "off" /\ d.active
  BY <1>2, DeviceIs, Bounds DEF Synced
<1>3. CASE ~(domain = "switch" /\ seen = "on" /\ ~d.active) /\ ~(domain = "switch" /\ seen = "off" /\ d.active)
  BY <1>3 DEF Synced
<1> QED BY <1>1, <1>2, <1>3

\* A look moves the belief only with the entity, and earns no claim.
LEMMA LookEffect ==
  ASSUME dev \in Device, Look
  PROVE  /\ dev' \in Device
         /\ dev'.owned /\ dev'.commanded => dev.owned /\ dev.commanded
         /\ seen = "on" /\ ~dev.active => ~(dev'.owned /\ dev'.commanded)
         /\ dev'.active # dev.active =>
              \/ seen = "on" /\ ~dev.active
              \/ seen = "off" /\ dev.active
         /\ dev'.sinceOn \in {Min2(dev.sinceOn + 1, MinOn), 0}
         /\ dev'.sinceOff \in {Min2(dev.sinceOff + 1, MinOff), 0}
<1> DEFINE o == Older(dev)
           r == Reconciled(o)
<1>1. /\ o \in Device /\ o.active = dev.active /\ o.owned = dev.owned
      /\ o.commanded = dev.commanded
      /\ o.sinceOn = Min2(dev.sinceOn + 1, MinOn)
      /\ o.sinceOff = Min2(dev.sinceOff + 1, MinOff)
  BY OlderType
<1> HIDE DEF o
<1>2. /\ r \in Device /\ r.commanded = o.commanded /\ (r.owned => o.owned)
      /\ (~o.active /\ seen = "on" => ~r.owned)
      /\ (r.active # o.active => o.active /\ seen = "off")
      /\ r.sinceOn = o.sinceOn /\ r.sinceOff \in {o.sinceOff, 0}
  BY <1>1, ReconciledType
<1> HIDE DEF r
<1>3. /\ Synced(r) \in Device
      /\ (Synced(r).owned /\ Synced(r).commanded => r.owned /\ r.commanded)
      /\ (Synced(r).active # r.active =>
            \/ seen = "on" /\ ~r.active /\ ~Synced(r).commanded
            \/ seen = "off" /\ r.active)
      /\ Synced(r).sinceOn \in {r.sinceOn, 0}
      /\ Synced(r).sinceOff \in {r.sinceOff, 0}
  BY <1>2, SyncedType
<1>4. dev' = Synced(r)
  BY DEF Look, o, r
<1>5. /\ dev' \in Device
      /\ dev'.owned /\ dev'.commanded => dev.owned /\ dev.commanded
      /\ seen = "on" /\ ~dev.active => ~(dev'.owned /\ dev'.commanded)
  BY <1>1, <1>2, <1>3, <1>4
<1>6. dev'.active # dev.active =>
              \/ seen = "on" /\ ~dev.active
              \/ seen = "off" /\ dev.active
  BY <1>1, <1>2, <1>3, <1>4
<1>7. /\ dev'.sinceOn \in {Min2(dev.sinceOn + 1, MinOn), 0}
      /\ dev'.sinceOff \in {Min2(dev.sinceOff + 1, MinOff), 0}
  BY <1>1, <1>2, <1>3, <1>4
<1> QED BY <1>5, <1>6, <1>7

-----------------------------------------------------------------------------
(* What the actions come to.                                               *)

\* A decision keeps the clocks; a stop waits for the minimum run, a start for
\* the minimum pause.
LEMMA WalkEffect ==
  ASSUME dev \in Device, Walk
  PROVE  /\ dev' \in Device
         /\ dev'.sinceOn = dev.sinceOn /\ dev'.sinceOff = dev.sinceOff
         /\ dev'.owned /\ dev'.commanded => dev.owned /\ dev.commanded
         /\ stage = "walk" /\ stage' \in {"rest"} \cup Sources \cup Stops
         /\ stage' \in Stops => dev.sinceOn = MinOn
         /\ stage' \in Sources => dev.sinceOff = MinOff
         /\ stage' = "release" => dev.owned /\ dev.commanded
         /\ UNCHANGED <<plug, seen, user, ghosts>>
<1>1. CASE Release
  BY <1>1 DEF Release, Decide, CanDeactivate, Releases, Commanded, Stops, Sources, Paid
<1>2. CASE Disown
  <2> DEFINE e == [dev EXCEPT !.owned = FALSE]
  <2>1. /\ e \in Device /\ e.owned = FALSE
        /\ e.sinceOn = dev.sinceOn /\ e.sinceOff = dev.sinceOff
    BY DeviceIs
  <2>2. dev' = Unforced(e)
    BY <1>2 DEF Disown
  <2>3. dev' \in Device /\ dev'.owned = FALSE /\ dev'.sinceOn = dev.sinceOn /\ dev'.sinceOff = dev.sinceOff
    BY <2>1, <2>2, UnforcedType
  <2> QED BY <1>2, <2>3 DEF Disown, Decide, Stops, Sources, Paid
<1>3. CASE EndRun
  BY <1>3 DEF EndRun, Decide, CanDeactivate, Stops, Sources, Paid
<1>4. CASE \E why \in {"peakShed", "phaseShed"} : Shed(why)
  BY <1>4 DEF Shed, Decide, CanDeactivate, Stops, Sources, Paid
<1>5. CASE \E source \in Sources : Start(source)
  BY <1>5 DEF Start, Decide, CanActivate, Stops, Sources, Paid
<1>6. CASE Idle
  BY <1>6 DEF Idle, Decide, Stops, Sources, Paid
<1> QED BY <1>1, <1>2, <1>3, <1>4, <1>5, <1>6 DEF Walk

\* Into Off: switched off, or tried in vain, or only let go.
LEMMA SetModeEffect ==
  ASSUME dev \in Device, NEW m \in Modes, SetMode(m)
  PROVE  /\ dev' \in Device
         /\ \/ /\ Switched(FALSE, Longest) /\ dev'.owned = FALSE /\ dev'.sinceOff = 0
               /\ mine' = FALSE /\ calm' = calm
               /\ dev.owned /\ dev.commanded
            \/ /\ UNCHANGED <<plug, seen, since, mine>> /\ dev'.owned = FALSE /\ calm' = FALSE
            \/ /\ UNCHANGED <<plug, seen, since, mine, calm>>
               /\ dev'.sinceOn = dev.sinceOn /\ dev'.sinceOff = dev.sinceOff
               /\ dev'.owned /\ dev'.commanded => dev.owned /\ dev.commanded
         /\ ~gone /\ mode' = m
         /\ UNCHANGED <<domain, world, stage, gone, unseen>>
<1>1. CASE /\ m = "off" /\ Held(dev) /\ dev.commanded
           /\ Switched(FALSE, Longest)
           /\ dev' = Unforced(Deactivated([dev EXCEPT !.sinceOn = MinOn]))
           /\ mine' = FALSE /\ UNCHANGED calm
  <2> DEFINE e == [dev EXCEPT !.sinceOn = MinOn]
  <2>1. e \in Device
    BY DeviceIs, Bounds
  <2> HIDE DEF e
  <2>2. /\ Deactivated(e) \in Device
        /\ Deactivated(e).owned = FALSE /\ Deactivated(e).sinceOff = 0
    BY <2>1, DeactivatedType
  <2>3. dev' = Unforced(Deactivated(e))
    BY <1>1 DEF e
  <2>4. dev' \in Device /\ dev'.owned = FALSE /\ dev'.sinceOff = 0
    BY <2>2, <2>3, UnforcedType
  <2> QED BY <1>1, <2>4 DEF SetMode, Held
<1>2. CASE /\ m = "off" /\ Held(dev) /\ dev.commanded
           /\ UNCHANGED <<plug, seen, since, mine>>
           /\ dev' = Unforced([dev EXCEPT !.active = FALSE, !.owned = FALSE,
                                          !.commanded = FALSE, !.sinceOn = MinOn])
           /\ calm' = FALSE
  <2> DEFINE e == [dev EXCEPT !.active = FALSE, !.owned = FALSE,
                              !.commanded = FALSE, !.sinceOn = MinOn]
  <2>1. e \in Device /\ e.owned = FALSE
    BY DeviceIs, Bounds
  <2> HIDE DEF e
  <2>2. dev' = Unforced(e)
    BY <1>2 DEF e
  <2>3. dev' \in Device /\ dev'.owned = FALSE
    BY <2>1, <2>2, UnforcedType
  <2> QED BY <1>2, <2>3 DEF SetMode
<1>3. CASE /\ m = "off" /\ Held(dev) /\ ~dev.commanded
           /\ dev' = Unforced([dev EXCEPT !.owned = FALSE])
           /\ UNCHANGED <<plug, seen, mine, calm, since>>
  <2> DEFINE e == [dev EXCEPT !.owned = FALSE]
  <2>1. /\ e \in Device /\ e.owned = FALSE
        /\ e.sinceOn = dev.sinceOn /\ e.sinceOff = dev.sinceOff
    BY DeviceIs
  <2> HIDE DEF e
  <2>2. dev' = Unforced(e)
    BY <1>3 DEF e
  <2>3. /\ dev' \in Device /\ dev'.owned = FALSE
        /\ dev'.sinceOn = dev.sinceOn /\ dev'.sinceOff = dev.sinceOff
    BY <2>1, <2>2, UnforcedType
  <2> QED BY <1>3, <2>3 DEF SetMode
<1>4. CASE ~(m = "off" /\ Held(dev)) /\ UNCHANGED <<plug, seen, dev, mine, calm, since>>
  BY <1>4 DEF SetMode
<1> QED BY <1>1, <1>2, <1>3, <1>4 DEF SetMode

-----------------------------------------------------------------------------
(* The types.                                                              *)

LEMMA AtLeast ==
  /\ \A x \in Ons : Longest >= x /\ x >= 0 /\ x \in Int
  /\ \A x \in Offs : Longest >= x /\ x >= 0 /\ x \in Int
  /\ Longest >= MinOn /\ Longest >= MinOff
  /\ 0 \in 0 .. Longest /\ Longest \in 0 .. Longest
  /\ \A x \in 0 .. Longest : Min2(x + 1, Longest) \in 0 .. Longest
  BY ClockAssumption DEF Ons, Offs, Longest, Min2

SeenStates == {"on", "off", "dark"}

LEMMA SwitchedType ==
  ASSUME seen \in SeenStates, since \in 0 .. Longest,
         NEW p \in BOOLEAN, NEW age \in 0 .. Longest, Switched(p, age)
  PROVE  plug' = p /\ plug' \in BOOLEAN /\ seen' \in SeenStates /\ since' \in 0 .. Longest
<1>1. plug' = p /\ seen' \in Reports(p) /\ since' = (IF plug = p THEN since ELSE age)
  BY DEF Switched
<1>2. Shows(p) \in SeenStates
  BY DEF Shows, SeenStates
<1>3. Reports(p) \subseteq SeenStates
  BY <1>2 DEF Reports, SeenStates
<1> QED BY <1>1, <1>3

\* The types, part by part.
Loose == dev \in Device /\ seen \in SeenStates /\ since \in 0 .. Longest
Plain ==
  /\ domain \in {"switch", "other"} /\ plug \in BOOLEAN /\ mode \in Modes /\ world \in Worlds
  /\ stage \in {"rest", "walk"} \cup Sources \cup Stops
  /\ gone \in BOOLEAN /\ mine \in BOOLEAN /\ unseen \in BOOLEAN /\ calm \in BOOLEAN

LEMMA TypeParts == TypeOK <=> Loose /\ Plain
  BY DEF TypeOK, Loose, Plain, SeenStates

LEMMA LooseStep ==
  ASSUME TypeOK, Next
  PROVE  Loose'
<1>0. dev \in Device /\ seen \in SeenStates /\ since \in 0 .. Longest
  BY TypeParts DEF Loose
<1>1. CASE Look
  <2>1. dev' \in Device
    BY <1>0, <1>1, LookEffect
  <2>2. since' \in 0 .. Longest
    BY <1>0, <1>1, AtLeast DEF Look
  <2> QED BY <1>0, <1>1, <2>1, <2>2 DEF Look, Loose
<1>2. CASE Walk
  BY <1>0, <1>2, WalkEffect DEF Loose, ghosts
<1>3. CASE TurnedOn
  <2>1. seen' \in SeenStates /\ since' \in 0 .. Longest
    BY <1>0, <1>3, AtLeast, SwitchedType DEF TurnedOn
  <2>2. {stage} \cap Paid \in SUBSET Paid
    OBVIOUS
  <2>3. dev' \in Device
    BY <1>0, <1>3, <2>2, ActivatedType DEF TurnedOn
  <2> QED BY <2>1, <2>3 DEF Loose
<1>4. CASE TurnOnFailed
  <2>1. seen' \in SeenStates /\ since' \in 0 .. Longest
    BY <1>0, <1>4, AtLeast, SwitchedType DEF TurnOnFailed
  <2>2. dev' \in Device
    BY <1>0, <1>4, DeviceIs DEF TurnOnFailed
  <2> QED BY <2>1, <2>2 DEF Loose
<1>5. CASE TurnedOff
  <2>1. seen' \in SeenStates /\ since' \in 0 .. Longest
    BY <1>0, <1>5, AtLeast, SwitchedType DEF TurnedOff
  <2> QED BY <1>0, <1>5, <2>1, StoppedType DEF TurnedOff, Loose
<1>6. CASE TurnOffFailed
  BY <1>0, <1>6, StoppedType DEF TurnOffFailed, Loose
<1>7. CASE \E m \in Modes : SetMode(m)
  <2>1. PICK m \in Modes : SetMode(m)
    BY <1>7
  <2>2. /\ dev' \in Device
        /\ Switched(FALSE, Longest) \/ UNCHANGED <<seen, since>>
    BY <1>0, <2>1, SetModeEffect
  <2>3. CASE Switched(FALSE, Longest)
    BY <1>0, <2>2, <2>3, AtLeast, SwitchedType DEF Loose
  <2>4. CASE UNCHANGED <<seen, since>>
    BY <1>0, <2>2, <2>4 DEF Loose
  <2> QED BY <2>2, <2>3, <2>4
<1>8. CASE Rebuild
  BY <1>0, <1>8, RegisteredType, TransplantType DEF Rebuild, Loose, ghosts
<1>9. CASE Restart
  <2>1. seen' \in SeenStates
    BY <1>0, <1>9 DEF Restart, Shows, SeenStates
  <2>2. dev' \in Device
    BY <1>9, NewType, AdoptType DEF Restart
  <2>3. since' \in 0 .. Longest
    BY <1>9, AtLeast DEF Restart
  <2> QED BY <2>1, <2>2, <2>3 DEF Loose
<1>10. CASE Disable
  <2>1. dev' \in Device
    BY <1>10, NewType DEF Disable
  <2>2. Switched(FALSE, Longest) \/ UNCHANGED <<seen, since>>
    BY <1>10 DEF Disable
  <2>3. CASE Switched(FALSE, Longest)
    BY <1>0, <2>1, <2>3, AtLeast, SwitchedType DEF Loose
  <2>4. CASE UNCHANGED <<seen, since>>
    BY <1>0, <2>1, <2>4 DEF Loose
  <2> QED BY <2>2, <2>3, <2>4
<1>11. CASE Enable
  BY <1>0, <1>11, RegisteredType, AtLeast DEF Enable, Loose
<1>12. CASE UserFlips
  <2>1. seen' \in SeenStates
    BY <1>0, <1>12 DEF UserFlips, Reports, Shows, SeenStates
  <2> QED BY <1>0, <1>12, <2>1, AtLeast DEF UserFlips, Loose
<1>13. CASE Report \/ GoDark
  BY <1>0, <1>13 DEF Report, GoDark, Shows, SeenStates, Loose, ghosts
<1>14. CASE Weather
  BY <1>0, <1>14 DEF Weather, Loose, ghosts
<1> QED
  BY <1>1, <1>2, <1>3, <1>4, <1>5, <1>6, <1>7, <1>8, <1>9, <1>10, <1>11, <1>12, <1>13, <1>14
     DEF Next

LEMMA PlainStep ==
  ASSUME TypeOK, Next
  PROVE  Plain'
<1>0. dev \in Device /\ seen \in SeenStates /\ since \in 0 .. Longest /\ Plain
  BY TypeParts DEF Loose
<1> USE DEF Plain, user
<1>1. CASE Look
  BY <1>0, <1>1 DEF Look
<1>2. CASE Walk
  BY <1>0, <1>2, WalkEffect DEF ghosts
<1>3. CASE TurnedOn
  BY <1>0, <1>3 DEF TurnedOn, Switched
<1>4. CASE TurnOnFailed
  BY <1>0, <1>4 DEF TurnOnFailed, Switched
<1>5. CASE TurnedOff
  BY <1>0, <1>5 DEF TurnedOff, Switched
<1>6. CASE TurnOffFailed
  BY <1>0, <1>6 DEF TurnOffFailed
<1>7. CASE \E m \in Modes : SetMode(m)
  <2>1. PICK m \in Modes : SetMode(m)
    BY <1>7
  <2>2. /\ \/ Switched(FALSE, Longest) /\ mine' = FALSE /\ calm' = calm
           \/ UNCHANGED <<plug, mine>> /\ calm' = FALSE
           \/ UNCHANGED <<plug, mine, calm>>
        /\ mode' = m /\ UNCHANGED <<domain, world, stage, gone, unseen>>
    BY <1>0, <2>1, SetModeEffect
  <2> QED BY <1>0, <2>2 DEF Switched
<1>8. CASE Rebuild
  BY <1>0, <1>8 DEF Rebuild, ghosts
<1>9. CASE Restart
  BY <1>0, <1>9 DEF Restart
<1>10. CASE Disable
  BY <1>0, <1>10 DEF Disable, Switched
<1>11. CASE Enable
  BY <1>0, <1>11 DEF Enable
<1>12. CASE UserFlips
  BY <1>0, <1>12 DEF UserFlips
<1>13. CASE Report \/ GoDark
  BY <1>0, <1>13 DEF Report, GoDark, ghosts
<1>14. CASE Weather
  BY <1>0, <1>14 DEF Weather, ghosts
<1> QED
  BY <1>1, <1>2, <1>3, <1>4, <1>5, <1>6, <1>7, <1>8, <1>9, <1>10, <1>11, <1>12, <1>13, <1>14
     DEF Next

\* Every variable keeps its type: the clocks stay in their bounds, the device
\* object is one (register_device, reconcile_device, sync_belief_to_observation).
THEOREM TypeCorrect == Spec => []TypeOK
<1>1. Init => TypeOK
  <2> SUFFICES ASSUME Init PROVE TypeOK
    OBVIOUS
  <2>1. Loose
    <3>1. 0 <= Longest /\ Longest \in 0 .. Longest
      BY LongestType
    <3> QED BY <3>1, NewType DEF Init, Loose, SeenStates
  <2>2. Plain
    BY DEF Init, Plain, Modes
  <2> QED BY <2>1, <2>2, TypeParts
<1>2. TypeOK /\ [Next]_vars => TypeOK'
  <2>1. TypeOK /\ Next => TypeOK'
    <3> SUFFICES ASSUME TypeOK, Next PROVE Loose' /\ Plain'
      BY TypeParts DEF Loose, Plain, TypeOK, SeenStates
    <3> QED BY LooseStep, PlainStep
  <2>2. TypeOK /\ UNCHANGED vars => TypeOK'
    BY DEF TypeOK, vars
  <2> QED BY <2>1, <2>2
<1> QED
  BY <1>1, <1>2, PTL DEF Spec

-----------------------------------------------------------------------------
(* Whose run it is.                                                        *)

\* A standing claim to have switched the load on is right, or the user did
\* something SEM has not noticed yet.
Claimed == dev.owned /\ dev.commanded /\ plug => mine \/ unseen

LEMMA ClaimedStep ==
  ASSUME TypeOK, Claimed, Next
  PROVE  Claimed'
<1>0. dev \in Device /\ seen \in SeenStates /\ plug \in BOOLEAN
  BY TypeParts DEF Loose, Plain
<1> USE DEF Claimed
<1>1. CASE Look
  <2> SUFFICES ASSUME dev'.owned, dev'.commanded, plug'
               PROVE  mine' \/ unseen'
    OBVIOUS
  <2>1. /\ dev.owned /\ dev.commanded
        /\ ~(seen = "on" /\ ~dev.active)
        /\ dev'.active # dev.active => seen = "off" /\ dev.active
    BY <1>0, <1>1, LookEffect
  <2>2. plug /\ (mine \/ unseen)
    BY <1>1, <2>1 DEF Look
  <2>3. Readable => seen = "on"
    BY <2>2 DEF Readable, Shows
  <2>4. unseen => unseen'
    BY <1>1, <2>1, <2>2, <2>3 DEF Look
  <2> QED BY <1>1, <2>2, <2>4 DEF Look
<1>2. CASE Walk
  BY <1>0, <1>2, WalkEffect DEF ghosts
<1>3. CASE TurnedOn
  BY <1>3 DEF TurnedOn
<1>4. CASE TurnOnFailed
  <2>1. dev'.owned = dev.owned /\ dev'.commanded = dev.commanded
    BY <1>0, <1>4, DeviceIs DEF TurnOnFailed
  <2>2. CASE mine' = TRUE
    BY <2>2
  <2>3. CASE UNCHANGED <<plug, seen, since, mine>>
    BY <1>4, <2>1, <2>3 DEF TurnOnFailed
  <2> QED BY <1>4, <2>2, <2>3 DEF TurnOnFailed
<1>5. CASE TurnedOff \/ TurnOffFailed
  BY <1>0, <1>5, StoppedType DEF TurnedOff, TurnOffFailed
<1>6. CASE \E m \in Modes : SetMode(m)
  BY <1>0, <1>6, SetModeEffect
<1>7. CASE Rebuild
  BY <1>0, <1>7, RegisteredType, TransplantType DEF Rebuild, ghosts
<1>8. CASE Restart
  BY <1>8, NewType, RegisteredType, AdoptType DEF Restart
<1>9. CASE Disable
  BY <1>9, RegisteredType DEF Disable
<1>10. CASE Enable
  BY <1>10, RegisteredType DEF Enable
<1>11. CASE UserFlips
  BY <1>11 DEF UserFlips
<1>12. CASE Report \/ GoDark \/ Weather
  BY <1>12 DEF Report, GoDark, Weather, ghosts
<1> QED
  BY <1>1, <1>2, <1>3, <1>4, <1>5, <1>6, <1>7, <1>8, <1>9, <1>10, <1>11, <1>12 DEF Next

\* Letting go is only ever done on such a claim.
LEMMA LetsGoOnClaim ==
  ASSUME TypeOK, Next, LetsGo
  PROVE  dev.owned /\ dev.commanded
<1>0. dev \in Device /\ plug /\ plug \in BOOLEAN
  BY TypeParts DEF Loose, LetsGo
<1>1. CASE Walk
  BY <1>0, <1>1, WalkEffect DEF LetsGo, user
<1>2. CASE \E m \in Modes : SetMode(m)
  BY <1>0, <1>2, SetModeEffect DEF LetsGo
<1>3. CASE Disable
  BY <1>0, <1>3 DEF Disable, LetsGo, Left, Commanded
<1>4. CASE Look \/ TurnedOn \/ TurnOnFailed \/ TurnedOff \/ TurnOffFailed
  BY <1>4 DEF Look, TurnedOn, TurnOnFailed, TurnedOff, TurnOffFailed, LetsGo, user
<1>5. CASE Rebuild \/ Restart \/ Enable
  BY <1>0, <1>5 DEF Rebuild, Restart, Enable, LetsGo, user
<1>6. CASE UserFlips \/ Report \/ GoDark \/ Weather
  BY <1>0, <1>6 DEF UserFlips, Report, GoDark, Weather, LetsGo, user
<1> QED BY <1>1, <1>2, <1>3, <1>4, <1>5, <1>6 DEF Next

\* Letting go of a load, by mode or by teardown, never switches off one that the
\* user started, whatever fails and whatever comes late
\* (update_device_control_mode, deactivate_devices, the force expiry of update).
THEOREM LoadOfTheUserStays == Spec => UsersLoadStays
<1>1. Init => Claimed
  BY DEF Init, Claimed
<1>2. TypeOK /\ Claimed /\ [Next]_vars =>
        Claimed' /\ [LetsGo => mine \/ unseen]_vars
  <2>1. ASSUME TypeOK, Claimed, Next PROVE Claimed' /\ (LetsGo => mine \/ unseen)
    BY <2>1, ClaimedStep, LetsGoOnClaim DEF Claimed, LetsGo
  <2>2. Claimed /\ UNCHANGED vars => Claimed'
    BY DEF Claimed, vars
  <2> QED BY <2>1, <2>2
<1> QED
  BY <1>1, <1>2, TypeCorrect, PTL DEF Spec, UsersLoadStays

-----------------------------------------------------------------------------
(* The anti-flicker clocks.                                                *)

\* While nothing goes wrong the relay has rested at least as long as the clock
\* that will be asked says, and longer than the minimum once it was asked.
OnTimed    == ~gone /\ calm /\ plug => since >= dev.sinceOn
OffTimed   == ~gone /\ calm /\ ~plug => since >= dev.sinceOff
StopTimed  == calm /\ plug /\ stage \in Stops => since >= MinOn
StartTimed == calm /\ ~plug /\ stage \in Sources => since >= MinOff
GoneRests  == gone => stage = "rest"
Timed == OnTimed /\ OffTimed /\ StopTimed /\ StartTimed /\ GoneRests

LEMMA StagesApart == Stops \cap Sources = {} /\ "rest" \notin Stops \cup Sources /\ "walk" \notin Stops \cup Sources
  BY DEF Stops, Sources, Paid

LEMMA LookTimed ==
  ASSUME TypeOK, Timed, Look
  PROVE  Timed'
<1>0. /\ dev \in Device /\ since \in 0 .. Longest
      /\ dev.sinceOn \in Ons /\ dev.sinceOff \in Offs
  BY TypeParts, DeviceIs DEF Loose
<1>1. /\ dev'.sinceOn \in {Min2(dev.sinceOn + 1, MinOn), 0}
      /\ dev'.sinceOff \in {Min2(dev.sinceOff + 1, MinOff), 0}
  BY <1>0, LookEffect
<1>2. since' = Min2(since + 1, Longest)
  BY DEF Look
<1>3. since >= dev.sinceOn => since' >= dev'.sinceOn
  BY <1>0, <1>1, <1>2, LongestType, ClockAssumption DEF Min2, Ons
<1>4. since >= dev.sinceOff => since' >= dev'.sinceOff
  BY <1>0, <1>1, <1>2, LongestType, ClockAssumption DEF Min2, Offs
<1> QED
  BY <1>3, <1>4, StagesApart
     DEF Look, Timed, OnTimed, OffTimed, StopTimed, StartTimed, GoneRests, user

LEMMA WalkTimed ==
  ASSUME TypeOK, Timed, Walk
  PROVE  Timed'
<1>0. dev \in Device
  BY TypeParts DEF Loose
<1> QED
  BY <1>0, WalkEffect
     DEF Timed, OnTimed, OffTimed, StopTimed, StartTimed, GoneRests, ghosts, user

LEMMA CallTimed ==
  ASSUME TypeOK, Timed, TurnedOn \/ TurnOnFailed \/ TurnedOff \/ TurnOffFailed
  PROVE  Timed'
<1>0. dev \in Device /\ since \in 0 .. Longest
  BY TypeParts DEF Loose
<1>1. stage \in Stops \cup Sources /\ stage' = "rest" /\ ~gone /\ gone' = gone
  BY StagesApart DEF TurnedOn, TurnOnFailed, TurnedOff, TurnOffFailed, Timed, GoneRests, user
<1>2. StopTimed' /\ StartTimed' /\ GoneRests'
  BY <1>1, StagesApart DEF StopTimed, StartTimed, GoneRests
<1>3. CASE TurnOnFailed \/ TurnOffFailed
  BY <1>2, <1>3 DEF TurnOnFailed, TurnOffFailed, Timed, OnTimed, OffTimed
<1>4. CASE TurnedOn
  <2>1. {stage} \cap Paid \in SUBSET Paid
    OBVIOUS
  <2>2. plug' = TRUE /\ dev'.sinceOn = 0
    BY <1>0, <1>4, <2>1, ActivatedType DEF TurnedOn, Switched
  <2>3. since' >= 0
    BY <1>0, <1>4 DEF TurnedOn, Switched
  <2> QED BY <1>2, <2>2, <2>3 DEF Timed, OnTimed, OffTimed
<1>5. CASE TurnedOff
  <2>1. plug' = FALSE /\ dev'.sinceOff = 0
    BY <1>0, <1>5, StoppedType DEF TurnedOff, Switched
  <2>2. since' >= 0
    BY <1>0, <1>5 DEF TurnedOff, Switched
  <2> QED BY <1>2, <2>1, <2>2 DEF Timed, OnTimed, OffTimed
<1> QED BY <1>3, <1>4, <1>5

LEMMA SetModeTimed ==
  ASSUME TypeOK, Timed, NEW m \in Modes, SetMode(m)
  PROVE  Timed'
<1>0. dev \in Device /\ since \in 0 .. Longest /\ since >= 0
  BY TypeParts DEF Loose
<1>1. dev' \in Device /\ UNCHANGED <<stage, gone>>
  BY <1>0, SetModeEffect
<1>2. CASE UNCHANGED <<plug, since, calm>> /\ dev'.sinceOn = dev.sinceOn /\ dev'.sinceOff = dev.sinceOff
  BY <1>1, <1>2 DEF Timed, OnTimed, OffTimed, StopTimed, StartTimed, GoneRests
<1>3. CASE calm' = FALSE
  BY <1>1, <1>3 DEF Timed, OnTimed, OffTimed, StopTimed, StartTimed, GoneRests
<1>4. CASE Switched(FALSE, Longest) /\ dev'.sinceOff = 0 /\ calm' = calm
  <2>1. plug' = FALSE /\ since' = (IF plug = FALSE THEN since ELSE Longest)
    BY <1>4 DEF Switched
  <2>2. since' >= 0
    BY <1>0, <2>1, LongestType
  <2>3. plug = TRUE => since' >= MinOff
    BY <2>1, AtLeast
  <2>4. plug \in BOOLEAN
    BY TypeParts DEF Plain
  <2>5. StartTimed'
    BY <1>1, <1>4, <2>1, <2>3, <2>4 DEF StartTimed, Timed
  <2> QED BY <1>1, <1>4, <2>1, <2>2, <2>5 DEF Timed, OnTimed, OffTimed, StopTimed, GoneRests
<1> QED BY <1>0, <1>2, <1>3, <1>4, SetModeEffect

\* Registration, the entry's lifetime, and what happens around SEM.
LEMMA OtherTimed ==
  ASSUME TypeOK, Timed,
         Rebuild \/ Restart \/ Disable \/ Enable \/ UserFlips \/ Report \/ GoDark \/ Weather
  PROVE  Timed'
<1>0. dev \in Device /\ dev.sinceOn \in Ons /\ dev.sinceOff \in Offs
  BY TypeParts, DeviceIs DEF Loose
<1> USE DEF Timed, OnTimed, OffTimed, StopTimed, StartTimed, GoneRests
<1>1. CASE Rebuild
  BY <1>0, <1>1, RegisteredType, TransplantType, StagesApart DEF Rebuild, ghosts, user
<1>2. CASE Restart \/ Enable
  BY <1>2, StagesApart DEF Restart, Enable, user
<1>3. CASE Disable
  BY <1>3, StagesApart DEF Disable
<1>4. CASE UserFlips
  BY <1>0, <1>4, AtLeast DEF UserFlips, user
<1>5. CASE Report \/ GoDark \/ Weather
  BY <1>5 DEF Report, GoDark, Weather, ghosts, user
<1> QED BY <1>1, <1>2, <1>3, <1>4, <1>5

LEMMA TimedStep ==
  ASSUME TypeOK, Timed, Next
  PROVE  Timed'
  BY LookTimed, WalkTimed, CallTimed, SetModeTimed, OtherTimed DEF Next

\* A call that ends, in success or with the process, switches its own way.
LEMMA CallsSwitch ==
  ASSUME TypeOK, Next, stage \in Sources \cup Stops, stage' = "rest", plug' # plug
  PROVE  (stage \in Stops /\ plug) \/ (stage \in Sources /\ ~plug)
<1>0. dev \in Device /\ plug \in BOOLEAN /\ stage # "rest" /\ stage # "walk"
  BY TypeParts, StagesApart DEF Loose, Plain
<1>1. CASE TurnedOn \/ TurnOnFailed
  <2>1. stage \in Sources /\ plug' = TRUE
    BY <1>1 DEF TurnedOn, TurnOnFailed, Switched
  <2> QED BY <1>0, <2>1
<1>2. CASE TurnedOff
  <2>1. stage \in Stops /\ plug' = FALSE
    BY <1>2 DEF TurnedOff, Switched
  <2> QED BY <1>0, <2>1
<1>7. CASE TurnOffFailed
  BY <1>7 DEF TurnOffFailed
<1>3. CASE Restart
  <2>1. \/ plug' = plug
        \/ stage \in Sources /\ plug' = TRUE
        \/ stage \in Stops /\ plug' = FALSE
    BY <1>3 DEF Restart
  <2> QED BY <1>0, <2>1
<1>4. CASE Walk
  BY <1>0, <1>4, WalkEffect
<1>5. CASE \E m \in Modes : SetMode(m)
  BY <1>0, <1>5, SetModeEffect
<1>6. CASE Look \/ Rebuild \/ Disable \/ Enable \/ UserFlips \/ Report \/ GoDark \/ Weather
  BY <1>0, <1>6 DEF Look, Rebuild, Disable, Enable, UserFlips, Report, GoDark, Weather
<1> QED BY <1>1, <1>2, <1>3, <1>4, <1>5, <1>6, <1>7 DEF Next

\* For any minimum run and pause, a cycle switches what a cycle switched before
\* only once that time is over, across rebuilds, changes of mode and a dark
\* entity (can_activate, can_deactivate, register_device).
THEOREM ContactorIsRested == Spec => ContactorRests
<1>1. Init => Timed
  <2>1. Init => since = Longest /\ dev = New /\ plug = FALSE /\ stage = "rest" /\ gone = FALSE
    BY DEF Init
  <2>2. New.sinceOff \in Offs
    BY NewType, DeviceIs
  <2> QED
    BY <2>1, <2>2, AtLeast, StagesApart
       DEF Timed, OnTimed, OffTimed, StopTimed, StartTimed, GoneRests
<1>2. TypeOK /\ Timed /\ [Next]_vars =>
        /\ Timed'
        /\ [ /\ stage \in Sources \cup Stops /\ stage' = "rest"
             /\ plug' # plug
             /\ calm
             => since >= IF plug THEN MinOn ELSE MinOff ]_vars
  <2> SUFFICES ASSUME TypeOK, Timed, [Next]_vars
               PROVE  /\ Timed'
                      /\ (/\ stage \in Sources \cup Stops /\ stage' = "rest"
                          /\ plug' # plug
                          /\ calm
                          => since >= IF plug THEN MinOn ELSE MinOff) \/ UNCHANGED vars
    OBVIOUS
  <2>1. CASE UNCHANGED vars
    BY <2>1 DEF vars, Timed, OnTimed, OffTimed, StopTimed, StartTimed, GoneRests
  <2>2. CASE Next
    <3>1. Timed'
      BY <2>2, TimedStep
    <3>2. ASSUME stage \in Sources \cup Stops, stage' = "rest", plug' # plug, calm
          PROVE  since >= IF plug THEN MinOn ELSE MinOff
      <4> plug \in BOOLEAN
        BY TypeParts DEF Plain
      <4>1. (stage \in Stops /\ plug) \/ (stage \in Sources /\ ~plug)
        BY <2>2, <3>2, CallsSwitch
      <4> QED BY <3>2, <4>1 DEF Timed, StopTimed, StartTimed
    <3> QED BY <3>1, <3>2
  <2> QED BY <2>1, <2>2
<1> QED
  BY <1>1, <1>2, TypeCorrect, PTL DEF Spec, ContactorRests
=============================================================================
