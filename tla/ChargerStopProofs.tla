-------------------- MODULE ChargerStopProofs --------------------
(***************************************************************************)
(* What SEM stops a charger with, and what it owes afterwards:             *)
(*                                                                         *)
(*   PhaseGuard   any number of phases and chargers, any limits and any    *)
(*                recovery count: its types, the shared headroom, the      *)
(*                earned recovery, the chargers' turn before the loads',   *)
(*                and that the guard implements PhaseLatch, on which       *)
(*                LoadShed is built                                        *)
(*   ParkDebt     any number of tries and failing calls: SEM's books of    *)
(*                its refusals, the box it leaves behind, and the dead     *)
(*                man's OFF behind a standing no only                      *)
(*   ChargePause  any modes, durations and holders of a copy: that a pause *)
(*                gives back the mode it was taken in, once                *)
(*                                                                         *)
(* The three are proved side by side and share nothing but this module.    *)
(***************************************************************************)
EXTENDS PhaseGuard, ParkDebt, ChargePause, TLAPS

-----------------------------------------------------------------------------
(* The phase guard.                                                        *)


LEMMA LeastInt == ASSUME NEW a \in Int, NEW b \in Int
                  PROVE  Least(a, b) \in Int /\ Least(a, b) \in {a, b} /\ Least(a, b) <= a /\ Least(a, b) <= b
BY DEF Least

LEMMA MostInt == ASSUME NEW a \in Int, NEW b \in Int
                 PROVE  Most(a, b) \in Int /\ Most(a, b) \in {a, b} /\ Most(a, b) >= a /\ Most(a, b) >= b
BY DEF Most

-----------------------------------------------------------------------------
(* Types, with the two facts they rest on.                                 *)

ModesOK  == /\ step \in {"rest", "filter", "ask"} /\ pending \subseteq Chargers
            /\ enforcing \in BOOLEAN /\ authorized \in BOOLEAN /\ fresh \in BOOLEAN
            /\ latched \subseteq Phases /\ asked \subseteq Phases
CountsOK == /\ recovery \in 0 .. RequiredCycles /\ calm \in 0 .. RequiredCycles
            /\ overFor \in [Phases -> 0 .. FirstCycles] /\ blockedFor \in 0 .. FirstCycles
AmpsOK   == /\ reserved \in Nat /\ promised \in Nat
            /\ margin \in -1 .. Limit /\ draw \in [Chargers -> 0 .. MaxA]

\* A guard that enforces without being trusted has not finished its count, and every reading it has
\* counted was ample.
Earning == enforcing /\ ~authorized => recovery < RequiredCycles /\ recovery <= calm

\* What a reading does to the guard, whatever it was: it watches, blocks, stays trusted or recovers.
LEMMA UpdateEffect ==
  ASSUME Update, ModesOK, CountsOK, Earning
  PROVE  /\ ModesOK' /\ CountsOK' /\ AmpsOK' /\ Earning'
         /\ reserved' = 0 /\ promised' = 0 /\ asked' = {} /\ step' = "filter"
<1>1. PICK safe \in BOOLEAN, on \in BOOLEAN, over \in SUBSET Phases : Update!(safe, on, over)
  BY DEF Update
<1>2. /\ draw' \in [Chargers -> 0 .. MaxA]
      /\ margin' \in IF over = {} THEN 0 .. Limit ELSE {-1}
      /\ Counted(over) /\ Judge(safe, over, on) /\ Remembered(safe, on)
      /\ reserved' = 0 /\ promised' = 0 /\ asked' = {}
      /\ step' = "filter" /\ pending' = Chargers
  BY <1>1
<1>3. margin' \in -1 .. Limit
  BY <1>2, AmpAssumption
<1>4. overFor' \in [Phases -> 0 .. FirstCycles]
  BY <1>2, CycleAssumption DEF Counted, CountsOK, Least
<1>5. calm' \in 0 .. RequiredCycles /\ blockedFor' \in 0 .. FirstCycles
  BY <1>2, CycleAssumption DEF Remembered, CountsOK, Least
<1>6. fresh' \in BOOLEAN
  BY <1>2, Zenon DEF Remembered
<1>7. /\ enforcing' \in BOOLEAN /\ authorized' \in BOOLEAN /\ latched' \subseteq Phases
      /\ recovery' \in 0 .. RequiredCycles /\ Earning'
  <2>1. CASE ~on /\ Watch
    <3>1. enforcing' \in BOOLEAN /\ authorized' \in BOOLEAN /\ latched' \subseteq Phases
      BY <2>1, Zenon DEF Watch
    <3>2. recovery' \in 0 .. RequiredCycles
      BY <2>1, CycleAssumption DEF Watch
    <3>3. Earning'
      BY <2>1 DEF Watch, Earning
    <3> QED BY <3>1, <3>2, <3>3
  <2>2. CASE on /\ ~safe /\ Block(over)
    <3>1. enforcing' \in BOOLEAN /\ authorized' \in BOOLEAN
      BY <2>2, Zenon DEF Block
    <3>2. latched' \subseteq Phases
      BY <2>2 DEF Block, ModesOK
    <3>3. recovery' = 0 /\ 0 \in 0 .. RequiredCycles /\ 0 < RequiredCycles /\ 0 <= calm'
      BY <2>2, <1>5, CycleAssumption DEF Block
    <3> QED BY <3>1, <3>2, <3>3 DEF Earning
  <2>3. CASE on /\ safe /\ StayTrusted
    BY <2>3 DEF StayTrusted, Earning, CountsOK
  <2>4. CASE on /\ safe /\ Recovering(safe)
    <3> DEFINE count == IF Ample(safe) THEN Enabled.count + 1 ELSE 0
    <3>1. /\ enforcing' = TRUE /\ recovery' = count /\ authorized' = (count >= RequiredCycles)
          /\ latched' = IF count >= RequiredCycles THEN {} ELSE latched
      BY <2>4 DEF Recovering
    <3>2. calm' = IF Ample(safe) THEN Least(calm + 1, RequiredCycles) ELSE 0
      BY <2>4, <1>2 DEF Remembered
    <3>3. Enabled.count \in Nat /\ Enabled.count < RequiredCycles /\ Enabled.count <= calm
      <4>1. ~Enabled.trusted
        BY <2>4 DEF Recovering
      <4>2. CASE enforcing
        BY <4>1, <4>2, CycleAssumption DEF Enabled, Earning, CountsOK
      <4>3. CASE ~enforcing
        BY <4>3, CycleAssumption DEF Enabled, CountsOK
      <4> QED BY <4>2, <4>3
    <3>4. count \in 0 .. RequiredCycles /\ (count < RequiredCycles => count <= calm')
      BY <3>2, <3>3, CycleAssumption DEF Least, CountsOK
    <3>5. latched' \subseteq Phases
      BY <3>1 DEF ModesOK
    <3> HIDE DEF count
    <3>6. CASE count >= RequiredCycles
      <4>1. authorized' = TRUE
        BY <3>1, <3>6
      <4> QED BY <3>1, <3>4, <3>5, <4>1 DEF Earning
    <3>7. CASE ~(count >= RequiredCycles)
      <4> DEFINE full == count >= RequiredCycles
      <4>1. full = FALSE
        BY <3>4, <3>7, CycleAssumption
      <4>2. authorized' = full
        BY <3>1
      <4> HIDE DEF full
      <4>3. authorized' = FALSE
        BY <4>1, <4>2, Zenon
      <4>4. count < RequiredCycles /\ count <= calm'
        BY <3>4, <3>7, CycleAssumption
      <4> QED BY <3>1, <3>4, <3>5, <4>3, <4>4 DEF Earning
    <3> QED BY <3>6, <3>7
  <2> QED BY <1>2, <2>1, <2>2, <2>3, <2>4 DEF Judge
<1>8. ModesOK'
  BY <1>2, <1>6, <1>7 DEF ModesOK
<1>9. CountsOK'
  BY <1>4, <1>5, <1>7 DEF CountsOK
<1>10. AmpsOK'
  BY <1>2, <1>3 DEF AmpsOK
<1> QED BY <1>2, <1>7, <1>8, <1>9, <1>10

-----------------------------------------------------------------------------
(* The headroom.                                                           *)

\* What an enforcing guard lets a cycle promise is what it has reserved, and that is no more than the
\* smallest margin.
Shared == enforcing => promised = reserved /\ reserved <= Most(0, margin)

\* A clamped command takes its increase out of the headroom left.
LEMMA ClampedEffect ==
  ASSUME AmpsOK, NEW c \in Chargers, NEW desired \in 1 .. MaxA, Clamped(c, desired)
  PROVE  /\ \E more \in 0 .. Headroom : reserved' = reserved + more /\ promised' = promised + more
         /\ Headroom \in Nat
<1>1. draw[c] \in 0 .. MaxA /\ MaxA \in Nat /\ Limit \in Nat
  BY AmpAssumption DEF AmpsOK
<1>2. Headroom \in Nat
  BY <1>1 DEF Headroom, Most, AmpsOK
<1> DEFINE target == Least(desired, MaxSafe(c))
<1>3. target \in Int /\ target <= draw[c] + Headroom
  BY <1>1, <1>2 DEF Least, MaxSafe
<1> HIDE DEF target
<1>4. Most(0, target - draw[c]) \in 0 .. Headroom /\ Most(0, target - draw[c]) = Most(0, target - draw[c])
  BY <1>1, <1>2, <1>3 DEF Most
<1>5. reserved' = reserved + Most(0, target - draw[c]) /\ promised' = promised + Most(0, target - draw[c])
  BY DEF Clamped, Commanded, target
<1> QED BY <1>2, <1>4, <1>5

LEMMA FilterEffect ==
  ASSUME NEW c \in Chargers, Filter(c), ModesOK, AmpsOK, Shared
  PROVE  /\ AmpsOK' /\ Shared'
         /\ step' \in {"filter", "ask"} /\ pending' \subseteq Chargers
         /\ UNCHANGED <<guardVars, meterVars, auxVars>>
<1>1. /\ NotCharging(c) \/ \E desired \in 1 .. MaxA : Charge(c, desired)
      /\ pending' = pending \ {c} /\ step' = IF pending' = {} THEN "ask" ELSE "filter"
      /\ UNCHANGED <<guardVars, meterVars, auxVars>>
  BY DEF Filter
<1>2. /\ reserved' \in Nat /\ promised' \in Nat
      /\ enforcing => promised' = reserved' /\ reserved' <= Most(0, margin)
  <2>1. CASE NoCurrent
    BY <2>1 DEF NoCurrent, AmpsOK, Shared
  <2>2. ASSUME NEW desired \in 1 .. MaxA, ~enforcing, UNCHANGED reserved, Commanded(c, desired)
        PROVE  reserved' \in Nat /\ promised' \in Nat
    BY <2>2, AmpAssumption DEF Commanded, Most, AmpsOK
  <2>3. ASSUME NEW desired \in 1 .. MaxA, enforcing, Clamped(c, desired)
        PROVE  reserved' \in Nat /\ promised' \in Nat /\ promised' = reserved' /\ reserved' <= Most(0, margin)
    <3>1. PICK more \in 0 .. Headroom : reserved' = reserved + more /\ promised' = promised + more
      BY <2>3, ClampedEffect
    <3>2. Headroom \in Nat
      BY <2>3, ClampedEffect
    <3> QED BY <3>1, <3>2, <2>3, AmpAssumption DEF Headroom, Most, AmpsOK, Shared
  <2> QED BY <1>1, <2>1, <2>2, <2>3 DEF Charge, NotCharging, Stopped
<1>3. AmpsOK' /\ Shared'
  BY <1>1, <1>2 DEF AmpsOK, Shared, guardVars, meterVars
<1> QED BY <1>1, <1>3 DEF ModesOK

IInv == ModesOK /\ CountsOK /\ AmpsOK /\ Earning /\ Shared

LEMMA IInvInit == Init => IInv
<1> SUFFICES ASSUME Init PROVE IInv
  OBVIOUS
<1>1. ModesOK /\ Earning
  BY DEF Init, ModesOK, Earning
<1>2. CountsOK
  BY CycleAssumption DEF Init, CountsOK
<1>3. AmpsOK /\ Shared
  BY AmpAssumption DEF Init, AmpsOK, Shared
<1> QED BY <1>1, <1>2, <1>3 DEF IInv

LEMMA IInvStep == ASSUME IInv, [Next]_vars PROVE IInv'
<1> USE DEF IInv
<1>1. CASE Update
  <2>1. /\ ModesOK' /\ CountsOK' /\ AmpsOK' /\ Earning' /\ reserved' = 0 /\ promised' = 0
    BY <1>1, UpdateEffect
  <2>2. Shared'
    BY <2>1, AmpAssumption DEF Shared, AmpsOK, Most
  <2> QED BY <2>1, <2>2
<1>2. ASSUME NEW c \in Chargers, Filter(c) PROVE IInv'
  <2>1. /\ AmpsOK' /\ Shared' /\ step' \in {"filter", "ask"} /\ pending' \subseteq Chargers
        /\ UNCHANGED <<guardVars, auxVars>>
    BY <1>2, FilterEffect
  <2> QED BY <2>1 DEF ModesOK, CountsOK, Earning, guardVars, auxVars
<1>3. CASE AskLoads
  <2>1. /\ asked' \subseteq Phases /\ step' = "rest" /\ reserved' = 0 /\ promised' = 0
        /\ UNCHANGED <<pending, enforcing, authorized, latched, recovery, overFor, meterVars, auxVars>>
    BY <1>3 DEF AskLoads, Requested
  <2>2. ModesOK' /\ CountsOK' /\ Earning'
    BY <2>1 DEF ModesOK, CountsOK, Earning, auxVars
  <2>3. AmpsOK' /\ Shared'
    BY <2>1, AmpAssumption DEF AmpsOK, Shared, meterVars, Most
  <2> QED BY <2>2, <2>3
<1>4. CASE UNCHANGED vars
  BY <1>4 DEF vars, guardVars, meterVars, auxVars, ModesOK, CountsOK, AmpsOK, Earning, Shared
<1> QED BY <1>1, <1>2, <1>3, <1>4 DEF Next

\* The types, an unfinished count that is earned, and reservations within the margin.
LEMMA Invariant == Spec => []IInv
BY IInvInit, IInvStep, PTL DEF Spec

\* Every variable of the guard and of the meters keeps its type, for all limits and counts.
THEOREM TypeCorrect == Spec => []TypeOK
<1>1. IInv => TypeOK
  BY DEF IInv, ModesOK, CountsOK, AmpsOK, TypeOK
<1> QED BY <1>1, Invariant, PTL

\* However many chargers are filtered against one reading, the amps their commands add never exceed
\* the smallest margin of it.
THEOREM HeadroomIsShared == Spec => []HeadroomShared
<1>1. IInv => HeadroomShared
  BY AmpAssumption DEF IInv, Shared, HeadroomShared, AmpsOK, Most
<1> QED BY <1>1, Invariant, PTL

-----------------------------------------------------------------------------
(* The recovery.                                                           *)

Earned == enforcing' /\ authorized' /\ ~(enforcing /\ authorized) => calm' >= RequiredCycles

LEMMA EarnedStep == ASSUME IInv, [Next]_vars PROVE Earned
<1> USE DEF IInv
<1>1. CASE Update
  <2>1. PICK safe \in BOOLEAN, on \in BOOLEAN, over \in SUBSET Phases : Update!(safe, on, over)
    BY <1>1 DEF Update
  <2>2. Judge(safe, over, on) /\ Remembered(safe, on)
    BY <2>1
  <2>3. CASE ~on /\ Watch
    BY <2>3 DEF Watch, Earned
  <2>6. CASE on /\ ~safe /\ Block(over)
    BY <2>6 DEF Block, Earned
  <2>4. CASE on /\ safe /\ StayTrusted
    BY <2>4 DEF StayTrusted, Enabled, Earned
  <2>5. CASE on /\ safe /\ Recovering(safe)
    <3> DEFINE count == IF Ample(safe) THEN Enabled.count + 1 ELSE 0
    <3>1. authorized' = (count >= RequiredCycles) /\ ~Enabled.trusted
      BY <2>5 DEF Recovering
    <3>2. calm' = IF Ample(safe) THEN Least(calm + 1, RequiredCycles) ELSE 0
      BY <2>2, <2>5 DEF Remembered
    <3>3. Enabled.count \in Nat /\ Enabled.count <= calm
      <4>1. CASE enforcing
        BY <3>1, <4>1, CycleAssumption DEF Enabled, Earning, CountsOK
      <4>2. CASE ~enforcing
        BY <4>2, CycleAssumption DEF Enabled, CountsOK
      <4> QED BY <4>1, <4>2
    <3>4. count >= RequiredCycles => calm' >= RequiredCycles
      BY <3>2, <3>3, CycleAssumption DEF Least, CountsOK
    <3> HIDE DEF count
    <3> QED BY <3>1, <3>4 DEF Earned
  <2> QED BY <2>2, <2>3, <2>4, <2>5, <2>6 DEF Judge
<1>2. ASSUME UNCHANGED <<enforcing, authorized>> PROVE Earned
  BY <1>2 DEF Earned
<1>3. ASSUME NEW c \in Chargers, Filter(c) PROVE UNCHANGED <<enforcing, authorized>>
  BY <1>3 DEF Filter, guardVars
<1>4. ASSUME AskLoads \/ UNCHANGED vars PROVE UNCHANGED <<enforcing, authorized>>
  BY <1>4 DEF AskLoads, vars, guardVars
<1> QED BY <1>1, <1>2, <1>3, <1>4 DEF Next

\* An enforcing guard is only trusted again after the whole count of ample readings in a row, for any
\* count and any margin, and when enforcement is switched on as well.
THEOREM RecoveryIsEarned == Spec => RecoveryEarned
<1>1. IInv /\ [Next]_vars => [Earned]_vars
  BY EarnedStep
<1>2. Earned <=> (enforcing' /\ authorized' /\ ~(enforcing /\ authorized) => calm' >= RequiredCycles)
  BY DEF Earned
<1> QED BY <1>1, <1>2, Invariant, PTL DEF Spec, RecoveryEarned

-----------------------------------------------------------------------------
(* What the loads are asked.                                               *)

\* A phase whose count runs was over in the cycle's reading, so an enforcing guard has latched it and
\* stopped the chargers; after two such cycles in a row it has stopped them twice, unless it only
\* observed in the first.
Counting ==
  enforcing => \A p \in Phases : overFor[p] > 0 => /\ p \in latched /\ blockedFor >= 1
                                                   /\ overFor[p] > 1 /\ ~fresh => blockedFor >= 2

LEMMA CountingStep == ASSUME IInv, Counting, [Next]_vars PROVE Counting'
<1> USE DEF IInv
<1>1. CASE Update
  <2>1. PICK safe \in BOOLEAN, on \in BOOLEAN, over \in SUBSET Phases : Update!(safe, on, over)
    BY <1>1 DEF Update
  <2>2. /\ safe => over = {}
        /\ Counted(over) /\ Judge(safe, over, on) /\ Remembered(safe, on)
    BY <2>1
  <2> SUFFICES ASSUME enforcing', NEW p \in Phases, overFor'[p] > 0
               PROVE  /\ p \in latched' /\ blockedFor' >= 1
                      /\ overFor'[p] > 1 /\ ~fresh' => blockedFor' >= 2
    BY DEF Counting
  <2>3. p \in over /\ overFor'[p] = Least(overFor[p] + 1, FirstCycles)
    BY <2>2 DEF Counted
  <2>4. on /\ ~safe /\ Block(over)
    BY <2>2, <2>3 DEF Judge, Watch
  <2>5. p \in latched' /\ enforcing' /\ ~authorized'
    BY <2>3, <2>4 DEF Block
  <2>6. blockedFor' = Least(blockedFor + 1, FirstCycles) /\ fresh' = (on /\ ~enforcing)
    BY <2>2, <2>5 DEF Remembered
  <2>7. blockedFor' >= 1
    BY <2>6, CycleAssumption DEF Least, CountsOK
  <2>8. ASSUME overFor'[p] > 1, ~fresh' PROVE blockedFor' >= 2
    <3>1. enforcing
      BY <2>4, <2>6, <2>8 DEF ModesOK
    <3>2. overFor[p] > 0
      BY <2>3, <2>8, CycleAssumption DEF Least, CountsOK
    <3>3. blockedFor >= 1
      BY <3>1, <3>2 DEF Counting
    <3> QED BY <2>6, <3>3, CycleAssumption DEF Least, CountsOK
  <2> QED BY <2>5, <2>7, <2>8
<1>2. ASSUME NEW c \in Chargers, Filter(c) PROVE Counting'
  BY <1>2 DEF Filter, guardVars, auxVars, Counting
<1>3. CASE AskLoads
  BY <1>3 DEF AskLoads, auxVars, Counting
<1>4. CASE UNCHANGED vars
  BY <1>4 DEF vars, guardVars, auxVars, Counting
<1> QED BY <1>1, <1>2, <1>3, <1>4 DEF Next

LEMMA CountingHolds == Spec => []Counting
<1>1. Init => Counting
  BY DEF Init, Counting
<1> QED BY <1>1, CountingStep, Invariant, PTL DEF Spec

\* What is asked is latched.
LEMMA RequestedIsLatched == ASSUME Counting PROVE Requested \subseteq latched
BY DEF Requested, Counting

LatchStep == [Latch!Reading \/ Latch!Ask]_<<enforcing, authorized, latched, asked>>

LEMMA StepIsALatchStep == ASSUME IInv, Counting, [Next]_vars PROVE LatchStep
<1> USE DEF LatchStep
<1>1. CASE Update
  <2>1. PICK safe \in BOOLEAN, on \in BOOLEAN, over \in SUBSET Phases : Update!(safe, on, over)
    BY <1>1 DEF Update
  <2>2. Judge(safe, over, on) /\ asked' = {}
    BY <2>1
  <2>3. CASE ~on /\ Watch
    BY <2>2, <2>3 DEF Watch, Latch!Watch, Latch!Reading
  <2>4. CASE on /\ ~safe /\ Block(over)
    BY <2>2, <2>4 DEF Block, Latch!Block, Latch!Reading
  <2>5. CASE on /\ safe /\ StayTrusted
    BY <2>2, <2>5 DEF StayTrusted, Latch!Trust, Latch!Reading
  <2>6. CASE on /\ safe /\ Recovering(safe)
    <3> DEFINE count == IF Ample(safe) THEN Enabled.count + 1 ELSE 0
               full  == count >= RequiredCycles
    <3>1. /\ enforcing' = TRUE /\ authorized' = full
          /\ latched' = IF full THEN {} ELSE latched
      BY <2>6 DEF Recovering
    <3>2. CASE full
      <4>1. full = TRUE
        BY <3>2
      <4> HIDE DEF full
      <4> QED BY <2>2, <3>1, <4>1 DEF Latch!Trust, Latch!Reading
    <3>3. CASE ~full
      <4>1. Enabled.count \in Nat
        BY DEF Enabled, IInv, CountsOK
      <4>2. full = FALSE
        BY <3>3, <4>1, CycleAssumption
      <4> HIDE DEF full
      <4>3. Latch!Block({})
        BY <2>2, <3>1, <4>2 DEF Latch!Block
      <4> QED BY <4>3 DEF Latch!Reading
    <3> QED BY <3>2, <3>3
  <2> QED BY <2>2, <2>3, <2>4, <2>5, <2>6 DEF Judge
<1>2. ASSUME NEW c \in Chargers, Filter(c) PROVE UNCHANGED <<enforcing, authorized, latched, asked>>
  BY <1>2 DEF Filter, guardVars
<1>3. CASE AskLoads
  BY <1>3, RequestedIsLatched DEF AskLoads, Latch!Ask
<1>4. CASE UNCHANGED vars
  BY <1>4 DEF vars, guardVars
<1> QED BY <1>1, <1>2, <1>3, <1>4 DEF Next

\* The guard implements PhaseLatch: phases stay latched until it is trusted again, and only for latched
\* phases are loads asked.
THEOREM GuardKeepsLatch == Spec => KeepsLatch
<1>1. Init => Latch!LatchInit
  BY DEF Init, Latch!LatchInit
<1>2. IInv /\ Counting /\ [Next]_vars => LatchStep
  BY StepIsALatchStep
<1> QED BY <1>1, <1>2, Invariant, CountingHolds, PTL DEF Spec, KeepsLatch, Latch!Spec, LatchStep, Latch!latch

Patient == asked' # asked /\ asked' # {} /\ Drawing => blockedFor >= FirstCycles \/ fresh

LEMMA PatientStep == ASSUME FirstCycles = 2, IInv, Counting, [Next]_vars PROVE Patient
<1> USE DEF Patient
<1>1. CASE Update
  BY <1>1 DEF Update
<1>2. ASSUME NEW c \in Chargers, Filter(c) PROVE asked' = asked
  BY <1>2 DEF Filter, guardVars
<1>3. CASE AskLoads
  <2> SUFFICES ASSUME NEW p \in asked', Drawing, ~fresh PROVE blockedFor >= FirstCycles
    OBVIOUS
  <2>1. p \in Phases /\ enforcing /\ overFor[p] >= FirstCycles
    BY <1>3 DEF AskLoads, Requested
  <2> QED BY <2>1 DEF Counting, IInv, CountsOK
<1>4. CASE UNCHANGED vars
  BY <1>4 DEF vars, guardVars
<1> QED BY <1>1, <1>2, <1>3, <1>4 DEF Next

\* With the code's two cycles: while a car draws, the loads answer only when the chargers had been
\* stopped in the cycle before as well, the cycle that switches enforcement on excepted.
THEOREM ChargersGoFirst == ASSUME FirstCycles = 2 PROVE Spec => ChargersFirst
<1>1. IInv /\ Counting /\ [Next]_vars => [Patient]_vars
  BY PatientStep
<1>2. Patient <=> (asked' # asked /\ asked' # {} /\ Drawing => blockedFor >= FirstCycles \/ fresh)
  BY DEF Patient
<1> QED BY <1>1, <1>2, Invariant, CountingHolds, PTL DEF Spec, ChargersFirst

-----------------------------------------------------------------------------
(* The debt of a park.                                                     *)


-----------------------------------------------------------------------------
(* The invariant.  What it says of SEM's promises holds until a slip.      *)

\* Hand-backs are made by a lifetime that commands, as it ends; a park that was heard as well.
Lifetimes ==
  /\ op \in Releasing <=> life \in {"disabling", "removing"}
  /\ life = "gone" => op = "none"
  /\ op \in Releasing \cup {"parkRecord"} => ~dev.observer

\* BooksAreTrue, whenever no command is between a verb and its record.
Books ==
  /\ record = said
  /\ dev.parked => said
  /\ said /\ ~dev.observer /\ adopting = "none" => dev.parked

Settled == dev.observer \/ op \in {"none", "enable", "parkSettle", "releaseEnable"}

\* In between, a command that is not withheld knows what it has said.
Between ==
  /\ op \in {"stopSettle", "stopRecord", "parkRecord"} /\ ~dev.observer => said
  /\ op \in {"stopRecord", "parkRecord"} /\ ~dev.observer => dev.parked
  /\ op = "startRecord" /\ ~dev.observer => ~said /\ ~dev.parked
  /\ op \in {"releaseArm", "releaseRecord"} => ~said

\* A start arms the floor, and voids the ask, before it enables.
Floored == op = "enable" /\ ~dev.observer => ask = NoAsk /\ failsafe = "floor"

\* The dead man's OFF is in the box, or on its way, behind a standing no; an observing stop withholds its own.
Armed ==
  /\ failsafe = "zero" => said \/ op = "releaseArm"
  /\ ask.at # "none" => \/ said \/ op = "releaseArm"
                        \/ dev.observer /\ op \in {"stopSettle", "parkSettle"}

Promises == (Settled => Books) /\ Between /\ Floored /\ Armed /\ (life = "gone" => ~said)

DebtInv == ParkTypeOK /\ enabled = ~said /\ Lifetimes /\ (~slip => Promises)

-----------------------------------------------------------------------------
(* What the calls come to.                                                 *)

\* The type invariant in three parts.
ParkObjects == /\ dev \in [parked : BOOLEAN, session : BOOLEAN, observer : BOOLEAN]
           /\ ask \in Asks /\ stray \in Asks /\ faults \in 0 .. MaxFaults
ParkFlags   == enabled \in BOOLEAN /\ record \in BOOLEAN /\ observer \in BOOLEAN /\ said \in BOOLEAN /\ slip \in BOOLEAN
ParkPlaces  == /\ failsafe \in {"floor", "zero"} /\ adopting \in {"none", "reading", "found"}
           /\ op \in {"none"} \cup Starting \cup Stopping \cup Releasing
           /\ life \in {"up", "disabling", "removing", "gone"}

LEMMA ParkTypeParts == ParkTypeOK <=> ParkObjects /\ ParkFlags /\ ParkPlaces
BY DEF ParkTypeOK, ParkObjects, ParkFlags, ParkPlaces

LEMMA ParkTypePartsNext == (ParkObjects /\ ParkFlags /\ ParkPlaces)' => ParkTypeOK'
BY DEF ParkTypeOK, ParkObjects, ParkFlags, ParkPlaces

LEMMA AskTypes ==
  /\ NoAsk \in Asks /\ NoAsk.at = "none"
  /\ \A t \in 1 .. Tries : /\ [at |-> "settling", try |-> t] \in Asks
                           /\ [at |-> "settling", try |-> t].at = "settling"
  /\ [at |-> "settling", try |-> 1] \in Asks
BY TriesAssumption DEF Asks, NoAsk

LEMMA FaultCounted ==
  ASSUME faults \in 0 .. MaxFaults, Fault \/ NoFault
  PROVE  faults' \in 0 .. MaxFaults
BY BoundAssumption DEF Fault, NoFault

\* The floor is armed, or not; the ask is void either way.
LEMMA ArmFloorEffect ==
  ASSUME ParkTypeOK, ArmFloor
  PROVE  /\ ask' = NoAsk /\ ask' \in Asks /\ ask'.at = "none" /\ faults' \in 0 .. MaxFaults
         /\ failsafe' \in {failsafe, "floor"}
         /\ faults' = faults /\ ~dev.observer => failsafe' = "floor"
BY AskTypes, FaultCounted DEF ArmFloor, ParkTypeOK, Fault, NoFault

\* A settled ask is sent, or over; observer mode sends nothing.
LEMMA SendOffEffect ==
  ASSUME ParkTypeOK, SendOff
  PROVE  /\ ask.at = "settling" /\ ask' \in Asks /\ faults' \in 0 .. MaxFaults
         /\ failsafe' \in {failsafe, "zero"}
         /\ dev.observer => ask'.at = "none" /\ failsafe' = failsafe
<1>1. ask.at = "settling" /\ ask \in [at : {"settling", "waiting"}, try : 1 .. Tries]
  BY DEF SendOff, ParkTypeOK, Asks
<1>2. [ask EXCEPT !.at = "waiting"] \in Asks
  BY <1>1 DEF Asks
<1> QED
  BY <1>1, <1>2, AskTypes, FaultCounted DEF SendOff, ParkTypeOK

\* A read-back ends the ask or asks again.
LEMMA AfterTypes ==
  ASSUME NEW a \in Asks, NEW session, a.at = "waiting", NEW b \in After(a, session)
  PROVE  b \in Asks
<1>1. a.try \in 1 .. Tries
  BY DEF Asks
<1>2. a.try < Tries => a.try + 1 \in 1 .. Tries
  BY <1>1, TriesAssumption
<1> QED
  BY <1>2, AskTypes DEF After

LEMMA NewDeviceType ==
  ASSUME observer \in BOOLEAN
  PROVE  /\ NewDevice \in [parked : BOOLEAN, session : BOOLEAN, observer : BOOLEAN]
         /\ ~NewDevice.parked /\ ~NewDevice.session /\ NewDevice.observer = observer
BY DEF NewDevice

-----------------------------------------------------------------------------
(* The actions.                                                            *)

LEMMA ParkInitInv == ParkInit => DebtInv
<1> SUFFICES ASSUME ParkInit PROVE DebtInv
  OBVIOUS
<1>1. ParkTypeOK
  <2>1. ParkFlags
    BY DEF ParkInit, ParkFlags
  <2>2. ParkObjects
    BY <2>1, NewDeviceType, AskTypes, BoundAssumption DEF ParkInit, ParkObjects, ParkFlags
  <2>3. ParkPlaces
    BY DEF ParkInit, ParkPlaces
  <2> QED
    BY <2>1, <2>2, <2>3, ParkTypeParts
<1>2. enabled = ~said /\ Lifetimes
  BY NewDeviceType DEF ParkInit, Lifetimes, Releasing
<1>3. Promises
  BY NewDeviceType, AskTypes DEF ParkInit, Promises, Books, Between, Floored, Armed
<1> QED
  BY <1>1, <1>2, <1>3 DEF DebtInv

LEMMA StrayType ==
  ASSUME ParkTypeOK, stray.at = "settling"
  PROVE  [stray EXCEPT !.at = "waiting"] \in Asks
<1>1. stray \in [at : {"settling", "waiting"}, try : 1 .. Tries]
  BY DEF ParkTypeOK, Asks
<1> QED
  BY <1>1 DEF Asks

LEMMA StartInv == DebtInv /\ Start => DebtInv'
<1> SUFFICES ASSUME DebtInv, Start PROVE DebtInv'
  OBVIOUS
<1>1. ParkTypeOK'
  <2>1. ParkObjects'
    BY ArmFloorEffect, ParkTypeParts DEF DebtInv, ParkObjects, Start, Ready, entry
  <2>2. ParkFlags'
    BY ArmFloorEffect, ParkTypeParts DEF DebtInv, ParkFlags, ParkObjects, Start, Ready, entry
  <2>3. ParkPlaces'
    BY ArmFloorEffect, ParkTypeParts DEF DebtInv, ParkPlaces, Starting, Stopping, Releasing, Start, Ready, entry
  <2> QED
    BY <2>1, <2>2, <2>3, ParkTypePartsNext
<1>2. enabled' = ~said' /\ Lifetimes'
  BY ArmFloorEffect DEF DebtInv, ParkTypeOK, Lifetimes, Starting, Stopping, Releasing, Start, Ready, entry
<1>3. ~slip' => Promises'
  BY ArmFloorEffect DEF DebtInv, ParkTypeOK, Lifetimes, Releasing, Promises, Settled, Books, Between, Floored, Armed, Start, Ready, entry
<1> QED
  BY <1>1, <1>2, <1>3 DEF DebtInv

LEMMA EnableInv == DebtInv /\ Enable => DebtInv'
<1> SUFFICES ASSUME DebtInv, Enable PROVE DebtInv'
  OBVIOUS
<1>1. ParkTypeOK'
  <2>1. ParkObjects'
    BY FaultCounted, ParkTypeParts DEF DebtInv, ParkObjects, Enable, Says, Owes, NoFault, asks, entry
  <2>2. ParkFlags'
    BY FaultCounted, ParkTypeParts DEF DebtInv, ParkFlags, ParkObjects, Enable, Says, Owes, NoFault, asks, entry
  <2>3. ParkPlaces'
    BY FaultCounted, ParkTypeParts DEF DebtInv, ParkPlaces, Starting, Stopping, Releasing, Enable, Says, Owes, NoFault, asks, entry
  <2> QED
    BY <2>1, <2>2, <2>3, ParkTypePartsNext
<1>2. enabled' = ~said' /\ Lifetimes'
  BY FaultCounted DEF DebtInv, ParkTypeOK, Lifetimes, Starting, Stopping, Releasing, Enable, Says, Owes, NoFault, asks, entry
<1>3. ~slip' => Promises'
  <2> SUFFICES ASSUME ~slip' PROVE Promises'
    OBVIOUS
  <2>0. op = "enable" /\ Promises /\ UNCHANGED <<failsafe, asks, entry, slip>>
    BY DEF DebtInv, Enable
  <2>1. CASE dev.observer
    <3>1. UNCHANGED <<enabled, said>> /\ op' = "startRecord" /\ dev'.parked = dev.parked /\ dev'.observer
      BY <2>1 DEF Enable, Says, Owes, DebtInv, ParkTypeOK
    <3> QED
      BY <2>0, <2>1, <3>1 DEF Promises, Settled, Books, Between, Floored, Armed, asks, entry
  <2>2. CASE op' = "none" /\ UNCHANGED <<enabled, said, dev>>
    BY <2>0, <2>2 DEF Promises, Settled, Books, Between, Floored, Armed, asks, entry
  <2>3. CASE ~dev.observer /\ op' = "startRecord"
    <3>1. ~said' /\ ~dev'.parked /\ ~dev'.observer
      BY <2>0, <2>3 DEF Enable, Says, Owes, DebtInv, ParkTypeOK
    <3>2. ask' = NoAsk /\ failsafe' = "floor" /\ ask'.at = "none"
      BY <2>0, <2>3, AskTypes DEF Promises, Floored, asks
    <3> QED
      BY <2>3, <3>1, <3>2 DEF Promises, Settled, Books, Between, Floored, Armed
  <2> QED
    BY <2>1, <2>2, <2>3 DEF Enable
<1> QED
  BY <1>1, <1>2, <1>3 DEF DebtInv

LEMMA StartRecordInv == DebtInv /\ StartRecord => DebtInv'
<1> SUFFICES ASSUME DebtInv, StartRecord PROVE DebtInv'
  OBVIOUS
<1>1. ParkTypeOK'
  <2>1. ParkObjects'
    BY ParkTypeParts DEF DebtInv, ParkObjects, StartRecord, Recorded, box, asks, ghost
  <2>2. ParkFlags'
    BY ParkTypeParts DEF DebtInv, ParkFlags, ParkObjects, StartRecord, Recorded, box, asks, ghost
  <2>3. ParkPlaces'
    BY ParkTypeParts DEF DebtInv, ParkPlaces, Starting, Stopping, Releasing, StartRecord, Recorded, box, asks, ghost
  <2> QED
    BY <2>1, <2>2, <2>3, ParkTypePartsNext
<1>2. enabled' = ~said' /\ Lifetimes'
  BY DEF DebtInv, ParkTypeOK, Lifetimes, Starting, Stopping, Releasing, StartRecord, Recorded, box, asks, ghost
<1>3. ~slip' => Promises'
  BY DEF DebtInv, ParkTypeOK, Lifetimes, Releasing, Promises, Settled, Books, Between, Floored, Armed, StartRecord, Recorded, box, asks, ghost
<1> QED
  BY <1>1, <1>2, <1>3 DEF DebtInv

LEMMA StopInv == DebtInv /\ Stop => DebtInv'
<1> SUFFICES ASSUME DebtInv, Stop PROVE DebtInv'
  OBVIOUS
<1>1. ParkTypeOK'
  <2>1. ParkObjects'
    BY FaultCounted, AskTypes, TriesAssumption, ParkTypeParts DEF DebtInv, ParkObjects, Stop, Says, ArmOff, NoFault, Ready, entry
  <2>2. ParkFlags'
    BY FaultCounted, AskTypes, TriesAssumption, ParkTypeParts DEF DebtInv, ParkFlags, ParkObjects, Stop, Says, ArmOff, NoFault, Ready, entry
  <2>3. ParkPlaces'
    BY FaultCounted, AskTypes, TriesAssumption, ParkTypeParts DEF DebtInv, ParkPlaces, Starting, Stopping, Releasing, Stop, Says, ArmOff, NoFault, Ready, entry
  <2> QED
    BY <2>1, <2>2, <2>3, ParkTypePartsNext
<1>2. enabled' = ~said' /\ Lifetimes'
  BY FaultCounted, AskTypes, TriesAssumption DEF DebtInv, ParkTypeOK, Lifetimes, Starting, Stopping, Releasing, Stop, Says, ArmOff, NoFault, Ready, entry
<1>3. ~slip' => Promises'
  <2> SUFFICES ASSUME ~slip' PROVE Promises'
    OBVIOUS
  <2>1. (Settled => Books)'
    BY FaultCounted, AskTypes, TriesAssumption DEF DebtInv, ParkTypeOK, Lifetimes, Releasing, Promises, Settled, Books, Between, Stop, Says, ArmOff, NoFault, Ready, entry
  <2>2. Between'
    BY FaultCounted, AskTypes, TriesAssumption DEF DebtInv, ParkTypeOK, Lifetimes, Releasing, Promises, Settled, Books, Between, Stop, Says, ArmOff, NoFault, Ready, entry
  <2>3. Floored'
    BY FaultCounted, AskTypes, TriesAssumption DEF DebtInv, ParkTypeOK, Lifetimes, Promises, Floored, Stop, Says, ArmOff, NoFault, Ready, entry
  <2>4. Armed'
    BY FaultCounted, AskTypes, TriesAssumption DEF DebtInv, ParkTypeOK, Lifetimes, Promises, Floored, Armed, Stop, Says, ArmOff, NoFault, Ready, entry
  <2>5. (life = "gone" => ~said)'
    BY FaultCounted, AskTypes, TriesAssumption DEF DebtInv, ParkTypeOK, Lifetimes, Releasing, Promises, Stop, Says, ArmOff, NoFault, Ready, entry
  <2> QED
    BY <2>1, <2>2, <2>3, <2>4, <2>5 DEF Promises
<1> QED
  BY <1>1, <1>2, <1>3 DEF DebtInv

LEMMA StopSettledInv == DebtInv /\ StopSettled => DebtInv'
<1> SUFFICES ASSUME DebtInv, StopSettled PROVE DebtInv'
  OBVIOUS
<1>1. ParkTypeOK'
  <2>1. ParkObjects'
    BY SendOffEffect, ParkTypeParts DEF DebtInv, ParkObjects, StopSettled, Owes, entry, ghost
  <2>2. ParkFlags'
    BY SendOffEffect, ParkTypeParts DEF DebtInv, ParkFlags, ParkObjects, StopSettled, Owes, entry, ghost
  <2>3. ParkPlaces'
    BY SendOffEffect, ParkTypeParts DEF DebtInv, ParkPlaces, Starting, Stopping, Releasing, StopSettled, Owes, entry, ghost
  <2> QED
    BY <2>1, <2>2, <2>3, ParkTypePartsNext
<1>2. enabled' = ~said' /\ Lifetimes'
  BY SendOffEffect DEF DebtInv, ParkTypeOK, Lifetimes, Starting, Stopping, Releasing, StopSettled, Owes, entry, ghost
<1>3. ~slip' => Promises'
  BY SendOffEffect DEF DebtInv, ParkTypeOK, Lifetimes, Releasing, Promises, Settled, Books, Between, Floored, Armed, StopSettled, Owes, entry, ghost
<1> QED
  BY <1>1, <1>2, <1>3 DEF DebtInv

LEMMA StopRecordInv == DebtInv /\ StopRecord => DebtInv'
<1> SUFFICES ASSUME DebtInv, StopRecord PROVE DebtInv'
  OBVIOUS
<1>1. ParkTypeOK'
  <2>1. ParkObjects'
    BY ParkTypeParts DEF DebtInv, ParkObjects, StopRecord, Recorded, box, asks, ghost
  <2>2. ParkFlags'
    BY ParkTypeParts DEF DebtInv, ParkFlags, ParkObjects, StopRecord, Recorded, box, asks, ghost
  <2>3. ParkPlaces'
    BY ParkTypeParts DEF DebtInv, ParkPlaces, Starting, Stopping, Releasing, StopRecord, Recorded, box, asks, ghost
  <2> QED
    BY <2>1, <2>2, <2>3, ParkTypePartsNext
<1>2. enabled' = ~said' /\ Lifetimes'
  BY DEF DebtInv, ParkTypeOK, Lifetimes, Starting, Stopping, Releasing, StopRecord, Recorded, box, asks, ghost
<1>3. ~slip' => Promises'
  BY DEF DebtInv, ParkTypeOK, Lifetimes, Releasing, Promises, Settled, Books, Between, Floored, Armed, StopRecord, Recorded, box, asks, ghost
<1> QED
  BY <1>1, <1>2, <1>3 DEF DebtInv

LEMMA ParkInv == DebtInv /\ Park => DebtInv'
<1> SUFFICES ASSUME DebtInv, Park PROVE DebtInv'
  OBVIOUS
<1>1. ParkTypeOK'
  <2>1. ParkObjects'
    BY ParkTypeParts DEF DebtInv, ParkObjects, Park, Says, Ready, asks, entry
  <2>2. ParkFlags'
    BY ParkTypeParts DEF DebtInv, ParkFlags, ParkObjects, Park, Says, Ready, asks, entry
  <2>3. ParkPlaces'
    BY ParkTypeParts DEF DebtInv, ParkPlaces, Starting, Stopping, Releasing, Park, Says, Ready, asks, entry
  <2> QED
    BY <2>1, <2>2, <2>3, ParkTypePartsNext
<1>2. enabled' = ~said' /\ Lifetimes'
  BY DEF DebtInv, ParkTypeOK, Lifetimes, Starting, Stopping, Releasing, Park, Says, Ready, asks, entry
<1>3. ~slip' => Promises'
  BY DEF DebtInv, ParkTypeOK, Lifetimes, Releasing, Promises, Settled, Books, Between, Floored, Armed, Park, Says, Ready, asks, entry
<1> QED
  BY <1>1, <1>2, <1>3 DEF DebtInv

LEMMA ParkUnheardInv == DebtInv /\ ParkUnheard => DebtInv'
<1> SUFFICES ASSUME DebtInv, ParkUnheard PROVE DebtInv'
  OBVIOUS
<1>1. ParkTypeOK'
  <2>1. ParkObjects'
    BY FaultCounted, AskTypes, TriesAssumption, ParkTypeParts DEF DebtInv, ParkObjects, ParkUnheard, ArmOff, NoFault, Ready, box, entry
  <2>2. ParkFlags'
    BY FaultCounted, AskTypes, TriesAssumption, ParkTypeParts DEF DebtInv, ParkFlags, ParkObjects, ParkUnheard, ArmOff, NoFault, Ready, box, entry
  <2>3. ParkPlaces'
    BY FaultCounted, AskTypes, TriesAssumption, ParkTypeParts DEF DebtInv, ParkPlaces, Starting, Stopping, Releasing, ParkUnheard, ArmOff, NoFault, Ready, box, entry
  <2> QED
    BY <2>1, <2>2, <2>3, ParkTypePartsNext
<1>2. enabled' = ~said' /\ Lifetimes'
  BY FaultCounted, AskTypes, TriesAssumption DEF DebtInv, ParkTypeOK, Lifetimes, Starting, Stopping, Releasing, ParkUnheard, ArmOff, NoFault, Ready, box, entry
<1>3. ~slip' => Promises'
  BY FaultCounted, AskTypes, TriesAssumption DEF DebtInv, ParkTypeOK, Lifetimes, Releasing, Promises, Settled, Books, Between, Floored, Armed, ParkUnheard, ArmOff, NoFault, Ready, box, entry
<1> QED
  BY <1>1, <1>2, <1>3 DEF DebtInv

LEMMA ParkRecordInv == DebtInv /\ ParkRecord => DebtInv'
<1> SUFFICES ASSUME DebtInv, ParkRecord PROVE DebtInv'
  OBVIOUS
<1>1. ParkTypeOK'
  <2>1. ParkObjects'
    BY AskTypes, TriesAssumption, ParkTypeParts DEF DebtInv, ParkObjects, ParkRecord, Recorded, ArmOff, box, ghost
  <2>2. ParkFlags'
    BY AskTypes, TriesAssumption, ParkTypeParts DEF DebtInv, ParkFlags, ParkObjects, ParkRecord, Recorded, ArmOff, box, ghost
  <2>3. ParkPlaces'
    BY AskTypes, TriesAssumption, ParkTypeParts DEF DebtInv, ParkPlaces, Starting, Stopping, Releasing, ParkRecord, Recorded, ArmOff, box, ghost
  <2> QED
    BY <2>1, <2>2, <2>3, ParkTypePartsNext
<1>2. enabled' = ~said' /\ Lifetimes'
  BY AskTypes, TriesAssumption DEF DebtInv, ParkTypeOK, Lifetimes, Starting, Stopping, Releasing, ParkRecord, Recorded, ArmOff, box, ghost
<1>3. ~slip' => Promises'
  BY AskTypes, TriesAssumption DEF DebtInv, ParkTypeOK, Lifetimes, Releasing, Promises, Settled, Books, Between, Floored, Armed, ParkRecord, Recorded, ArmOff, box, ghost
<1> QED
  BY <1>1, <1>2, <1>3 DEF DebtInv

LEMMA ParkSettledInv == DebtInv /\ ParkSettled => DebtInv'
<1> SUFFICES ASSUME DebtInv, ParkSettled PROVE DebtInv'
  OBVIOUS
<1>1. ParkTypeOK'
  <2>1. ParkObjects'
    BY SendOffEffect, ParkTypeParts DEF DebtInv, ParkObjects, ParkSettled, entry, ghost
  <2>2. ParkFlags'
    BY SendOffEffect, ParkTypeParts DEF DebtInv, ParkFlags, ParkObjects, ParkSettled, entry, ghost
  <2>3. ParkPlaces'
    BY SendOffEffect, ParkTypeParts DEF DebtInv, ParkPlaces, Starting, Stopping, Releasing, ParkSettled, entry, ghost
  <2> QED
    BY <2>1, <2>2, <2>3, ParkTypePartsNext
<1>2. enabled' = ~said' /\ Lifetimes'
  BY SendOffEffect DEF DebtInv, ParkTypeOK, Lifetimes, Starting, Stopping, Releasing, ParkSettled, entry, ghost
<1>3. ~slip' => Promises'
  BY SendOffEffect DEF DebtInv, ParkTypeOK, Lifetimes, Releasing, Promises, Settled, Books, Between, Floored, Armed, ParkSettled, entry, ghost
<1> QED
  BY <1>1, <1>2, <1>3 DEF DebtInv

LEMMA ReadBackInv == DebtInv /\ ReadBack => DebtInv'
<1> SUFFICES ASSUME DebtInv, ReadBack PROVE DebtInv'
  OBVIOUS
<1>1. ParkTypeOK'
  <2>1. ParkObjects'
    BY AfterTypes, ParkTypeParts DEF DebtInv, ParkObjects, ReadBack, box, entry, ghost
  <2>2. ParkFlags'
    BY AfterTypes, ParkTypeParts DEF DebtInv, ParkFlags, ParkObjects, ReadBack, box, entry, ghost
  <2>3. ParkPlaces'
    BY AfterTypes, ParkTypeParts DEF DebtInv, ParkPlaces, Starting, Stopping, Releasing, ReadBack, box, entry, ghost
  <2> QED
    BY <2>1, <2>2, <2>3, ParkTypePartsNext
<1>2. enabled' = ~said' /\ Lifetimes'
  BY AfterTypes DEF DebtInv, ParkTypeOK, Lifetimes, Starting, Stopping, Releasing, ReadBack, box, entry, ghost
<1>3. ~slip' => Promises'
  <2> SUFFICES ASSUME ~slip' PROVE Promises'
    OBVIOUS
  <2>1. (Settled => Books)'
    BY AfterTypes DEF DebtInv, ParkTypeOK, Lifetimes, Releasing, Promises, Settled, Books, Between, ReadBack, box, entry, ghost
  <2>2. Between'
    BY AfterTypes DEF DebtInv, ParkTypeOK, Lifetimes, Releasing, Promises, Settled, Books, Between, ReadBack, box, entry, ghost
  <2>3. Floored'
    BY AskTypes, AfterTypes DEF DebtInv, ParkTypeOK, Lifetimes, Promises, Floored, ReadBack, box, entry, ghost
  <2>4. Armed'
    BY AfterTypes DEF DebtInv, ParkTypeOK, Lifetimes, Promises, Floored, Armed, ReadBack, box, entry, ghost
  <2>5. (life = "gone" => ~said)'
    BY AfterTypes DEF DebtInv, ParkTypeOK, Lifetimes, Releasing, Promises, ReadBack, box, entry, ghost
  <2> QED
    BY <2>1, <2>2, <2>3, <2>4, <2>5 DEF Promises
<1> QED
  BY <1>1, <1>2, <1>3 DEF DebtInv

LEMMA ResendInv == DebtInv /\ Resend => DebtInv'
<1> SUFFICES ASSUME DebtInv, Resend PROVE DebtInv'
  OBVIOUS
<1>1. ParkTypeOK'
  <2>1. ParkObjects'
    BY SendOffEffect, ParkTypeParts DEF DebtInv, ParkObjects, Resend, entry, ghost
  <2>2. ParkFlags'
    BY SendOffEffect, ParkTypeParts DEF DebtInv, ParkFlags, ParkObjects, Resend, entry, ghost
  <2>3. ParkPlaces'
    BY SendOffEffect, ParkTypeParts DEF DebtInv, ParkPlaces, Starting, Stopping, Releasing, Resend, entry, ghost
  <2> QED
    BY <2>1, <2>2, <2>3, ParkTypePartsNext
<1>2. enabled' = ~said' /\ Lifetimes'
  BY SendOffEffect DEF DebtInv, ParkTypeOK, Lifetimes, Starting, Stopping, Releasing, Resend, entry, ghost
<1>3. ~slip' => Promises'
  <2> SUFFICES ASSUME ~slip' PROVE Promises'
    OBVIOUS
  <2>1. (Settled => Books)'
    BY SendOffEffect DEF DebtInv, ParkTypeOK, Lifetimes, Releasing, Promises, Settled, Books, Between, Resend, entry, ghost
  <2>2. Between'
    BY SendOffEffect DEF DebtInv, ParkTypeOK, Lifetimes, Releasing, Promises, Settled, Books, Between, Resend, entry, ghost
  <2>3. Floored'
    BY AskTypes, SendOffEffect DEF DebtInv, ParkTypeOK, Lifetimes, Promises, Floored, Resend, entry, ghost
  <2>4. Armed'
    BY SendOffEffect DEF DebtInv, ParkTypeOK, Lifetimes, Promises, Floored, Armed, Resend, entry, ghost
  <2>5. (life = "gone" => ~said)'
    BY SendOffEffect DEF DebtInv, ParkTypeOK, Lifetimes, Releasing, Promises, Resend, entry, ghost
  <2> QED
    BY <2>1, <2>2, <2>3, <2>4, <2>5 DEF Promises
<1> QED
  BY <1>1, <1>2, <1>3 DEF DebtInv

LEMMA StrayReadBackInv == DebtInv /\ StrayReadBack => DebtInv'
<1> SUFFICES ASSUME DebtInv, StrayReadBack PROVE DebtInv'
  OBVIOUS
<1>1. ParkTypeOK'
  <2>1. ParkObjects'
    BY AfterTypes, ParkTypeParts DEF DebtInv, ParkObjects, StrayReadBack, box, entry, ghost
  <2>2. ParkFlags'
    BY AfterTypes, ParkTypeParts DEF DebtInv, ParkFlags, ParkObjects, StrayReadBack, box, entry, ghost
  <2>3. ParkPlaces'
    BY AfterTypes, ParkTypeParts DEF DebtInv, ParkPlaces, Starting, Stopping, Releasing, StrayReadBack, box, entry, ghost
  <2> QED
    BY <2>1, <2>2, <2>3, ParkTypePartsNext
<1>2. enabled' = ~said' /\ Lifetimes'
  BY AfterTypes DEF DebtInv, ParkTypeOK, Lifetimes, Starting, Stopping, Releasing, StrayReadBack, box, entry, ghost
<1>3. ~slip' => Promises'
  BY AfterTypes DEF DebtInv, ParkTypeOK, Lifetimes, Releasing, Promises, Settled, Books, Between, Floored, Armed, StrayReadBack, box, entry, ghost
<1> QED
  BY <1>1, <1>2, <1>3 DEF DebtInv

LEMMA StrayResendInv == DebtInv /\ StrayResend => DebtInv'
<1> SUFFICES ASSUME DebtInv, StrayResend PROVE DebtInv'
  OBVIOUS
<1>1. ParkTypeOK'
  <2>1. ParkObjects'
    BY StrayType, ParkTypeParts DEF DebtInv, ParkObjects, StrayResend, entry
  <2>2. ParkFlags'
    BY StrayType, ParkTypeParts DEF DebtInv, ParkFlags, ParkObjects, StrayResend, entry
  <2>3. ParkPlaces'
    BY StrayType, ParkTypeParts DEF DebtInv, ParkPlaces, Starting, Stopping, Releasing, StrayResend, entry
  <2> QED
    BY <2>1, <2>2, <2>3, ParkTypePartsNext
<1>2. enabled' = ~said' /\ Lifetimes'
  BY StrayType DEF DebtInv, ParkTypeOK, Lifetimes, Starting, Stopping, Releasing, StrayResend, entry
<1>3. ~slip' => Promises'
  BY StrayType DEF DebtInv, ParkTypeOK, Lifetimes, Releasing, Promises, Settled, Books, Between, Floored, Armed, StrayResend, entry
<1> QED
  BY <1>1, <1>2, <1>3 DEF DebtInv

LEMMA ToggleInv == DebtInv /\ Toggle => DebtInv'
<1> SUFFICES ASSUME DebtInv, Toggle PROVE DebtInv'
  OBVIOUS
<1>1. ParkTypeOK'
  <2>1. ParkObjects'
    BY ParkTypeParts DEF DebtInv, ParkObjects, Toggle, box, asks, ghost
  <2>2. ParkFlags'
    BY ParkTypeParts DEF DebtInv, ParkFlags, ParkObjects, Toggle, box, asks, ghost
  <2>3. ParkPlaces'
    BY ParkTypeParts DEF DebtInv, ParkPlaces, Starting, Stopping, Releasing, Toggle, box, asks, ghost
  <2> QED
    BY <2>1, <2>2, <2>3, ParkTypePartsNext
<1>2. enabled' = ~said' /\ Lifetimes'
  BY DEF DebtInv, ParkTypeOK, Lifetimes, Starting, Stopping, Releasing, Toggle, box, asks, ghost
<1>3. ~slip' => Promises'
  BY DEF DebtInv, ParkTypeOK, Lifetimes, Releasing, Promises, Settled, Books, Between, Floored, Armed, Toggle, box, asks, ghost
<1> QED
  BY <1>1, <1>2, <1>3 DEF DebtInv

LEMMA TellInv == DebtInv /\ Tell => DebtInv'
<1> SUFFICES ASSUME DebtInv, Tell PROVE DebtInv'
  OBVIOUS
<1>1. ParkTypeOK'
  <2>1. ParkObjects'
    BY ParkTypeParts DEF DebtInv, ParkObjects, ParkFlags, Tell, Ready, box, asks, ghost
  <2>2. ParkFlags'
    BY ParkTypeParts DEF DebtInv, ParkFlags, ParkObjects, Tell, Ready, box, asks, ghost
  <2>3. ParkPlaces'
    BY ParkTypeParts DEF DebtInv, ParkPlaces, Starting, Stopping, Releasing, Tell, Ready, box, asks, ghost
  <2> QED
    BY <2>1, <2>2, <2>3, ParkTypePartsNext
<1>2. enabled' = ~said' /\ Lifetimes'
  BY DEF DebtInv, ParkTypeOK, Lifetimes, Starting, Stopping, Releasing, Tell, Ready, box, asks, ghost
<1>3. ~slip' => Promises'
  BY DEF DebtInv, ParkTypeOK, Lifetimes, Releasing, Promises, Settled, Books, Between, Floored, Armed, Tell, Ready, box, asks, ghost
<1> QED
  BY <1>1, <1>2, <1>3 DEF DebtInv

LEMMA AdoptReadInv == DebtInv /\ AdoptRead => DebtInv'
<1> SUFFICES ASSUME DebtInv, AdoptRead PROVE DebtInv'
  OBVIOUS
<1>1. ParkTypeOK'
  <2>1. ParkObjects'
    BY ParkTypeParts DEF DebtInv, ParkObjects, AdoptRead, box, asks, ghost
  <2>2. ParkFlags'
    BY ParkTypeParts DEF DebtInv, ParkFlags, ParkObjects, AdoptRead, box, asks, ghost
  <2>3. ParkPlaces'
    BY ParkTypeParts DEF DebtInv, ParkPlaces, Starting, Stopping, Releasing, AdoptRead, box, asks, ghost
  <2> QED
    BY <2>1, <2>2, <2>3, ParkTypePartsNext
<1>2. enabled' = ~said' /\ Lifetimes'
  BY DEF DebtInv, ParkTypeOK, Lifetimes, Starting, Stopping, Releasing, AdoptRead, box, asks, ghost
<1>3. ~slip' => Promises'
  BY DEF DebtInv, ParkTypeOK, Lifetimes, Releasing, Promises, Settled, Books, Between, Floored, Armed, AdoptRead, box, asks, ghost
<1> QED
  BY <1>1, <1>2, <1>3 DEF DebtInv

LEMMA AdoptTakeInv == DebtInv /\ AdoptTake => DebtInv'
<1> SUFFICES ASSUME DebtInv, AdoptTake PROVE DebtInv'
  OBVIOUS
<1>1. ParkTypeOK'
  <2>1. ParkObjects'
    BY ParkTypeParts DEF DebtInv, ParkObjects, AdoptTake, box, asks
  <2>2. ParkFlags'
    BY ParkTypeParts DEF DebtInv, ParkFlags, ParkObjects, AdoptTake, box, asks
  <2>3. ParkPlaces'
    BY ParkTypeParts DEF DebtInv, ParkPlaces, Starting, Stopping, Releasing, AdoptTake, box, asks
  <2> QED
    BY <2>1, <2>2, <2>3, ParkTypePartsNext
<1>2. enabled' = ~said' /\ Lifetimes'
  BY DEF DebtInv, ParkTypeOK, Lifetimes, Starting, Stopping, Releasing, AdoptTake, box, asks
<1>3. ~slip' => Promises'
  BY DEF DebtInv, ParkTypeOK, Lifetimes, Releasing, Promises, Settled, Books, Between, Floored, Armed, AdoptTake, box, asks
<1> QED
  BY <1>1, <1>2, <1>3 DEF DebtInv

LEMMA ReloadInv == DebtInv /\ Reload => DebtInv'
<1> SUFFICES ASSUME DebtInv, Reload PROVE DebtInv'
  OBVIOUS
<1>1. ParkTypeOK'
  <2>1. ParkObjects'
    BY NewDeviceType, AskTypes, ParkTypeParts DEF DebtInv, ParkObjects, ParkFlags, Reload, AdoptionStarts, Ready, box, ghost
  <2>2. ParkFlags'
    BY NewDeviceType, AskTypes, ParkTypeParts DEF DebtInv, ParkFlags, ParkObjects, Reload, AdoptionStarts, Ready, box, ghost
  <2>3. ParkPlaces'
    BY NewDeviceType, AskTypes, ParkTypeParts DEF DebtInv, ParkPlaces, Starting, Stopping, Releasing, Reload, AdoptionStarts, Ready, box, ghost
  <2> QED
    BY <2>1, <2>2, <2>3, ParkTypePartsNext
<1>2. enabled' = ~said' /\ Lifetimes'
  BY NewDeviceType, AskTypes DEF DebtInv, ParkTypeOK, Lifetimes, Starting, Stopping, Releasing, Reload, AdoptionStarts, Ready, box, ghost
<1>3. ~slip' => Promises'
  BY NewDeviceType, AskTypes DEF DebtInv, ParkTypeOK, Lifetimes, Releasing, Promises, Settled, Books, Between, Floored, Armed, Reload, AdoptionStarts, Ready, box, ghost
<1> QED
  BY <1>1, <1>2, <1>3 DEF DebtInv

LEMMA KillInv == DebtInv /\ Kill => DebtInv'
<1> SUFFICES ASSUME DebtInv, Kill PROVE DebtInv'
  OBVIOUS
<1>1. ParkTypeOK'
  <2>1. ParkObjects'
    BY NewDeviceType, AskTypes, ParkTypeParts DEF DebtInv, ParkObjects, ParkFlags, Kill, AdoptionStarts, box
  <2>2. ParkFlags'
    BY NewDeviceType, AskTypes, ParkTypeParts DEF DebtInv, ParkFlags, ParkObjects, Kill, AdoptionStarts, box
  <2>3. ParkPlaces'
    BY NewDeviceType, AskTypes, ParkTypeParts DEF DebtInv, ParkPlaces, Starting, Stopping, Releasing, Kill, AdoptionStarts, box
  <2> QED
    BY <2>1, <2>2, <2>3, ParkTypePartsNext
<1>2. enabled' = ~said' /\ Lifetimes'
  BY NewDeviceType, AskTypes DEF DebtInv, ParkTypeOK, Lifetimes, Starting, Stopping, Releasing, Kill, AdoptionStarts, box
<1>3. ~slip' => Promises'
  BY NewDeviceType, AskTypes DEF DebtInv, ParkTypeOK, Lifetimes, Releasing, Promises, Settled, Books, Between, Floored, Armed, Kill, AdoptionStarts, box
<1> QED
  BY <1>1, <1>2, <1>3 DEF DebtInv

LEMMA LeaveInv ==
  ASSUME DebtInv, NEW how \in {"disabling", "removing"}, Leave(how)
  PROVE  DebtInv'
<1>1. ParkTypeOK'
  <2>1. ParkObjects'
    BY ParkTypeParts DEF DebtInv, ParkObjects, Leave, Unaware, HandsBack, Ready, box, asks
  <2>2. ParkFlags'
    BY ParkTypeParts DEF DebtInv, ParkFlags, ParkObjects, Leave, Unaware, HandsBack, Ready, box, asks
  <2>3. ParkPlaces'
    BY ParkTypeParts DEF DebtInv, ParkPlaces, Starting, Stopping, Releasing, Leave, Unaware, HandsBack, Ready, box, asks
  <2> QED
    BY <2>1, <2>2, <2>3, ParkTypePartsNext
<1>2. enabled' = ~said' /\ Lifetimes'
  BY DEF DebtInv, ParkTypeOK, Lifetimes, Starting, Stopping, Releasing, Leave, Unaware, HandsBack, Ready, box, asks
<1>3. ~slip' => Promises'
  BY DEF DebtInv, ParkTypeOK, Lifetimes, Releasing, Promises, Settled, Books, Between, Floored, Armed, Leave, Unaware, HandsBack, Ready, box, asks
<1> QED
  BY <1>1, <1>2, <1>3 DEF DebtInv

LEMMA ReleaseEnableInv == DebtInv /\ ReleaseEnable => DebtInv'
<1> SUFFICES ASSUME DebtInv, ReleaseEnable PROVE DebtInv'
  OBVIOUS
<1>1. ParkTypeOK'
  <2>1. ParkObjects'
    BY FaultCounted, ParkTypeParts DEF DebtInv, ParkObjects, ReleaseEnable, Says, NoFault, asks, entry
  <2>2. ParkFlags'
    BY FaultCounted, ParkTypeParts DEF DebtInv, ParkFlags, ParkObjects, ReleaseEnable, Says, NoFault, asks, entry
  <2>3. ParkPlaces'
    BY FaultCounted, ParkTypeParts DEF DebtInv, ParkPlaces, Starting, Stopping, Releasing, ReleaseEnable, Says, NoFault, asks, entry
  <2> QED
    BY <2>1, <2>2, <2>3, ParkTypePartsNext
<1>2. enabled' = ~said' /\ Lifetimes'
  BY FaultCounted DEF DebtInv, ParkTypeOK, Lifetimes, Starting, Stopping, Releasing, ReleaseEnable, Says, NoFault, asks, entry
<1>3. ~slip' => Promises'
  BY FaultCounted DEF DebtInv, ParkTypeOK, Lifetimes, Releasing, Promises, Settled, Books, Between, Floored, Armed, ReleaseEnable, Says, NoFault, asks, entry
<1> QED
  BY <1>1, <1>2, <1>3 DEF DebtInv

LEMMA ReleaseArmInv == DebtInv /\ ReleaseArm => DebtInv'
<1> SUFFICES ASSUME DebtInv, ReleaseArm PROVE DebtInv'
  OBVIOUS
<1>1. ParkTypeOK'
  <2>1. ParkObjects'
    BY ArmFloorEffect, ParkTypeParts DEF DebtInv, ParkObjects, ReleaseArm, entry
  <2>2. ParkFlags'
    BY ArmFloorEffect, ParkTypeParts DEF DebtInv, ParkFlags, ParkObjects, ReleaseArm, entry
  <2>3. ParkPlaces'
    BY ArmFloorEffect, ParkTypeParts DEF DebtInv, ParkPlaces, Starting, Stopping, Releasing, ReleaseArm, entry
  <2> QED
    BY <2>1, <2>2, <2>3, ParkTypePartsNext
<1>2. enabled' = ~said' /\ Lifetimes'
  BY ArmFloorEffect DEF DebtInv, ParkTypeOK, Lifetimes, Starting, Stopping, Releasing, ReleaseArm, entry
<1>3. ~slip' => Promises'
  BY ArmFloorEffect DEF DebtInv, ParkTypeOK, Lifetimes, Releasing, Promises, Settled, Books, Between, Floored, Armed, ReleaseArm, entry
<1> QED
  BY <1>1, <1>2, <1>3 DEF DebtInv

LEMMA ReleaseRecordInv == DebtInv /\ ReleaseRecord => DebtInv'
<1> SUFFICES ASSUME DebtInv, ReleaseRecord PROVE DebtInv'
  OBVIOUS
<1>1. ParkTypeOK'
  <2>1. ParkObjects'
    BY ParkTypeParts DEF DebtInv, ParkObjects, ReleaseRecord, box, asks, ghost
  <2>2. ParkFlags'
    BY ParkTypeParts DEF DebtInv, ParkFlags, ParkObjects, ReleaseRecord, box, asks, ghost
  <2>3. ParkPlaces'
    BY ParkTypeParts DEF DebtInv, ParkPlaces, Starting, Stopping, Releasing, ReleaseRecord, box, asks, ghost
  <2> QED
    BY <2>1, <2>2, <2>3, ParkTypePartsNext
<1>2. enabled' = ~said' /\ Lifetimes'
  BY DEF DebtInv, ParkTypeOK, Lifetimes, Starting, Stopping, Releasing, ReleaseRecord, box, asks, ghost
<1>3. ~slip' => Promises'
  BY DEF DebtInv, ParkTypeOK, Lifetimes, Releasing, Promises, Settled, Books, Between, Floored, Armed, ReleaseRecord, box, asks, ghost
<1> QED
  BY <1>1, <1>2, <1>3 DEF DebtInv

LEMMA SetupInv == DebtInv /\ Setup => DebtInv'
<1> SUFFICES ASSUME DebtInv, Setup PROVE DebtInv'
  OBVIOUS
<1>1. ParkTypeOK'
  <2>1. ParkObjects'
    BY NewDeviceType, AskTypes, ParkTypeParts DEF DebtInv, ParkObjects, ParkFlags, Setup, AdoptionStarts, box
  <2>2. ParkFlags'
    BY NewDeviceType, AskTypes, ParkTypeParts DEF DebtInv, ParkFlags, ParkObjects, Setup, AdoptionStarts, box
  <2>3. ParkPlaces'
    BY NewDeviceType, AskTypes, ParkTypeParts DEF DebtInv, ParkPlaces, Starting, Stopping, Releasing, Setup, AdoptionStarts, box
  <2> QED
    BY <2>1, <2>2, <2>3, ParkTypePartsNext
<1>2. enabled' = ~said' /\ Lifetimes'
  BY NewDeviceType, AskTypes DEF DebtInv, ParkTypeOK, Lifetimes, Starting, Stopping, Releasing, Setup, AdoptionStarts, box
<1>3. ~slip' => Promises'
  BY NewDeviceType, AskTypes DEF DebtInv, ParkTypeOK, Lifetimes, Releasing, Promises, Settled, Books, Between, Floored, Armed, Setup, AdoptionStarts, box
<1> QED
  BY <1>1, <1>2, <1>3 DEF DebtInv

-----------------------------------------------------------------------------
(* The theorems.                                                           *)

LEMMA ParkStutterInv == DebtInv /\ UNCHANGED parkVars => DebtInv'
<1> SUFFICES ASSUME DebtInv, UNCHANGED parkVars PROVE DebtInv'
  OBVIOUS
<1>1. ParkTypeOK' /\ enabled' = ~said'
  BY DEF DebtInv, ParkTypeOK, parkVars
<1>2. Lifetimes' /\ (~slip' => Promises')
  BY DEF DebtInv, Lifetimes, Promises, Settled, Books, Between, Floored, Armed, parkVars
<1> QED
  BY <1>1, <1>2 DEF DebtInv

LEMMA ParkStepInv == DebtInv /\ [ParkNext]_parkVars => DebtInv'
BY StartInv, EnableInv, StartRecordInv, StopInv, StopSettledInv, StopRecordInv, ParkInv, ParkUnheardInv,
   ParkRecordInv, ParkSettledInv, ReadBackInv, ResendInv, StrayReadBackInv, StrayResendInv, ToggleInv,
   TellInv, AdoptReadInv, AdoptTakeInv, ReloadInv, KillInv, LeaveInv, ReleaseEnableInv, ReleaseArmInv,
   ReleaseRecordInv, SetupInv, ParkStutterInv
DEF ParkNext

LEMMA ParkInvariance == ParkSpec => []DebtInv
BY ParkInitInv, ParkStepInv, PTL DEF ParkSpec

\* The box, the device object, its asks and the entry's books stay within their types.
THEOREM ParkTypeCorrect == ParkSpec => []ParkTypeOK
<1>1. DebtInv => ParkTypeOK
  BY DEF DebtInv
<1> QED
  BY ParkInvariance, <1>1, PTL

\* Between commands SEM's books of its refusals are true, for any number of tries and of failing calls
\* (devices/base.py, _remember_parked and adopt_park_state; #935, #1027).
THEOREM BooksStayTrue == ParkSpec => []BooksAreTrue
<1>1. DebtInv => BooksAreTrue
  BY DEF DebtInv, Promises, Settled, Books, BooksAreTrue, Ready
<1> QED
  BY ParkInvariance, <1>1, PTL

\* A box SEM has left, by disabling or by removal, has neither its disable nor its dead man's OFF in it
\* (devices/base.py, release_to_user; #935).
THEOREM LeavesNoRefusal == ParkSpec => []NoRefusalLeft
<1>1. DebtInv => NoRefusalLeft
  BY DEF DebtInv, ParkTypeOK, Lifetimes, Promises, Armed, NoRefusalLeft
<1> QED
  BY ParkInvariance, <1>1, PTL

\* Who puts the dead man's OFF into the box.
LEMMA WhoArms ==
  ASSUME DebtInv, [ParkNext]_parkVars, failsafe # "zero", failsafe' = "zero"
  PROVE  StopSettled \/ ParkSettled \/ Resend \/ StrayResend
BY DEF ParkNext, parkVars, Start, ArmFloor, Enable, StartRecord, Stop, StopRecord, Park, ParkUnheard, ParkRecord,
  ReadBack, StrayReadBack, Toggle, Tell, AdoptRead, AdoptTake, Reload, Kill, Leave, ReleaseEnable,
  ReleaseArm, ReleaseRecord, Setup, box

\* The dead man's OFF lands only behind a no of SEM's that still stands (devices/base.py,
\* arm_failsafe_off and the generation its late resend checks; #1163).
THEOREM DeadManStaysBehindNo == ParkSpec => DeadManBehindNo
<1> DEFINE Landed == failsafe # "zero" /\ failsafe' = "zero" => said \/ op = "releaseArm" \/ slip'
<1>1. DebtInv /\ [ParkNext]_parkVars => Landed
  <2> SUFFICES ASSUME DebtInv, [ParkNext]_parkVars, failsafe # "zero", failsafe' = "zero", ~slip'
               PROVE  said \/ op = "releaseArm"
    BY DEF Landed
  <2>1. CASE StopSettled \/ ParkSettled \/ Resend
    <3>1. SendOff /\ UNCHANGED slip
      BY <2>1 DEF StopSettled, ParkSettled, Resend, ghost
    <3>2. ask.at = "settling" /\ ~dev.observer
      BY <3>1, SendOffEffect DEF DebtInv
    <3> QED
      BY <3>1, <3>2 DEF DebtInv, Promises, Armed
  <2>2. CASE StrayResend
    BY <2>2 DEF StrayResend
  <2> QED
    BY <2>1, <2>2, WhoArms
<1>2. DebtInv /\ [ParkNext]_parkVars => [Landed]_parkVars
  BY <1>1
<1> QED
  BY ParkInvariance, <1>2, PTL DEF ParkSpec, DeadManBehindNo

-----------------------------------------------------------------------------
(* The pause.                                                              *)

\* A copy that is held is what was read, with the mode that was asked for.
Copied ==
  \A h \in Holders : held[h] # None =>
    held[h].row = IF held[h].asked = None THEN held[h].read
                  ELSE ModeWritten(held[h].read, held[h].asked)

\* As long as nobody has worked from an old row, the stored row is the pause the user is owed: a pause on
\* record is owed with its way back and its time, and a charger that is not off has none.
OnRecord ==
  /\ stored.mode = "off" /\ stored.resume # None =>
       owed # None /\ owed.back = stored.resume /\ owed.left = stored.until
  /\ stored.mode # "off" => stored.resume = None /\ owed = None

PauseInv == PauseTypeOK /\ Copied /\ (~lost => OnRecord)

\* Rows.

LEMMA LeftFacts ==
  /\ Left \subseteq Nat /\ \A d \in Durations : d \in Left
  /\ \A l \in Left : Later(l) \in Left
  /\ None \notin Left /\ Later(None) = None
<1>1. Left \subseteq Nat /\ \A d \in Durations : d \in Left
  BY PauseAssumption DEF Left
<1>2. ASSUME NEW l \in Left PROVE Later(l) \in Left
  <2>1. CASE l = 0
    BY <2>1 DEF Later, Left
  <2>2. CASE l # 0
    <3>1. PICK d \in Durations : l \in 0 .. d
      BY <2>2 DEF Left
    <3>2. d \in Nat /\ l \in Nat /\ l - 1 \in 0 .. d
      BY <2>2, <3>1, PauseAssumption
    <3> QED
      BY <2>2, <3>2 DEF Later, Left
  <2> QED
    BY <2>1, <2>2
<1> QED
  BY <1>1, <1>2, PauseAssumption DEF Later

LEMMA RowFacts ==
  ASSUME NEW row \in Rows
  PROVE  /\ row.mode \in Modes \cup {"off"} /\ row.until \in Left \cup {None} /\ row.resume \in Modes \cup {None}
         /\ Cleared(row) \in Rows /\ Cleared(row).mode = row.mode
         /\ Cleared(row).until = None /\ Cleared(row).resume = None
         /\ Aged(row) \in Rows /\ Aged(row).mode = row.mode
         /\ Aged(row).until = Later(row.until) /\ Aged(row).resume = row.resume
<1>1. Later(row.until) \in Left \cup {None}
  BY LeftFacts DEF Rows
<1> QED
  BY <1>1 DEF Rows, Cleared, Aged

LEMMA ModeWrittenFacts ==
  ASSUME NEW row \in Rows, NEW m \in Modes \cup {"off"}
  PROVE  /\ ModeWritten(row, m) \in Rows /\ ModeWritten(row, m).mode = m
         /\ m = "off" => /\ ModeWritten(row, m).until = row.until
                         /\ ModeWritten(row, m).resume = row.resume
         /\ m # "off" => ModeWritten(row, m).until = None /\ ModeWritten(row, m).resume = None
BY PauseAssumption DEF Rows, ModeWritten, Cleared

\* Time passes alike for a row and for the row a mode was written into.
LEMMA AgedModeWritten ==
  ASSUME NEW row \in Rows, NEW m \in Modes \cup {"off"}
  PROVE  Aged(ModeWritten(row, m)) = ModeWritten(Aged(row), m)
BY LeftFacts DEF Rows, ModeWritten, Cleared, Aged

Holds == [read : Rows, row : Rows, asked : Modes \cup {"off", None}]

LEMMA HeldFacts ==
  ASSUME PauseTypeOK, NEW h \in Holders, held[h] # None
  PROVE  held[h] \in Holds
BY DEF PauseTypeOK, Holds

LEMMA OwedFacts ==
  ASSUME NEW b \in Modes, NEW l \in Left
  PROVE  /\ [back |-> b, left |-> l] \in [back : Modes, left : Left]
         /\ [back |-> b, left |-> l] # None
BY LeftFacts, PauseAssumption

LEMMA PauseInitInv == PauseInit => PauseInv
<1> SUFFICES ASSUME PauseInit PROVE PauseInv
  OBVIOUS
<1>1. stored \in Rows /\ stored.resume = None
  BY DEF PauseInit, Rows
<1>2. live = stored /\ held = [h \in Holders |-> None] /\ owed = None
      /\ reloading = FALSE /\ presses = 0 /\ lost = FALSE
  BY DEF PauseInit
<1>3. PauseTypeOK
  <2>1. held \in [Holders -> Holds \cup {None}]
    BY <1>2
  <2>2. presses \in 0 .. MaxPresses
    BY <1>2, PauseAssumption
  <2> QED
    BY <1>1, <1>2, <2>1, <2>2 DEF PauseTypeOK, Holds
<1>4. Copied /\ OnRecord
  BY <1>1, <1>2 DEF Copied, OnRecord
<1> QED
  BY <1>3, <1>4 DEF PauseInv

LEMMA PressInv ==
  ASSUME PauseInv, NEW d \in Durations, Press(d)
  PROVE  PauseInv'
<1> DEFINE back == WayBack(live)
           row  == [stored EXCEPT !.until = d, !.resume = back]
<1>1. /\ presses < MaxPresses /\ presses' = presses + 1
      /\ back # None
      /\ stored' = (IF live.mode # "off" THEN [row EXCEPT !.mode = "off"] ELSE row)
      /\ live' = stored' /\ UNCHANGED <<held, reloading>>
      /\ owed' = [back |-> IF owed # None THEN owed.back ELSE back, left |-> d]
      /\ lost' = Stale
  BY DEF Press, Land
<1>2. live \in Rows /\ stored \in Rows /\ d \in Left
  BY LeftFacts DEF PauseInv, PauseTypeOK
<1>3. back \in Modes
  BY <1>1, <1>2, RowFacts DEF WayBack
<1> HIDE DEF back
<1>4. /\ stored' \in Rows /\ stored'.until = d /\ stored'.resume = back
      /\ stored'.mode = IF live.mode # "off" THEN "off" ELSE stored.mode
  BY <1>1, <1>2, <1>3 DEF Rows
<1>5. /\ owed' \in [back : Modes, left : Left] /\ owed' # None /\ owed'.left = d
      /\ owed'.back = IF owed # None THEN owed.back ELSE back
  <2>1. (IF owed # None THEN owed.back ELSE back) \in Modes
    BY <1>3 DEF PauseInv, PauseTypeOK
  <2> QED
    BY <1>1, <1>2, <2>1, OwedFacts
<1>6. PauseTypeOK'
  BY <1>1, <1>4, <1>5, PauseAssumption DEF PauseInv, PauseTypeOK, Stale
<1>7. Copied'
  BY <1>1 DEF PauseInv, Copied
<1>8. ASSUME ~lost' PROVE OnRecord'
  <2>1. live = stored /\ OnRecord
    BY <1>1, <1>8 DEF Stale, PauseInv
  <2>2. stored'.mode = "off"
    BY <1>2, <1>4, <2>1
  <2>3. owed'.back = back
    BY <1>5, <1>1, <2>1 DEF OnRecord, back, WayBack
  <2> QED
    BY <1>4, <1>5, <2>2, <2>3 DEF OnRecord
<1> QED
  BY <1>6, <1>7, <1>8 DEF PauseInv

LEMMA ChooseInv ==
  ASSUME PauseInv, NEW m \in Modes \cup {"off"}, Choose(m)
  PROVE  PauseInv'
<1>1. /\ stored' = ModeWritten(stored, m) /\ live' = stored' /\ owed' = Spoken(m)
      /\ UNCHANGED <<held, reloading, presses, lost>> /\ stored \in Rows
  BY DEF Choose, Land, PauseInv, PauseTypeOK
<1>2. PauseTypeOK'
  BY <1>1, ModeWrittenFacts DEF PauseInv, PauseTypeOK, Spoken
<1>3. Copied'
  BY <1>1 DEF PauseInv, Copied
<1>4. ASSUME ~lost' PROVE OnRecord'
  BY <1>1, <1>4, ModeWrittenFacts, PauseAssumption DEF PauseInv, OnRecord, Spoken
<1> QED
  BY <1>2, <1>3, <1>4 DEF PauseInv

\* What a tick writes: the pause's own way back, or the mode the row has, and no pause.
LEMMA TickedFacts ==
  ASSUME NEW seen \in Rows, NEW row \in Rows
  PROVE  /\ Ticked(seen, row) \in Rows
         /\ Ticked(seen, row).until = None /\ Ticked(seen, row).resume = None
         /\ Ticked(seen, row).mode = IF seen.mode = "off" /\ seen.resume # None THEN seen.resume ELSE row.mode
<1>1. CASE seen.mode = "off" /\ seen.resume # None
  <2>1. seen.resume \in Modes \cup {"off"}
    BY <1>1, RowFacts
  <2>2. ModeWritten(row, seen.resume) \in Rows /\ ModeWritten(row, seen.resume).mode = seen.resume
    BY <2>1, ModeWrittenFacts
  <2> QED
    BY <1>1, <2>2, RowFacts DEF Ticked
<1>2. CASE ~(seen.mode = "off" /\ seen.resume # None)
  BY <1>2, RowFacts DEF Ticked
<1> QED
  BY <1>1, <1>2

LEMMA SweepInv == PauseInv /\ Sweep => PauseInv'
<1> SUFFICES ASSUME PauseInv, Sweep PROVE PauseInv'
  OBVIOUS
<1>1. /\ stored' = Ticked(live, stored) /\ live' = stored' /\ UNCHANGED <<held, reloading, presses>>
      /\ owed' = (IF stored'.mode # "off" THEN None ELSE owed)
      /\ lost' = Stale /\ stored \in Rows /\ live \in Rows
  BY DEF Sweep, Land, PauseInv, PauseTypeOK
<1>2. stored' \in Rows /\ stored'.until = None /\ stored'.resume = None
  BY <1>1, TickedFacts
<1>3. PauseTypeOK'
  BY <1>1, <1>2 DEF PauseInv, PauseTypeOK, Stale
<1>4. Copied'
  BY <1>1 DEF PauseInv, Copied
<1>5. ASSUME ~lost' PROVE OnRecord'
  BY <1>1, <1>2 DEF OnRecord
<1> QED
  BY <1>3, <1>4, <1>5 DEF PauseInv

\* The two writers that begin by making a copy.
LEMMA HoldInv ==
  ASSUME PauseInv, NEW h \in Holders, NEW m \in Modes \cup {"off", None}, NEW row \in Rows,
         row = (IF m = None THEN stored ELSE ModeWritten(stored, m)), Hold(h, row, m)
  PROVE  PauseInv'
<1> DEFINE copy == [read |-> stored, row |-> row, asked |-> m]
<1>1. /\ held' = [held EXCEPT ![h] = copy]
      /\ UNCHANGED <<stored, live, reloading, presses, owed, lost>> /\ stored \in Rows
  BY DEF Hold, PauseInv, PauseTypeOK
<1>2. copy \in Holds /\ copy.read = stored /\ copy.row = row /\ copy.asked = m
  BY <1>1 DEF Holds
<1> HIDE DEF copy
<1>3. PauseTypeOK'
  BY <1>1, <1>2 DEF PauseInv, PauseTypeOK, Holds
<1>4. Copied'
  BY <1>1, <1>2 DEF PauseInv, PauseTypeOK, Copied
<1>5. ~lost' => OnRecord'
  BY <1>1 DEF PauseInv, OnRecord
<1> QED
  BY <1>3, <1>4, <1>5 DEF PauseInv

LEMMA OpenDialogInv == PauseInv /\ OpenDialog => PauseInv'
BY HoldInv DEF OpenDialog, PauseInv, PauseTypeOK

LEMMA CallServiceInv ==
  ASSUME PauseInv, NEW m \in Modes \cup {"off"}, CallService(m)
  PROVE  PauseInv'
<1>1. ModeWritten(stored, m) \in Rows
  BY ModeWrittenFacts DEF PauseInv, PauseTypeOK
<1> QED
  BY <1>1, HoldInv, PauseAssumption DEF CallService

LEMMA FinishInv ==
  ASSUME PauseInv, NEW h \in Holders, Finish(h)
  PROVE  PauseInv'
<1>1. /\ held[h] # None /\ stored' = held[h].row /\ reloading' = TRUE
      /\ held' = [held EXCEPT ![h] = None] /\ owed' = Spoken(held[h].asked)
      /\ lost' = (lost \/ held[h].read # stored) /\ UNCHANGED <<live, presses>>
  BY DEF Finish
<1>2. held[h].read \in Rows /\ held[h].row \in Rows /\ held[h].asked \in Modes \cup {"off", None}
  BY <1>1, HeldFacts DEF Holds, PauseInv
<1>3. held[h].row = IF held[h].asked = None THEN held[h].read ELSE ModeWritten(held[h].read, held[h].asked)
  BY <1>1 DEF PauseInv, Copied
<1>4. PauseTypeOK'
  BY <1>1, <1>2 DEF PauseInv, PauseTypeOK, Spoken
<1>5. Copied'
  BY <1>1 DEF PauseInv, PauseTypeOK, Copied
<1>6. ASSUME ~lost' PROVE OnRecord'
  <2>1. held[h].read = stored /\ OnRecord
    BY <1>1, <1>6 DEF PauseInv
  <2>2. CASE held[h].asked = None
    BY <1>1, <1>3, <2>1, <2>2, PauseAssumption DEF Spoken, OnRecord
  <2>3. CASE held[h].asked # None
    <3>1. stored' = ModeWritten(stored, held[h].asked) /\ held[h].asked \in Modes \cup {"off"}
      BY <1>1, <1>2, <1>3, <2>1, <2>3
    <3> QED
      BY <1>1, <1>2, <2>1, <3>1, ModeWrittenFacts, PauseAssumption DEF Spoken, OnRecord
  <2> QED
    BY <2>2, <2>3
<1> QED
  BY <1>4, <1>5, <1>6 DEF PauseInv

LEMMA ReloadRestartInv == PauseInv /\ (ReloadEntry \/ Restart) => PauseInv'
<1> SUFFICES ASSUME PauseInv, ReloadEntry \/ Restart PROVE PauseInv'
  OBVIOUS
<1>1. /\ live' = stored /\ reloading' = FALSE /\ UNCHANGED <<stored, presses, owed, lost>>
      /\ held' = held \/ held' = [h \in Holders |-> None]
  BY DEF ReloadEntry, Restart
<1> QED
  BY <1>1 DEF PauseInv, PauseTypeOK, Copied, OnRecord

\* The time left goes by in every copy of it, and in what the user is owed.
LEMMA ElapseInv == PauseInv /\ Elapse => PauseInv'
<1> SUFFICES ASSUME PauseInv, Elapse PROVE PauseInv'
  OBVIOUS
<1> DEFINE Older(h) == [held[h] EXCEPT !.read = Aged(@), !.row = Aged(@)]
<1>1. /\ stored' = Aged(stored) /\ live' = Aged(live)
      /\ held' = [h \in Holders |-> IF held[h] = None THEN None ELSE Older(h)]
      /\ owed' = IF owed = None THEN None ELSE [owed EXCEPT !.left = Later(@)]
      /\ UNCHANGED <<reloading, presses, lost>>
  BY DEF Elapse
<1>2. stored \in Rows /\ live \in Rows
  BY DEF PauseInv, PauseTypeOK
<1>3. ASSUME NEW h \in Holders, held[h] # None
      PROVE  /\ Older(h) \in Holds /\ Older(h).asked = held[h].asked
             /\ Older(h).read = Aged(held[h].read) /\ Older(h).row = Aged(held[h].row)
             /\ held[h].read \in Rows /\ held[h].asked \in Modes \cup {"off", None}
  <2>1. held[h] \in Holds
    BY <1>3, HeldFacts DEF PauseInv
  <2>2. held[h].read \in Rows /\ held[h].row \in Rows
    BY <2>1 DEF Holds
  <2>3. Aged(held[h].read) \in Rows /\ Aged(held[h].row) \in Rows
    BY <2>2, RowFacts
  <2> QED
    BY <2>1, <2>2, <2>3 DEF Holds
<1> HIDE DEF Older
<1>4. owed # None => /\ owed' \in [back : Modes, left : Left] /\ owed' # None
                     /\ owed'.back = owed.back /\ owed'.left = Later(owed.left)
  <2> SUFFICES ASSUME owed # None
               PROVE  /\ owed' \in [back : Modes, left : Left] /\ owed' # None
                      /\ owed'.back = owed.back /\ owed'.left = Later(owed.left)
    OBVIOUS
  <2>1. owed \in [back : Modes, left : Left] /\ Later(owed.left) \in Left
    BY LeftFacts DEF PauseInv, PauseTypeOK
  <2>2. owed' = [back |-> owed.back, left |-> Later(owed.left)]
    BY <1>1, <2>1
  <2> QED
    BY <2>1, <2>2, OwedFacts
<1>5. PauseTypeOK'
  <2>1. held' \in [Holders -> Holds \cup {None}]
    BY <1>1, <1>3
  <2>2. owed' \in [back : Modes, left : Left] \cup {None}
    BY <1>1, <1>4
  <2> QED
    BY <1>1, <1>2, <2>1, <2>2, RowFacts DEF PauseInv, PauseTypeOK, Holds
<1>6. Copied'
  <2> SUFFICES ASSUME NEW h \in Holders, held'[h] # None
               PROVE  held'[h].row = IF held'[h].asked = None THEN held'[h].read
                                     ELSE ModeWritten(held'[h].read, held'[h].asked)
    BY DEF Copied
  <2>1. held[h] # None /\ held'[h] = Older(h)
    BY <1>1
  <2>2. held[h].row = IF held[h].asked = None THEN held[h].read
                      ELSE ModeWritten(held[h].read, held[h].asked)
    BY <2>1 DEF PauseInv, Copied
  <2> QED
    BY <1>3, <2>1, <2>2, AgedModeWritten
<1>7. ASSUME ~lost' PROVE OnRecord'
  <2>1. OnRecord
    BY <1>1, <1>7 DEF PauseInv
  <2>2. stored'.mode = stored.mode /\ stored'.resume = stored.resume /\ stored'.until = Later(stored.until)
    BY <1>1, <1>2, RowFacts
  <2>3. owed = None => owed' = None
    BY <1>1
  <2> QED
    BY <1>4, <2>1, <2>2, <2>3 DEF OnRecord
<1> QED
  BY <1>5, <1>6, <1>7 DEF PauseInv

LEMMA PauseStepInv == PauseInv /\ [PauseNext]_pauseVars => PauseInv'
<1>1. PauseInv /\ UNCHANGED pauseVars => PauseInv'
  BY DEF PauseInv, PauseTypeOK, Copied, OnRecord, pauseVars
<1> QED
  BY <1>1, PressInv, ChooseInv, SweepInv, OpenDialogInv, CallServiceInv, FinishInv, ReloadRestartInv, ElapseInv
  DEF PauseNext

LEMMA PauseInvariance == PauseSpec => []PauseInv
BY PauseInitInv, PauseStepInv, PTL DEF PauseSpec

\* The rows, in the options and in every copy, stay within their types.
THEOREM PauseTypeCorrect == PauseSpec => []PauseTypeOK
<1>1. PauseInv => PauseTypeOK
  BY DEF PauseInv
<1> QED
  BY PauseInvariance, <1>1, PTL

\* The sweep pays a pause once, with the mode the pause was taken from, and only one that has run out and
\* that the user has not ended - for any modes, any durations and any number of presses (charge_pause.py, tick).
THEOREM PausesArePaidOnce == PauseSpec => PauseIsPaidOnce
<1> DEFINE Paid == Sweep /\ stored'.mode # stored.mode => MayPay \/ lost'
<1>1. PauseInv /\ [PauseNext]_pauseVars => Paid
  <2> SUFFICES ASSUME PauseInv, Sweep, stored'.mode # stored.mode, ~lost'
               PROVE  MayPay
    OBVIOUS
  <2>1. live = stored /\ OnRecord /\ stored \in Rows /\ Due(live) /\ stored' = Ticked(live, stored)
    BY DEF Sweep, Land, Stale, PauseInv, PauseTypeOK
  <2>2. stored.mode = "off" /\ stored.resume # None /\ stored'.mode = stored.resume
    BY <2>1, TickedFacts
  <2>3. owed # None /\ owed.back = stored.resume /\ owed.left = stored.until
    BY <2>1, <2>2 DEF OnRecord
  <2>4. owed.left \in Left
    BY <2>3 DEF PauseInv, PauseTypeOK
  <2>5. stored.until = 0
    BY <2>1, <2>2, <2>3, <2>4, LeftFacts DEF Due
  <2> QED
    BY <2>2, <2>3, <2>5 DEF MayPay
<1>2. PauseInv /\ [PauseNext]_pauseVars => [Paid]_pauseVars
  BY <1>1
<1> QED
  BY PauseInvariance, <1>2, PTL DEF PauseSpec, PauseIsPaidOnce
=============================================================================
