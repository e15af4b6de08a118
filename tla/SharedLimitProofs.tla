-------------------------- MODULE SharedLimitProofs --------------------------
(***************************************************************************)
(* SharedLimit for any number of packs, any maximum, dwell and number of    *)
(* stop retries, any set of faults and with unloads in between: its types,  *)
(* that the packs' records agree between two cycles, that no limit write    *)
(* follows a stop, that a 0 W hold lands within a dwell per pack, and that  *)
(* a sale is not held under SEM's own limit.                                *)
(***************************************************************************)
EXTENDS SharedLimit, TLAPS, WellFoundedInduction

-----------------------------------------------------------------------------
(* The writer is the least pack in the order of the wishes; a set of         *)
(* naturals has a least member because the order of Nat is well founded.     *)


LessNat == {ss \in Nat \X Nat : ss[1] < ss[2]}

\* A set of naturals that is not empty has a least member
LEMMA LeastNat ==
  ASSUME NEW T, T \subseteq Nat, T # {}
  PROVE  \E x \in T : \A y \in T : x <= y
<1>0. IsWellFoundedOn(LessNat, Nat)
  BY NatLessThanWellFounded DEF OpToRel, LessNat
<1>1. PICK x \in T : \A y \in T : ~(<<y, x>> \in LessNat)
  BY <1>0, WFMin
<1>2. ASSUME NEW y \in T PROVE x <= y
  <2>1. ~(<<y, x>> \in LessNat)
    BY <1>1
  <2>2. ~(y < x)
    BY <2>1 DEF LessNat
  <2> QED BY <2>2
<1> QED BY <1>2

\* The fields of a wish
LEMMA WishFields ==
  ASSUME NEW o \in Wishes
  PROVE  /\ o.w \in Watts \cup {None}
         /\ Rank(o.as) \in 0 .. 3
         /\ o.as = "sale" => o.do = "sale"
         /\ o.do = "limit" => o.w \in Watts
         /\ o.as \notin Ranked => o.do \in {"silent", "charge"}
<1>. USE DEF Watts, None
<1>1. CASE o \in Orders
  BY <1>1, WattAssumption DEF Orders, Limit, Plain, Rank, Ranked
<1>2. CASE o = Silent
  BY <1>2, WattAssumption DEF Silent, Plain, Rank, Ranked
<1>3. CASE o \in {Held(i, w) : i \in Clamp, w \in Watts \cup {None}}
  BY <1>3 DEF Held, Clamp, Rank, Ranked
<1> QED BY <1>1, <1>2, <1>3 DEF Wishes

\* Best returns the pack every other writing one comes after
LEMMA BestIsAhead ==
  ASSUME NEW wish \in [Packs -> Wishes], NEW S \in SUBSET Packs
  PROVE  \/ Writing(wish, S) = {} /\ Best(wish, S) = NoPack
         \/ /\ Best(wish, S) \in Writing(wish, S)
            /\ \A c \in Writing(wish, S) : Ahead(wish, Best(wish, S), c)
<1>. DEFINE C == Writing(wish, S)
            rank(b) == Rank(wish[b].as)
            level(b) == wish[b].w + 1
<1>1. CASE C = {}
  BY <1>1 DEF Best
<1>2. CASE C # {}
  <2>1. \A b \in Packs : rank(b) \in Nat /\ level(b) \in Nat /\ b \in Nat
    BY WishFields, NAssumption DEF Watts, None, Packs
  <2>2. C \subseteq Packs
    BY DEF Writing
  <2>. HIDE DEF C, rank, level
  <2>3. PICK r \in {rank(b) : b \in C} : \A s \in {rank(b) : b \in C} : r <= s
    <3>1. {rank(b) : b \in C} \subseteq Nat /\ {rank(b) : b \in C} # {}
      BY <1>2, <2>1, <2>2
    <3> QED BY <3>1, LeastNat
  <2>. DEFINE C1 == {b \in C : rank(b) = r}
  <2>4. PICK l \in {level(b) : b \in C1} : \A s \in {level(b) : b \in C1} : l <= s
    <3>1. {level(b) : b \in C1} \subseteq Nat /\ {level(b) : b \in C1} # {}
      BY <2>1, <2>2, <2>3
    <3> QED BY <3>1, LeastNat
  <2>. DEFINE C2 == {b \in C1 : level(b) = l}
  <2>5. PICK b \in C2 : \A c \in C2 : b <= c
    <3>1. C2 \subseteq Nat /\ C2 # {}
      BY <2>1, <2>2, <2>4
    <3> QED BY <3>1, LeastNat
  <2>6. ASSUME NEW c \in C PROVE Ahead(wish, b, c)
    <3>0. rank(b) \in Nat /\ rank(c) \in Nat /\ level(b) \in Nat /\ level(c) \in Nat
      BY <2>1, <2>2, <2>5
    <3>1. rank(b) = r /\ r <= rank(c)
      BY <2>3, <2>5
    <3>2. rank(c) = r => level(b) = l /\ l <= level(c)
      BY <2>4, <2>5
    <3>3. rank(c) = r /\ level(c) = l => b <= c
      BY <2>5
    <3>4. \/ rank(b) < rank(c)
          \/ rank(b) = rank(c) /\ (level(b) < level(c) \/ (level(b) = level(c) /\ b <= c))
      BY <3>0, <3>1, <3>2, <3>3
    <3>5. wish[b].w \in Int /\ wish[c].w \in Int
      BY <2>2, <2>5, WishFields, WattAssumption DEF Watts, None
    <3> QED BY <3>4, <3>5 DEF Ahead, rank, level
  <2>7. \E x \in C : \A c \in C : Ahead(wish, x, c)
    BY <2>5, <2>6
  <2>8. Best(wish, S) = CHOOSE x \in C : \A c \in C : Ahead(wish, x, c)
    BY <1>2 DEF Best, C
  <2>9. Best(wish, S) \in C /\ \A c \in C : Ahead(wish, Best(wish, S), c)
    BY <2>7, <2>8
  <2> QED BY <2>9 DEF C
<1> QED BY <1>1, <1>2

\* ... so that taking packs away changes it only by taking that pack away
LEMMA BestOfFewer ==
  ASSUME NEW wish \in [Packs -> Wishes], NEW S \in SUBSET Packs,
         Best(wish, Packs) \in S
  PROVE  Best(wish, S) = Best(wish, Packs)
<1>. DEFINE p == Best(wish, Packs)
            q == Best(wish, S)
<1>1. p \in Packs
  OBVIOUS
<1>2. p \in Writing(wish, Packs) /\ \A c \in Writing(wish, Packs) : Ahead(wish, p, c)
  <2>1. NoPack \notin Packs
    BY NAssumption DEF Packs, NoPack
  <2>2. Packs \in SUBSET Packs
    OBVIOUS
  <2> QED BY <1>1, <2>1, <2>2, BestIsAhead
<1>3. p \in Writing(wish, S)
  BY <1>2 DEF Writing
<1>4. q \in Writing(wish, S) /\ \A c \in Writing(wish, S) : Ahead(wish, q, c)
  BY <1>3, BestIsAhead
<1>5. Ahead(wish, q, p) /\ Ahead(wish, p, q) /\ q \in Packs
  BY <1>2, <1>3, <1>4 DEF Writing
<1>6. /\ wish[p].w \in Int /\ wish[q].w \in Int
      /\ Rank(wish[p].as) \in Int /\ Rank(wish[q].as) \in Int
      /\ p \in Int /\ q \in Int
  BY <1>1, <1>5, WishFields, WattAssumption, NAssumption DEF Watts, None, Packs
<1>. HIDE DEF p, q
<1>7. q = p
  BY <1>5, <1>6 DEF Ahead
<1> QED BY <1>7 DEF p, q

-----------------------------------------------------------------------------
(* What every command of the adapter comes to: the state it may touch keeps  *)
(* its type, the limit is left alone or written together with the pack's own *)
(* record, and a stop is only noted while somebody writes the limit.         *)

LimitTyped ==
  /\ limit \in Watts
  /\ record \in [Packs -> Watts \cup {None}]
  /\ withheld \in [Packs -> Watts \cup {None}]
  /\ failed \in BOOLEAN

CountTyped ==
  /\ retries \in [Packs -> 0 .. Retries]
  /\ saleSent \subseteq Packs

FlagTyped ==
  /\ selling \in [Packs -> BOOLEAN]
  /\ liftTried \in [Packs -> BOOLEAN]
  /\ checked \in [Packs -> BOOLEAN]
  /\ orphanStopped \in BOOLEAN
  /\ stopped \in BOOLEAN

IntentTyped == intent \in [Packs -> Intents]

Kept == limit' = limit /\ record' = record

Wrote(b) ==
  /\ ~Marked(b)
  /\ \E w \in Watts : limit' = w /\ record' = [record EXCEPT ![b] = w]

StopNoted(b) == stopped' => stopped \/ (writer # NoPack /\ b \in todo)

Effect(b) ==
  /\ LimitTyped'
  /\ CountTyped'
  /\ FlagTyped'
  /\ IntentTyped'
  /\ Kept \/ Wrote(b)
  /\ StopNoted(b)

\* A flag of one pack set or cleared
LEMMA FlagSet ==
  ASSUME NEW f \in [Packs -> BOOLEAN], NEW b \in Packs, NEW v \in BOOLEAN
  PROVE  [f EXCEPT ![b] = v] \in [Packs -> BOOLEAN]
OBVIOUS

\* _maybe_clear_startup_orphan only ever marks the pack as checked
LEMMA CheckedTyped ==
  ASSUME TypeOK, NEW b \in Packs,
         checked' \in {checked, [checked EXCEPT ![b] = TRUE]}
  PROVE  checked' \in [Packs -> BOOLEAN]
<1>1. checked \in [Packs -> BOOLEAN]
  BY Zenon DEF TypeOK
<1>2. [checked EXCEPT ![b] = TRUE] \in [Packs -> BOOLEAN]
  BY <1>1, FlagSet, Zenon
<1> QED BY <1>1, <1>2, Zenon

\* _apply_discharge_limit writes the limit and the record together
LEMMA ApplyLimitEffect ==
  ASSUME TypeOK, NEW b \in Packs, NEW w \in Watts, ApplyLimit(b, w)
  PROVE  LimitTyped' /\ (Kept \/ Wrote(b))
<1>1. failed' \in BOOLEAN
  BY ZenonT(30) DEF TypeOK, ApplyLimit
<1>2. /\ limit' \in Watts
      /\ record' \in [Packs -> Watts \cup {None}]
      /\ withheld' \in [Packs -> Watts \cup {None}]
  <2>. USE DEF TypeOK
  <2>1. CASE UNCHANGED <<limit, record>> /\ withheld' = [withheld EXCEPT ![b] = w]
    BY <2>1
  <2>2. CASE UNCHANGED withheld /\ limit' = w /\ record' = [record EXCEPT ![b] = w]
    BY <2>2
  <2>3. CASE UNCHANGED <<limit, record, withheld>>
    BY <2>3
  <2> QED BY <2>1, <2>2, <2>3 DEF ApplyLimit
<1>3. Kept \/ Wrote(b)
  BY DEF ApplyLimit, Kept, Wrote
<1> QED BY <1>1, <1>2, <1>3 DEF LimitTyped

\* A command that leaves the limit alone
LEMMA NoLimitWriteEffect ==
  ASSUME TypeOK, NoLimitWrite
  PROVE  LimitTyped' /\ Kept
<1>1. failed' \in BOOLEAN
  BY Zenon DEF TypeOK, NoLimitWrite
<1>2. /\ limit' \in Watts
      /\ record' \in [Packs -> Watts \cup {None}]
      /\ withheld' \in [Packs -> Watts \cup {None}]
  BY DEF TypeOK, NoLimitWrite
<1> QED BY <1>1, <1>2 DEF LimitTyped, NoLimitWrite, Kept

\* The stop of the startup orphan touches no limit
LEMMA ClearsOrphanEffect ==
  ASSUME TypeOK, NEW b \in Packs, ClearsOrphan(b)
  PROVE  LimitTyped' /\ CountTyped' /\ FlagTyped' /\ Kept /\ StopNoted(b)
<1>1. LimitTyped' /\ Kept
  BY NoLimitWriteEffect DEF ClearsOrphan
<1>2. CountTyped'
  BY CountAssumption DEF TypeOK, ClearsOrphan, CountTyped
<1>3. selling' \in [Packs -> BOOLEAN] /\ liftTried' \in [Packs -> BOOLEAN]
  BY Zenon DEF TypeOK, ClearsOrphan
<1>4. checked' \in [Packs -> BOOLEAN]
  BY CheckedTyped, Zenon DEF TypeOK, ClearsOrphan
<1>5. orphanStopped' \in BOOLEAN /\ stopped' \in BOOLEAN
  BY Zenon DEF TypeOK, ClearsOrphan, NoteStop
<1>6. StopNoted(b)
  BY DEF ClearsOrphan, NoteStop, StopNoted
<1> QED BY <1>1, <1>2, <1>3, <1>4, <1>5, <1>6 DEF FlagTyped

\* Nor does the stop of a sale
LEMMA StopsSaleEffect ==
  ASSUME TypeOK, NEW b \in Packs, StopsSale(b)
  PROVE  LimitTyped' /\ CountTyped' /\ FlagTyped' /\ Kept /\ StopNoted(b)
<1>1. LimitTyped' /\ Kept
  BY NoLimitWriteEffect DEF StopsSale
<1>2. CountTyped'
  BY CountAssumption DEF TypeOK, StopsSale, CountTyped
<1>3. liftTried' \in [Packs -> BOOLEAN]
  BY Zenon DEF TypeOK, StopsSale
<1>4. selling' \in [Packs -> BOOLEAN] /\ checked' \in [Packs -> BOOLEAN]
  <2>1. checked' \in [Packs -> BOOLEAN]
    BY CheckedTyped, Zenon DEF StopsSale, NoOrphan
  <2>2. selling' \in [Packs -> BOOLEAN]
    BY FlagSet, Zenon DEF TypeOK, StopsSale
  <2> QED BY <2>1, <2>2
<1>5. orphanStopped' \in BOOLEAN /\ stopped' \in BOOLEAN
  BY Zenon DEF TypeOK, StopsSale, NoOrphan, NoteStop
<1>6. StopNoted(b)
  BY DEF StopsSale, NoteStop, StopNoted
<1> QED BY <1>1, <1>2, <1>3, <1>4, <1>5, <1>6 DEF FlagTyped

\* A sale that stays, and a try to stop it that may have gone out
LEMMA SaleStaysEffect ==
  ASSUME TypeOK, NEW b \in Packs, SaleStays(b), UNCHANGED liftTried,
         NoteTry(b) \/ NoteStop(b)
  PROVE  FlagTyped' /\ StopNoted(b)
<1>1. selling' \in [Packs -> BOOLEAN] /\ liftTried' \in [Packs -> BOOLEAN]
  BY Zenon DEF TypeOK, SaleStays
<1>2. checked' \in [Packs -> BOOLEAN]
  BY CheckedTyped, Zenon DEF SaleStays, NoOrphan
<1>3. orphanStopped' \in BOOLEAN /\ stopped' \in BOOLEAN
  BY Zenon DEF TypeOK, SaleStays, NoOrphan, NoteTry, NoteStop
<1>4. StopNoted(b)
  BY DEF NoteTry, NoteStop, StopNoted
<1> QED BY <1>1, <1>2, <1>3, <1>4 DEF FlagTyped

\* command_normal
LEMMA NormalEffect ==
  ASSUME TypeOK, NEW b \in Packs, NEW said \in Intents, Normal(b, said)
  PROVE  Effect(b)
<1>1. IntentTyped'
  BY DEF TypeOK, Normal, Say, IntentTyped
<1>2. CASE ClearsOrphan(b)
  BY <1>1, <1>2, ClearsOrphanEffect DEF Effect
<1>3. CASE StopsSale(b)
  BY <1>1, <1>3, StopsSaleEffect DEF Effect
<1>4. CASE /\ SaleStays(b) /\ retries[b] > 0
           /\ retries' = [retries EXCEPT ![b] = @ - 1]
           /\ NoteStop(b) /\ NoLimitWrite
           /\ UNCHANGED <<liftTried, saleSent>>
  <2>1. LimitTyped' /\ Kept
    BY <1>4, NoLimitWriteEffect
  <2>2. CountTyped'
    BY <1>4, CountAssumption DEF TypeOK, CountTyped
  <2>3. FlagTyped' /\ StopNoted(b)
    BY <1>4, SaleStaysEffect
  <2> QED BY <1>1, <2>1, <2>2, <2>3 DEF Effect
<1>5. CASE /\ SaleStays(b) /\ NoteTry(b)
           /\ ApplyLimit(b, MaxW)
           /\ UNCHANGED <<retries, liftTried, saleSent>>
  <2>1. LimitTyped' /\ (Kept \/ Wrote(b))
    BY <1>5, ApplyLimitEffect, WattAssumption DEF Watts
  <2>2. CountTyped'
    BY <1>5 DEF TypeOK, CountTyped
  <2>3. FlagTyped' /\ StopNoted(b)
    BY <1>5, SaleStaysEffect
  <2> QED BY <1>1, <2>1, <2>2, <2>3 DEF Effect
<1> QED BY <1>2, <1>3, <1>4, <1>5 DEF Normal

\* command_limit_discharge
LEMMA LimitDischargeEffect ==
  ASSUME TypeOK, NEW b \in Packs, NEW w \in Watts, LimitDischarge(b, w)
  PROVE  Effect(b)
<1>1. IntentTyped'
  BY DEF TypeOK, LimitDischarge, Say, IntentTyped, Intents
<1>2. CASE ClearsOrphan(b)
  BY <1>1, <1>2, ClearsOrphanEffect DEF Effect
<1>3. CASE StopsSale(b)
  BY <1>1, <1>3, StopsSaleEffect DEF Effect
<1>4. CASE /\ SaleStays(b) /\ NoteTry(b)
           /\ NoLimitWrite \/ ApplyLimit(b, w)
           /\ UNCHANGED <<retries, liftTried, saleSent>>
  <2>1. LimitTyped' /\ (Kept \/ Wrote(b))
    BY <1>4, ApplyLimitEffect, NoLimitWriteEffect
  <2>2. CountTyped'
    BY <1>4 DEF TypeOK, CountTyped
  <2>3. FlagTyped' /\ StopNoted(b)
    BY <1>4, SaleStaysEffect
  <2> QED BY <1>1, <2>1, <2>2, <2>3 DEF Effect
<1> QED BY <1>2, <1>3, <1>4 DEF LimitDischarge

\* command_force_discharge writes the limit only to raise it
LEMMA ForceDischargeEffect ==
  ASSUME TypeOK, NEW b \in Packs, ForceDischarge(b)
  PROVE  Effect(b) /\ (Kept \/ (Wrote(b) /\ record[b] < record'[b]))
<1>1. /\ checked' \in [Packs -> BOOLEAN]
      /\ CountTyped'
      /\ orphanStopped' \in BOOLEAN
      /\ stopped' \in BOOLEAN
      /\ StopNoted(b)
  <2>1. checked' \in [Packs -> BOOLEAN]
    BY CheckedTyped, Zenon DEF ForceDischarge
  <2>2. orphanStopped' \in BOOLEAN /\ stopped' \in BOOLEAN
    BY Zenon DEF TypeOK, ForceDischarge
  <2>3. CountTyped'
    <3>1. saleSent' \subseteq Packs
      BY DEF TypeOK, ForceDischarge, HandBack, SendSale
    <3>2. retries' \in [Packs -> 0 .. Retries]
      BY DEF TypeOK, ForceDischarge
    <3> QED BY <3>1, <3>2 DEF CountTyped
  <2>4. StopNoted(b)
    BY DEF ForceDischarge, StopNoted
  <2> QED BY <2>1, <2>2, <2>3, <2>4
<1>2. CASE HandBack(b)
  <2>1. LimitTyped' /\ (Kept \/ Wrote(b))
    BY <1>2, ApplyLimitEffect, WattAssumption DEF HandBack, Watts
  <2>2. liftTried' \in [Packs -> BOOLEAN]
    BY <1>2, FlagSet, Zenon DEF TypeOK, HandBack
  <2>3. selling' \in [Packs -> BOOLEAN]
    BY <1>2, Zenon DEF TypeOK, HandBack
  <2>4. IntentTyped'
    BY <1>2 DEF TypeOK, HandBack, IntentTyped, Intents
  <2>5. record[b] < MaxW
    BY <1>2 DEF HandBack, OwnLimitHeld
  <2>6. Kept \/ record' = [record EXCEPT ![b] = MaxW]
    BY <1>2 DEF HandBack, ApplyLimit, Kept
  <2>7. Kept \/ (Wrote(b) /\ record[b] < record'[b])
    BY <2>1, <2>5, <2>6 DEF TypeOK
  <2> QED BY <1>1, <2>1, <2>2, <2>3, <2>4, <2>7 DEF Effect, FlagTyped
<1>3. CASE SendSale(b)
  <2>1. LimitTyped' /\ Kept
    BY <1>3, NoLimitWriteEffect DEF SendSale
  <2>2. liftTried' \in [Packs -> BOOLEAN]
    BY <1>3, FlagSet, Zenon DEF TypeOK, SendSale
  <2>3. selling' \in [Packs -> BOOLEAN]
    BY <1>3, FlagSet, Zenon DEF TypeOK, SendSale
  <2>4. IntentTyped'
    BY <1>3 DEF TypeOK, SendSale, Say, IntentTyped, Intents
  <2> QED BY <1>1, <2>1, <2>2, <2>3, <2>4 DEF Effect, FlagTyped
<1> QED BY <1>2, <1>3 DEF ForceDischarge

\* The two stops and the forced charge write no limit at all
LEMMA StopEffect ==
  ASSUME TypeOK, NEW b \in Packs, StopForceDischarge(b) \/ ForcedCharge(b)
  PROVE  Effect(b) /\ Kept
<1>1. IntentTyped'
  BY DEF TypeOK, StopForceDischarge, ForcedCharge, Say, IntentTyped, Intents
<1>2. CASE ClearsOrphan(b)
  BY <1>1, <1>2, ClearsOrphanEffect DEF Effect
<1>3. CASE StopsSale(b)
  BY <1>1, <1>3, StopsSaleEffect DEF Effect
<1>4. CASE /\ SaleStays(b) /\ NoteTry(b) /\ NoLimitWrite
           /\ UNCHANGED <<retries, liftTried, saleSent>>
  <2>1. LimitTyped' /\ Kept
    BY <1>4, NoLimitWriteEffect
  <2>2. CountTyped'
    BY <1>4 DEF TypeOK, CountTyped
  <2>3. FlagTyped' /\ StopNoted(b)
    BY <1>4, SaleStaysEffect
  <2> QED BY <1>1, <2>1, <2>2, <2>3 DEF Effect
<1> QED BY <1>2, <1>3, <1>4 DEF StopForceDischarge, ForcedCharge

-----------------------------------------------------------------------------
(* A turn of the pipeline: the pack's command, and its place in the cycle.   *)

Send(b) ==
  \/ SendNormal(b)
  \/ SendClamp(b)
  \/ SendDischarge(b)
  \/ SendEndSale(b)
  \/ SendCharge(b)
  \/ SendOff(b)
  \/ SendNothing(b)

\* The level the actuator sends is one of the entity's, its dwell stays short
LEMMA ClampTyped ==
  ASSUME TypeOK, NEW b \in Packs, NEW w \in Watts
  PROVE  /\ SentLimits(b, w) \subseteq Watts
         /\ StreakOf(b, w) \in 0 .. Dwell - 1
<1>. /\ record[b] \in Watts \cup {None} /\ streak[b] \in 0 .. Dwell - 1
     /\ w \in 0 .. MaxW /\ MaxW \in Nat /\ Dwell \in Nat \ {0}
  BY WattAssumption, CountAssumption DEF TypeOK, Watts
<1>1. SentLimits(b, w) \subseteq Watts
  BY DEF SentLimits, InForce, Lowered, Watts, None
<1>2. StreakOf(b, w) \in 0 .. Dwell - 1
  BY DEF StreakOf, Min2
<1> QED BY <1>1, <1>2

\* What the command of a turn does to the limit
LEMMA SendEffect ==
  ASSUME TypeOK, NEW b \in Packs, Send(b)
  PROVE  /\ Sending(b)
         /\ Effect(b)
         /\ streak' \in [Packs -> 0 .. Dwell - 1]
         /\ Kept \/ want[b].do \notin {"silent", "charge"}
         /\ want[b].do = "sale" => Kept \/ record[b] < record'[b]
<1>1. CASE SendNormal(b)
  BY <1>1, NormalEffect DEF SendNormal, Order, Intents, TypeOK
<1>2. CASE SendClamp(b)
  <2>1. want[b].w \in Watts /\ want[b].do = "limit"
    BY <1>2, WishFields DEF SendClamp, TypeOK
  <2>2. streak' \in [Packs -> 0 .. Dwell - 1]
    BY <1>2, <2>1, ClampTyped DEF SendClamp, TypeOK
  <2>3. PICK w \in SentLimits(b, want[b].w) : LimitDischarge(b, w)
    BY <1>2 DEF SendClamp
  <2>4. Effect(b)
    BY <2>1, <2>3, ClampTyped, LimitDischargeEffect
  <2> QED BY <1>2, <2>1, <2>2, <2>4 DEF SendClamp
<1>3. CASE SendDischarge(b)
  BY <1>3, ForceDischargeEffect DEF SendDischarge, Order, TypeOK
<1>4. CASE SendEndSale(b)
  BY <1>4, StopEffect DEF SendEndSale, Order, TypeOK
<1>5. CASE SendCharge(b)
  BY <1>5, StopEffect DEF SendCharge, Order, TypeOK
<1>6. CASE SendOff(b)
  BY <1>6, NormalEffect DEF SendOff, Off, Order, Intents, TypeOK
<1>7. CASE SendNothing(b)
  <2>1. LimitTyped' /\ CountTyped' /\ IntentTyped' /\ Kept
    <3>1. failed' \in BOOLEAN
      BY <1>7, Zenon DEF SendNothing, TypeOK
    <3>2. CountTyped' /\ IntentTyped' /\ Kept
      BY <1>7 DEF SendNothing, TypeOK, CountTyped, IntentTyped, Kept, pack
    <3>3. /\ limit' \in Watts
          /\ record' \in [Packs -> Watts \cup {None}]
          /\ withheld' \in [Packs -> Watts \cup {None}]
      BY <1>7 DEF SendNothing, TypeOK, pack
    <3> QED BY <3>1, <3>2, <3>3 DEF LimitTyped
  <2>2. FlagTyped'
    BY <1>7, Zenon DEF SendNothing, TypeOK, FlagTyped, pack
  <2>3. StopNoted(b)
    BY <1>7 DEF SendNothing, StopNoted
  <2>4. streak' \in [Packs -> 0 .. Dwell - 1]
    BY <1>7 DEF SendNothing, TypeOK, pack
  <2> QED BY <1>7, <2>1, <2>2, <2>3, <2>4 DEF SendNothing, Effect
<1> QED BY <1>1, <1>2, <1>3, <1>4, <1>5, <1>6, <1>7 DEF Send

-----------------------------------------------------------------------------
(* Types *)

\* What is left of TypeOK beside the parts the commands touch
RestTyped ==
  /\ streak \in [Packs -> 0 .. Dwell - 1]
  /\ todo \subseteq Packs
  /\ want \in [Packs -> Wishes]
  /\ writer \in Packs \cup {NoPack}
  /\ before \in [Packs -> Watts \cup {None}]
  /\ settling \in BOOLEAN
  /\ observer \in BOOLEAN
  /\ release \subseteq Packs
  /\ waiting \in [Packs -> 0 .. N * Dwell]
  /\ capped \in [Packs -> 0 .. 2]

LEMMA TypeParts ==
  TypeOK <=> /\ LimitTyped /\ CountTyped /\ FlagTyped /\ IntentTyped
             /\ RestTyped
BY Zenon DEF TypeOK, LimitTyped, CountTyped, FlagTyped, IntentTyped, RestTyped

LEMMA TypePartsNext ==
  TypeOK' <=> /\ LimitTyped' /\ CountTyped' /\ FlagTyped' /\ IntentTyped'
              /\ RestTyped'
BY Zenon DEF TypeOK, LimitTyped, CountTyped, FlagTyped, IntentTyped, RestTyped

LEMMA InitTyped == Init => TypeOK
<1>. SUFFICES ASSUME Init PROVE TypeOK
  OBVIOUS
<1>1. LimitTyped
  <2>1. limit \in Watts
    BY WattAssumption DEF Init, Restored, Watts
  <2>2. /\ record \in [Packs -> Watts \cup {None}]
        /\ withheld \in [Packs -> Watts \cup {None}]
    BY DEF Init, Fresh, Quiet
  <2>3. failed \in BOOLEAN
    BY DEF Init, Quiet
  <2> QED BY <2>1, <2>2, <2>3 DEF LimitTyped
<1>2. CountTyped /\ IntentTyped
  BY CountAssumption DEF Init, Fresh, Quiet, CountTyped, IntentTyped, Intents
<1>3. FlagTyped
  BY DEF Init, Fresh, Quiet, FlagTyped
<1>4. RestTyped
  <2>1. settling \in BOOLEAN /\ observer \in BOOLEAN
    BY DEF Init, Quiet
  <2>2. /\ todo \subseteq Packs
        /\ want \in [Packs -> Wishes]
        /\ writer \in Packs \cup {NoPack}
        /\ before \in [Packs -> Watts \cup {None}]
        /\ release \subseteq Packs
    BY DEF Init, Quiet, Wishes
  <2>3. /\ streak \in [Packs -> 0 .. Dwell - 1]
        /\ waiting \in [Packs -> 0 .. N * Dwell]
        /\ capped \in [Packs -> 0 .. 2]
    <3>1. N * Dwell \in Nat /\ Dwell - 1 \in Nat
      BY NAssumption, CountAssumption
    <3> QED BY <3>1 DEF Init, Fresh
  <2> QED BY <2>1, <2>2, <2>3 DEF RestTyped
<1> QED BY <1>1, <1>2, <1>3, <1>4, TypeParts

LEMMA BeginTyped ==
  ASSUME TypeOK, Begin
  PROVE  TypeOK'
<1>1. LimitTyped' /\ CountTyped' /\ FlagTyped' /\ IntentTyped'
  BY TypeParts, Zenon DEF Begin, pack, LimitTyped, CountTyped, FlagTyped, IntentTyped
<1>2. want' \in [Packs -> Wishes]
  <2>1. PICK orders \in [Packs -> Orders], blind \in BOOLEAN :
          want' = [b \in Packs |-> Resolve(orders[b], b, blind)]
    BY DEF Begin
  <2>2. ASSUME NEW b \in Packs PROVE Resolve(orders[b], b, blind) \in Wishes
    <3>1. orders[b] \in Orders /\ record[b] \in Watts \cup {None}
      BY DEF TypeOK
    <3>2. 0 \in Watts
      BY WattAssumption DEF Watts
    <3>3. \A i \in Clamp, w \in Watts \cup {None} : Held(i, w) \in Wishes
      BY DEF Wishes
    <3>4. Silent \in Wishes /\ orders[b] \in Wishes
      BY <3>1 DEF Wishes
    <3>5. \/ Resolve(orders[b], b, blind) \in {Silent, orders[b]}
          \/ /\ intent[b] \in Clamp
             /\ \E w \in {record[b], 0} : Resolve(orders[b], b, blind) = Held(intent[b], w)
      BY DEF Resolve
    <3>6. record[b] \in Watts \cup {None} /\ 0 \in Watts \cup {None}
      BY <3>1, <3>2
    <3>. HIDE DEF Wishes, None
    <3> QED BY <3>3, <3>4, <3>5, <3>6
  <2> QED BY <2>1, <2>2
<1>3. writer' \in Packs \cup {NoPack}
  <2>1. writer' = Best(want', Packs)
    BY DEF Begin
  <2>2. Packs \in SUBSET Packs
    OBVIOUS
  <2> QED BY <1>2, <2>1, <2>2, BestIsAhead DEF Writing
<1>4. settling' \in BOOLEAN /\ observer' \in BOOLEAN
  BY Zenon DEF TypeOK, Begin
<1>5. /\ streak' \in [Packs -> 0 .. Dwell - 1]
      /\ todo' \subseteq Packs
      /\ before' \in [Packs -> Watts \cup {None}]
      /\ release' \subseteq Packs
      /\ waiting' \in [Packs -> 0 .. N * Dwell]
      /\ capped' \in [Packs -> 0 .. 2]
  BY DEF TypeOK, Begin, pack
<1> QED BY <1>1, <1>2, <1>3, <1>4, <1>5, TypePartsNext DEF RestTyped

LEMMA SendTyped ==
  ASSUME TypeOK, NEW b \in Packs, Send(b)
  PROVE  TypeOK'
<1>1. LimitTyped' /\ CountTyped' /\ FlagTyped' /\ IntentTyped'
  BY SendEffect DEF Effect
<1>2. settling' \in BOOLEAN /\ observer' \in BOOLEAN
  <2>1. settling' = (todo = {b}) /\ observer' = observer
    BY SendEffect DEF Sending
  <2> QED BY <2>1, Zenon DEF TypeOK
<1>3. /\ streak' \in [Packs -> 0 .. Dwell - 1]
      /\ todo' \subseteq Packs
      /\ want' \in [Packs -> Wishes]
      /\ writer' \in Packs \cup {NoPack}
      /\ before' \in [Packs -> Watts \cup {None}]
      /\ release' \subseteq Packs
      /\ waiting' \in [Packs -> 0 .. N * Dwell]
      /\ capped' \in [Packs -> 0 .. 2]
  BY SendEffect DEF TypeOK, Sending
<1> QED BY <1>1, <1>2, <1>3, TypePartsNext DEF RestTyped

\* The pack that leads at the end of the cycle is one of the packs, or none
LEMMA LeadIsPack ==
  ASSUME TypeOK
  PROVE  Lead \in Packs \cup {NoPack}
<1>. DEFINE S == {b \in Packs : WentOut(b)}
<1>1. S \in SUBSET Packs /\ want \in [Packs -> Wishes]
  BY DEF TypeOK
<1>2. Lead = Best(want, S)
  BY DEF Lead
<1>. HIDE DEF S
<1> QED BY <1>1, <1>2, BestIsAhead DEF Writing

\* The pack everyone follows is one of the packs when there is a writer
LEMMA EffectiveIsPack ==
  ASSUME TypeOK, writer # NoPack
  PROVE  Effective \in Packs
<1>1. writer \in Packs
  BY DEF TypeOK
<1>2. Effective \in {Lead, writer} /\ (Lead = NoPack => Effective = writer)
  BY DEF Effective
<1> QED BY <1>1, <1>2, LeadIsPack

\* follow_writer leaves records and intents in range
LEMMA FollowTyped ==
  ASSUME TypeOK, NEW rec, writer # NoPack => rec \in Watts \cup {None},
         Follow(rec)
  PROVE  /\ record' \in [Packs -> Watts \cup {None}]
         /\ IntentTyped'
<1>1. CASE writer = NoPack
  BY <1>1 DEF Follow, TypeOK, IntentTyped
<1>2. CASE writer # NoPack
  <2>1. /\ record' = [b \in Packs |-> rec]
        /\ intent' = [b \in Packs |->
             IF /\ intent[b] = "limit"
                /\ \/ intent[Effective] # "limit"
                   \/ withheld[b] \notin {None, rec}
             THEN "other" ELSE intent[b]]
    BY <1>2 DEF Follow
  <2>2. record' \in [Packs -> Watts \cup {None}]
    BY <1>2, <2>1
  <2>3. \A b \in Packs : intent[b] \in Intents /\ "other" \in Intents
    BY DEF TypeOK, Intents
  <2>4. IntentTyped'
    BY <2>1, <2>3, Zenon DEF IntentTyped
  <2> QED BY <2>2, <2>4
<1> QED BY <1>1, <1>2

\* The end of a cycle, whoever wrote the limit
LEMMA EndCycleTyped ==
  ASSUME TypeOK, EndCycle, limit' \in Watts, IntentTyped',
         record' \in [Packs -> Watts \cup {None}]
  PROVE  TypeOK'
<1>1. LimitTyped'
  <2>1. failed' \in BOOLEAN
    BY DEF EndCycle
  <2>2. withheld' \in [Packs -> Watts \cup {None}]
    BY DEF EndCycle
  <2> QED BY <2>1, <2>2 DEF LimitTyped
<1>2. CountTyped'
  BY DEF TypeOK, EndCycle, CountTyped
<1>3. FlagTyped'
  BY Zenon DEF TypeOK, EndCycle, FlagTyped
<1>4. RestTyped'
  <2>1. settling' \in BOOLEAN /\ observer' \in BOOLEAN
    BY Zenon DEF TypeOK, EndCycle
  <2>2. /\ todo' \subseteq Packs
        /\ writer' \in Packs \cup {NoPack}
        /\ before' \in [Packs -> Watts \cup {None}]
        /\ release' \subseteq Packs
    BY DEF TypeOK, EndCycle
  <2>3. want' \in [Packs -> Wishes]
    <3>1. want' = [b \in Packs |-> Silent] /\ Silent \in Wishes
      BY DEF EndCycle, Wishes
    <3> QED BY <3>1
  <2>4. waiting' \in [Packs -> 0 .. N * Dwell]
    <3>. DEFINE Again(b) == Asked(b) /\ Clean /\ limit > 0 /\ ~observer
                M == N * Dwell
    <3>1. waiting' = [b \in Packs |-> IF Again(b) THEN IF TakenOver(b) THEN 1 ELSE Min2(waiting[b] + 1, M)
                                      ELSE 0]
      BY DEF EndCycle, CountWaiting
    <3>2. M \in Nat \ {0} /\ \A b \in Packs : waiting[b] \in 0 .. M
      BY NAssumption, CountAssumption DEF TypeOK
    <3>. HIDE DEF Again, M
    <3>3. \A b \in Packs : Min2(waiting[b] + 1, M) \in 0 .. M /\ 0 \in 0 .. M /\ 1 \in 0 .. M
      BY <3>2 DEF Min2
    <3>4. waiting' \in [Packs -> 0 .. M]
      BY <3>1, <3>3, Zenon
    <3> QED BY <3>4 DEF M
  <2>5. capped' \in [Packs -> 0 .. 2]
    <3>. DEFINE Again(b) == /\ b = writer /\ b \in saleSent /\ ~failed /\ ~observer
                            /\ record[b] \in 0 .. MaxW - 1
    <3>1. capped' = [b \in Packs |-> IF Again(b) THEN Min2(capped[b] + 1, 2) ELSE 0]
      BY DEF EndCycle, CountCapped
    <3>2. \A b \in Packs : capped[b] \in 0 .. 2
      BY DEF TypeOK
    <3>. HIDE DEF Again
    <3>3. \A b \in Packs : Min2(capped[b] + 1, 2) \in 0 .. 2 /\ 0 \in 0 .. 2
      BY <3>2 DEF Min2
    <3> QED BY <3>1, <3>3, Zenon
  <2>6. streak' \in [Packs -> 0 .. Dwell - 1]
    <3>1. 0 \in 0 .. Dwell - 1
      BY CountAssumption
    <3> QED BY <3>1 DEF TypeOK, EndCycle
  <2> QED BY <2>1, <2>2, <2>3, <2>4, <2>5, <2>6 DEF RestTyped
<1> QED BY <1>1, <1>2, <1>3, <1>4, TypePartsNext

LEMMA SettleTyped ==
  ASSUME TypeOK, Settle
  PROVE  TypeOK'
<1>1. writer # NoPack => record[Effective] \in Watts \cup {None}
  BY EffectiveIsPack DEF TypeOK
<1>2. record' \in [Packs -> Watts \cup {None}] /\ IntentTyped'
  BY <1>1, FollowTyped DEF Settle
<1>3. limit' \in Watts
  BY DEF Settle, TypeOK
<1> QED BY <1>2, <1>3, EndCycleTyped DEF Settle

LEMMA SettleInsteadTyped ==
  ASSUME TypeOK, SettleInstead
  PROVE  TypeOK'
<1>1. Lead \in Packs /\ withheld[Lead] # None
  BY LeadIsPack DEF SettleInstead, Instead
<1>2. withheld[Lead] \in Watts /\ record[Lead] \in Watts \cup {None}
  BY <1>1 DEF TypeOK
<1>3. record' \in [Packs -> Watts \cup {None}] /\ IntentTyped'
  BY <1>2, FollowTyped DEF SettleInstead
<1>4. limit' \in Watts
  BY <1>2 DEF SettleInstead, TypeOK
<1> QED BY <1>3, <1>4, EndCycleTyped DEF SettleInstead

LEMMA UnloadTyped ==
  ASSUME TypeOK, Unload
  PROVE  TypeOK'
<1>1. LimitTyped' /\ CountTyped' /\ FlagTyped' /\ IntentTyped'
  BY TypeParts, Zenon DEF Unload, pack, cycle, LimitTyped, CountTyped, FlagTyped, IntentTyped
<1>2. settling' \in BOOLEAN /\ observer' \in BOOLEAN
  BY Zenon DEF TypeOK, Unload, cycle
<1>3. N * Dwell \in Nat
  BY NAssumption, CountAssumption
<1>4. /\ streak' \in [Packs -> 0 .. Dwell - 1]
      /\ todo' \subseteq Packs
      /\ want' \in [Packs -> Wishes]
      /\ writer' \in Packs \cup {NoPack}
      /\ before' \in [Packs -> Watts \cup {None}]
      /\ release' \subseteq Packs
      /\ capped' \in [Packs -> 0 .. 2]
  BY DEF TypeOK, Unload, cycle, pack
<1>5. waiting' \in [Packs -> 0 .. N * Dwell]
  BY <1>3 DEF Unload
<1> QED BY <1>1, <1>2, <1>4, <1>5, TypePartsNext DEF RestTyped

\* The next pack to hand back is one of them
LEMMA NextIsPack ==
  ASSUME TypeOK, release # {}
  PROVE  Next1(release) \in release /\ release \subseteq Packs
<1>1. release \subseteq Packs /\ release \subseteq Nat
  BY NAssumption DEF TypeOK, Packs
<1>2. \E x \in release : \A y \in release : x <= y
  BY <1>1, LeastNat
<1> QED BY <1>1, <1>2 DEF Next1

LEMMA HandOverTyped ==
  ASSUME TypeOK, HandOver
  PROVE  TypeOK'
<1>. DEFINE b == Next1(release)
<1>1. b \in Packs
  BY NextIsPack DEF HandOver
<1>2. release' = release \ {b}
  BY DEF HandOver
<1>3. LimitTyped' /\ CountTyped' /\ FlagTyped' /\ IntentTyped'
  <2>1. CASE Commanded(b)
    <3>1. Normal(b, "normal")
      BY <2>1 DEF HandOver
    <3>. HIDE DEF b
    <3> QED BY <1>1, <3>1, NormalEffect DEF Effect, Intents
  <2>2. CASE ~Commanded(b)
    <3>1. UNCHANGED <<limit, intent, record, selling, retries, liftTried,
                      checked, orphanStopped, stopped, saleSent, withheld,
                      failed>>
      BY <2>2 DEF HandOver
    <3> QED BY <3>1, TypeParts, Zenon DEF LimitTyped, CountTyped, FlagTyped, IntentTyped
  <2> QED BY <2>1, <2>2
<1>4. settling' \in BOOLEAN /\ observer' \in BOOLEAN
  BY Zenon DEF TypeOK, HandOver
<1>5. /\ streak' \in [Packs -> 0 .. Dwell - 1]
      /\ todo' \subseteq Packs
      /\ want' \in [Packs -> Wishes]
      /\ writer' \in Packs \cup {NoPack}
      /\ before' \in [Packs -> Watts \cup {None}]
      /\ waiting' \in [Packs -> 0 .. N * Dwell]
      /\ capped' \in [Packs -> 0 .. 2]
  BY DEF TypeOK, HandOver
<1>6. release' \subseteq Packs
  BY <1>2 DEF TypeOK
<1> QED BY <1>3, <1>4, <1>5, <1>6, TypePartsNext DEF RestTyped

LEMMA ReloadTyped ==
  ASSUME TypeOK, Reload
  PROVE  TypeOK'
<1>1. LimitTyped'
  <2>1. failed' \in BOOLEAN
    BY Zenon DEF TypeOK, Reload, cycle
  <2>2. limit' \in Watts
    BY WattAssumption DEF TypeOK, Reload, Watts
  <2>3. /\ record' \in [Packs -> Watts \cup {None}]
        /\ withheld' \in [Packs -> Watts \cup {None}]
    BY DEF TypeOK, Reload, cycle
  <2> QED BY <2>1, <2>2, <2>3 DEF LimitTyped
<1>2. CountTyped' /\ IntentTyped'
  BY CountAssumption DEF TypeOK, Reload, cycle, CountTyped, IntentTyped, Intents
<1>3. FlagTyped'
  <2>1. stopped' \in BOOLEAN
    BY Zenon DEF TypeOK, Reload, cycle
  <2> QED BY <2>1 DEF Reload, FlagTyped
<1>4. settling' \in BOOLEAN /\ observer' \in BOOLEAN
  BY Zenon DEF TypeOK, Reload, cycle
<1>5. /\ todo' \subseteq Packs
      /\ want' \in [Packs -> Wishes]
      /\ writer' \in Packs \cup {NoPack}
      /\ before' \in [Packs -> Watts \cup {None}]
      /\ release' \subseteq Packs
      /\ waiting' \in [Packs -> 0 .. N * Dwell]
      /\ capped' \in [Packs -> 0 .. 2]
  BY DEF TypeOK, Reload, cycle
<1>6. streak' \in [Packs -> 0 .. Dwell - 1]
  <2>1. 0 \in 0 .. Dwell - 1
    BY CountAssumption
  <2> QED BY <2>1 DEF Reload
<1> QED BY <1>1, <1>2, <1>3, <1>4, <1>5, <1>6, TypePartsNext DEF RestTyped

\* Nothing happens
LEMMA StutterTyped ==
  ASSUME TypeOK, UNCHANGED vars
  PROVE  TypeOK'
BY TypeParts, TypePartsNext, Zenon
   DEF vars, pack, cycle, LimitTyped, CountTyped, FlagTyped, IntentTyped, RestTyped

\* The steps of the specification, a turn of the pipeline being one
LEMMA StepCases ==
  ASSUME [NextUnload]_vars
  PROVE  \/ Begin \/ (\E b \in Packs : Send(b)) \/ Settle \/ SettleInstead
         \/ Unload \/ HandOver \/ Reload \/ UNCHANGED vars
BY Zenon DEF NextUnload, Next, Send

\* Every variable keeps its type, whatever the packs are asked and whichever
\* calls fail, with unloads in between
THEOREM TypeCorrect == SpecUnload => []TypeOK
<1>1. Init => TypeOK
  BY InitTyped
<1>2. TypeOK /\ [NextUnload]_vars => TypeOK'
  BY StepCases, BeginTyped, SendTyped, SettleTyped, SettleInsteadTyped,
     UnloadTyped, HandOverTyped, ReloadTyped, StutterTyped, Zenon
<1> QED BY <1>1, <1>2, PTL DEF SpecUnload

-----------------------------------------------------------------------------
(* Within a cycle only the writer's record moves, and the entity with it: the *)
(* others still have the record the cycle began with, which they all share.  *)
(* When the writer's sale did not go out it wrote nothing, so the pack that  *)
(* leads instead has the record of what the entity holds.                    *)

CycleOK ==
  /\ AtRest => ~stopped
  /\ stopped => writer # NoPack
  /\ settling => todo = {}
  /\ observer => todo = {}
  /\ release # {} => observer
  /\ ~AtRest => writer = Best(want, Packs)

Shared ==
  ~AtRest /\ ~observer =>
    /\ \A b \in Packs : b # writer => record[b] = before[b]
    /\ \A b, c \in Packs : before[b] = before[c]
    /\ writer \in todo => record[writer] = before[writer]
    /\ writer \in Packs => record[writer] \in {limit, None}
    /\ (\A b \in Packs : record[b] = before[b]) =>
          \A b \in Packs : record[b] \in {limit, None}
    /\ writer \in Packs /\ want[writer].do = "sale" =>
          record[writer] = before[writer] \/ before[writer] < record[writer]

IInv == TypeOK /\ CycleOK /\ Shared /\ RecordsAgree

LEMMA InitInv == Init => IInv
<1>. SUFFICES ASSUME Init PROVE IInv
  OBVIOUS
<1>1. todo = {} /\ settling = FALSE /\ stopped = FALSE /\ observer = FALSE /\ release = {}
  BY DEF Init, Quiet
<1>2. \A b \in Packs : record[b] = None
  BY DEF Init, Fresh
<1> QED BY <1>1, <1>2, InitTyped DEF IInv, CycleOK, Shared, RecordsAgree, AtRest

LEMMA PacksNotEmpty == 1 \in Packs /\ NoPack \notin Packs
BY NAssumption DEF Packs, NoPack

\* With no writer nobody is asked for anything that writes the limit
LEMMA NoWriter ==
  ASSUME TypeOK, CycleOK, ~AtRest, writer = NoPack
  PROVE  \A b \in Packs : want[b].as \notin Ranked
<1>1. want \in [Packs -> Wishes] /\ Packs \in SUBSET Packs
  BY DEF TypeOK
<1>2. Best(want, Packs) = NoPack
  BY DEF CycleOK
<1>3. Writing(want, Packs) = {}
  BY <1>1, <1>2, BestIsAhead, PacksNotEmpty DEF Writing
<1> QED BY <1>3 DEF Writing

\* The pack that leads instead of the writer: the writer's sale is not out, and
\* every record is still what the entity holds, or there is none
LEMMA LeadInstead ==
  ASSUME IInv, ~AtRest, Lead \notin {NoPack, writer}
  PROVE  /\ Lead \in Packs
         /\ writer \in Packs
         /\ ~observer => \A b \in Packs : record[b] \in {limit, None}
<1>. DEFINE S == {b \in Packs : WentOut(b)}
<1>1. TypeOK /\ CycleOK /\ Shared
  BY DEF IInv
<1>2. want \in [Packs -> Wishes] /\ S \in SUBSET Packs /\ Lead = Best(want, S)
  BY <1>1 DEF TypeOK, Lead
<1>3. Lead \in Packs
  BY <1>1, LeadIsPack
<1>4. writer = Best(want, Packs)
  BY <1>1 DEF CycleOK
<1>5. writer \in Packs
  <2>1. SUFFICES ASSUME writer = NoPack PROVE FALSE
    BY <1>1 DEF TypeOK
  <2>2. Writing(want, S) = {}
    BY <1>1, <2>1, NoWriter DEF Writing
  <2> QED BY <1>2, <2>2 DEF Best
<1>6. writer \notin S
  <2>. HIDE DEF S
  <2> QED BY <1>2, <1>4, BestOfFewer
<1>7. want[writer].as = "sale" /\ ~(record[writer] > before[writer])
  BY <1>5, <1>6 DEF WentOut
<1>8. want[writer].do = "sale"
  BY <1>2, <1>5, <1>7, WishFields
<1>9. ASSUME ~observer PROVE \A b \in Packs : record[b] \in {limit, None}
  <2>1. record[writer] \in Int /\ before[writer] \in Int
    BY <1>1, <1>5, WattAssumption DEF TypeOK, Watts, None
  <2>2. record[writer] = before[writer]
    BY <1>1, <1>5, <1>7, <1>8, <1>9, <2>1 DEF Shared
  <2>3. \A b \in Packs : record[b] = before[b]
    BY <1>1, <1>9, <2>2 DEF Shared
  <2> QED BY <1>1, <1>9, <2>3 DEF Shared
<1> QED BY <1>3, <1>5, <1>9

LEMMA BeginInv ==
  ASSUME IInv, Begin
  PROVE  CycleOK' /\ Shared' /\ RecordsAgree'
<1>1. TypeOK /\ CycleOK /\ RecordsAgree /\ AtRest /\ ~observer
  BY DEF IInv, Begin
<1>2. /\ todo' = Packs /\ Packs # {} /\ settling' = settling
      /\ observer' = observer /\ release' = release
      /\ writer' = Best(want', Packs) /\ stopped' = stopped
      /\ before' = record /\ record' = record /\ limit' = limit
  BY PacksNotEmpty DEF Begin, pack
<1>3. ~AtRest'
  BY <1>2 DEF AtRest
<1>4. CycleOK'
  BY <1>1, <1>2, <1>3 DEF CycleOK, AtRest
<1>5. \A b \in Packs : record[b] \in {limit, None}
  BY <1>1 DEF RecordsAgree
<1>6. \A b, c \in Packs : record[b] = record[c]
  BY <1>1 DEF RecordsAgree
<1>7. Shared'
  BY <1>2, <1>5, <1>6 DEF Shared
<1>8. RecordsAgree'
  BY <1>3 DEF RecordsAgree
<1> QED BY <1>4, <1>7, <1>8

LEMMA SendInv ==
  ASSUME IInv, NEW b \in Packs, Send(b)
  PROVE  CycleOK' /\ Shared' /\ RecordsAgree'
<1>1. TypeOK /\ CycleOK /\ Shared
  BY DEF IInv
<1>2. /\ b \in todo /\ todo' = todo \ {b} /\ settling' = (todo = {b})
      /\ want' = want /\ writer' = writer /\ before' = before
      /\ observer' = observer /\ release' = release
  BY <1>1, SendEffect DEF Sending, Turn
<1>3. ~AtRest /\ ~AtRest' /\ ~observer /\ (settling' => todo' = {})
  BY <1>1, <1>2 DEF AtRest, CycleOK
<1>4. stopped' => writer # NoPack
  BY <1>1, SendEffect DEF Effect, StopNoted, CycleOK
<1>5. CycleOK'
  BY <1>1, <1>2, <1>3, <1>4 DEF CycleOK
<1>6. ASSUME Kept PROVE Shared'
  BY <1>1, <1>2, <1>3, <1>6 DEF Shared, Kept
<1>7. ASSUME ~Kept PROVE Shared'
  <2>1. Wrote(b) /\ want[b].do \notin {"silent", "charge"}
    BY <1>1, <1>7, SendEffect DEF Effect
  <2>2. writer # NoPack
    <3>1. want[b].as \in Ranked
      BY <1>1, <2>1, WishFields DEF TypeOK
    <3> QED BY <1>1, <1>3, <3>1, NoWriter
  <2>3. b = writer
    BY <1>2, <2>1, <2>2 DEF Wrote, Marked
  <2>4. PICK w \in Watts : limit' = w /\ record' = [record EXCEPT ![b] = w]
    BY <2>1 DEF Wrote
  <2>5. /\ record'[b] = limit'
        /\ \A c \in Packs : c # b => record'[c] = record[c]
    BY <1>1, <2>4 DEF TypeOK
  <2>6. record[b] = before[b]
    BY <1>1, <1>2, <1>3, <2>3 DEF Shared
  <2>7. want[b].do = "sale" => before[b] < record'[b]
    BY <1>1, <1>7, <2>6, SendEffect
  <2>8. \A c \in Packs : c # b => record'[c] = before[c]
    BY <1>1, <1>3, <2>3, <2>5 DEF Shared
  <2>9. \A c, d \in Packs : before[c] = before[d]
    BY <1>1, <1>3 DEF Shared
  <2>10. (\A c \in Packs : record'[c] = before[c]) =>
           \A c \in Packs : record'[c] \in {limit', None}
    BY <2>5, <2>9
  <2> QED BY <1>2, <2>3, <2>5, <2>7, <2>8, <2>9, <2>10 DEF Shared
<1>8. RecordsAgree'
  BY <1>3 DEF RecordsAgree
<1> QED BY <1>5, <1>6, <1>7, <1>8

\* The cycle is over: all that is left to show is that the records agree
LEMMA EndCycleInv ==
  ASSUME IInv, EndCycle,
         ~observer => \/ \A b \in Packs : record'[b] = limit'
                      \/ \A b \in Packs : record'[b] = None
  PROVE  CycleOK' /\ Shared' /\ RecordsAgree'
<1>1. /\ todo' = {} /\ settling' = FALSE /\ stopped' = FALSE
      /\ observer' = observer /\ release' = release
  BY DEF EndCycle
<1>2. AtRest'
  BY <1>1 DEF AtRest
<1>3. CycleOK'
  BY <1>1, <1>2 DEF IInv, CycleOK
<1>4. Shared' /\ RecordsAgree'
  BY <1>1, <1>2 DEF Shared, RecordsAgree
<1> QED BY <1>3, <1>4

LEMMA SettleInv ==
  ASSUME IInv, Settle
  PROVE  CycleOK' /\ Shared' /\ RecordsAgree'
<1>1. TypeOK /\ CycleOK /\ Shared /\ EndCycle /\ limit' = limit
      /\ Follow(record[Effective]) /\ ~AtRest
  BY DEF IInv, Settle, EndCycle, AtRest
<1>2. ASSUME ~observer
      PROVE  \/ \A b \in Packs : record'[b] = limit'
             \/ \A b \in Packs : record'[b] = None
  <2>1. CASE writer = NoPack
    <3>1. record' = record
      BY <1>1, <2>1 DEF Follow
    <3>2. \A b \in Packs : record[b] = before[b]
      BY <1>1, <1>2, <2>1, PacksNotEmpty DEF Shared
    <3>3. \A b \in Packs : record[b] \in {limit, None}
      BY <1>1, <1>2, <3>2 DEF Shared
    <3>4. \A b, c \in Packs : record[b] = record[c]
      BY <1>1, <1>2, <3>2 DEF Shared
    <3> QED BY <1>1, <3>1, <3>3, <3>4
  <2>2. CASE writer # NoPack
    <3>1. \A b \in Packs : record'[b] = record[Effective]
      BY <1>1, <2>2 DEF Follow
    <3>2. record[Effective] \in {limit, None}
      <4>1. CASE Effective = writer
        BY <1>1, <1>2, <2>2, <4>1 DEF Shared, TypeOK
      <4>2. CASE Effective # writer
        BY <1>1, <1>2, <4>2, LeadInstead DEF Effective
      <4> QED BY <4>1, <4>2
    <3> QED BY <1>1, <3>1, <3>2
  <2> QED BY <2>1, <2>2
<1> QED BY <1>1, <1>2, EndCycleInv

LEMMA SettleInsteadInv ==
  ASSUME IInv, SettleInstead
  PROVE  CycleOK' /\ Shared' /\ RecordsAgree'
<1>1. TypeOK /\ EndCycle /\ ~AtRest /\ Lead \notin {NoPack, writer}
  BY DEF IInv, SettleInstead, Instead, EndCycle, AtRest
<1>2. Lead \in Packs /\ writer \in Packs
  BY <1>1, LeadInstead
<1>3. ASSUME ~observer
      PROVE  \/ \A b \in Packs : record'[b] = limit'
             \/ \A b \in Packs : record'[b] = None
  <2>1. CASE limit' = withheld[Lead] /\ Follow(withheld[Lead])
    BY <1>2, <2>1, PacksNotEmpty DEF Follow
  <2>2. CASE limit' = limit /\ Follow(record[Lead])
    <3>1. \A b \in Packs : record'[b] = record[Lead]
      BY <1>2, <2>2, PacksNotEmpty DEF Follow
    <3>2. record[Lead] \in {limit, None}
      BY <1>1, <1>2, <1>3, LeadInstead
    <3> QED BY <2>2, <3>1, <3>2
  <2> QED BY <2>1, <2>2 DEF SettleInstead
<1> QED BY <1>1, <1>3, EndCycleInv

LEMMA UnloadInv ==
  ASSUME IInv, Unload
  PROVE  CycleOK' /\ Shared' /\ RecordsAgree'
<1>1. /\ observer' /\ todo' = todo /\ todo = {} /\ settling' = settling
      /\ stopped' = stopped /\ writer' = writer /\ want' = want
  BY DEF Unload, cycle
<1>2. CycleOK'
  BY <1>1 DEF IInv, CycleOK, AtRest
<1> QED BY <1>1, <1>2 DEF Shared, RecordsAgree

LEMMA HandOverInv ==
  ASSUME IInv, HandOver
  PROVE  CycleOK' /\ Shared' /\ RecordsAgree'
<1>. DEFINE b == Next1(release)
<1>1. TypeOK /\ CycleOK /\ release # {} /\ observer /\ todo = {}
  BY DEF IInv, CycleOK, HandOver
<1>2. /\ todo' = todo /\ want' = want /\ writer' = writer
      /\ settling' = settling /\ observer' = observer
  BY DEF HandOver
<1>3. b \in Packs
  BY <1>1, NextIsPack
<1>4. stopped' => stopped
  <2>1. CASE Commanded(b)
    <3>1. Normal(b, "normal")
      BY <2>1 DEF HandOver
    <3>. HIDE DEF b
    <3>2. StopNoted(b)
      BY <1>1, <1>3, <3>1, NormalEffect DEF Effect, Intents
    <3> QED BY <1>1, <3>2 DEF StopNoted
  <2>2. CASE ~Commanded(b)
    BY <2>2 DEF HandOver
  <2> QED BY <2>1, <2>2
<1>5. CycleOK'
  BY <1>1, <1>2, <1>4 DEF CycleOK, AtRest
<1> QED BY <1>1, <1>2, <1>5 DEF Shared, RecordsAgree

LEMMA ReloadInv ==
  ASSUME IInv, Reload
  PROVE  CycleOK' /\ Shared' /\ RecordsAgree'
<1>1. /\ AtRest /\ release' = {} /\ observer' = FALSE /\ todo' = todo
      /\ settling' = settling /\ stopped' = stopped
      /\ \A b \in Packs : record'[b] = None
  BY DEF Reload, cycle
<1>2. AtRest'
  BY <1>1 DEF AtRest
<1>3. CycleOK'
  BY <1>1, <1>2 DEF IInv, CycleOK, AtRest
<1> QED BY <1>1, <1>2, <1>3 DEF Shared, RecordsAgree

LEMMA StutterInv ==
  ASSUME IInv, UNCHANGED vars
  PROVE  CycleOK' /\ Shared' /\ RecordsAgree'
<1>1. /\ todo' = todo /\ want' = want /\ writer' = writer /\ before' = before
      /\ settling' = settling /\ observer' = observer /\ stopped' = stopped
      /\ release' = release /\ record' = record /\ limit' = limit
  BY DEF vars, pack, cycle
<1> QED BY <1>1 DEF IInv, CycleOK, Shared, RecordsAgree, AtRest

LEMMA Inductive ==
  SpecUnload => []IInv
<1>1. Init => IInv
  BY InitInv
<1>2. IInv /\ [NextUnload]_vars => IInv'
  <2>. SUFFICES ASSUME IInv, [NextUnload]_vars PROVE IInv'
    OBVIOUS
  <2>1. TypeOK'
    BY StepCases, BeginTyped, SendTyped, SettleTyped, SettleInsteadTyped,
       UnloadTyped, HandOverTyped, ReloadTyped, StutterTyped, Zenon DEF IInv
  <2>2. CycleOK' /\ Shared' /\ RecordsAgree'
    BY StepCases, BeginInv, SendInv, SettleInv, SettleInsteadInv, UnloadInv,
       HandOverInv, ReloadInv, StutterInv, Zenon
  <2> QED BY <2>1, <2>2 DEF IInv
<1> QED BY <1>1, <1>2, PTL DEF SpecUnload

\* Between two cycles every pack's record is what the entity holds, or no pack
\* has one: for any number of packs, any decisions, refusals and unloads
THEOREM RecordsAgreeHolds == SpecUnload => []RecordsAgree
<1>1. IInv => RecordsAgree
  BY DEF IInv
<1> QED BY <1>1, Inductive, PTL

\* No pack's limit write follows a stop in the same cycle
THEOREM StopsAreQuiet == SpecUnload => QuietAfterStop
<1>1. IInv /\ [NextUnload]_vars => [stopped /\ ~observer => limit' = limit]_vars
  <2>. SUFFICES ASSUME IInv, [NextUnload]_vars, stopped, ~observer
                PROVE  limit' = limit
    OBVIOUS
  <2>1. TypeOK /\ CycleOK
    BY DEF IInv
  <2>2. writer # NoPack /\ release = {}
    BY <2>1 DEF CycleOK
  <2>3. CASE \E b \in Packs : Send(b)
    <3>1. PICK b \in Packs : Send(b)
      BY <2>3
    <3>2. b \in todo
      BY <2>1, <3>1, SendEffect DEF Sending, Turn
    <3>3. Marked(b)
      BY <2>2, <3>2 DEF Marked
    <3> QED BY <2>1, <3>1, <3>3, SendEffect DEF Effect, Kept, Wrote
  <2>4. CASE Begin \/ Settle \/ SettleInstead \/ Unload
    BY <2>4 DEF Begin, Settle, SettleInstead, Unload
  <2>5. CASE HandOver \/ Reload
    BY <2>2, <2>5 DEF HandOver, Reload
  <2>6. CASE UNCHANGED vars
    BY <2>6 DEF vars
  <2> QED BY <2>3, <2>4, <2>5, <2>6, StepCases
<1> QED BY <1>1, Inductive, PTL DEF SpecUnload, QuietAfterStop


-----------------------------------------------------------------------------
(* A command touches nothing of another pack.                              *)

Others(b) ==
  \A c \in Packs \ {b} :
    /\ intent'[c] = intent[c] /\ record'[c] = record[c] /\ withheld'[c] = withheld[c]
    /\ liftTried'[c] = liftTried[c] /\ (c \in saleSent' <=> c \in saleSent)

\* ... and sends the pack's own sale only without a limit of SEM's, or with its hand-back tried.
SaleOnce(b) ==
  b \in saleSent' /\ b \notin saleSent =>
    /\ liftTried'[b] = FALSE /\ record' = record
    /\ OwnLimitHeld(b) => liftTried[b]

LEMMA LimitOthers ==
  ASSUME TypeOK, NEW b \in Packs, NEW w, NoLimitWrite \/ ApplyLimit(b, w)
  PROVE  \A c \in Packs \ {b} : record'[c] = record[c] /\ withheld'[c] = withheld[c]
<1>1. /\ record' \in {record, [record EXCEPT ![b] = w]}
      /\ withheld' \in {withheld, [withheld EXCEPT ![b] = w]}
  BY DEF NoLimitWrite, ApplyLimit
<1>2. record \in [Packs -> Watts \cup {None}] /\ withheld \in [Packs -> Watts \cup {None}]
  BY DEF TypeOK
<1> QED BY <1>1, <1>2

LEMMA SayOthers ==
  ASSUME TypeOK, NEW b \in Packs, NEW i, intent' \in {intent, [intent EXCEPT ![b] = i]}
  PROVE  \A c \in Packs \ {b} : intent'[c] = intent[c]
<1>1. intent \in [Packs -> Intents]
  BY DEF TypeOK
<1> QED BY <1>1

\* What every command but the sale leaves alone
LEMMA CommandOthers ==
  ASSUME TypeOK, NEW b \in Packs, NEW w, NEW i, NoLimitWrite \/ ApplyLimit(b, w),
         intent' \in {intent, [intent EXCEPT ![b] = i]}, liftTried' = liftTried, saleSent' = saleSent
  PROVE  Others(b) /\ SaleOnce(b)
BY LimitOthers, SayOthers DEF Others, SaleOnce

LEMMA NormalOthers ==
  ASSUME TypeOK, NEW b \in Packs, NEW i, Normal(b, i)
  PROVE  Others(b) /\ SaleOnce(b) /\ liftTried' = liftTried /\ saleSent' = saleSent
<1>1. /\ NoLimitWrite \/ ApplyLimit(b, MaxW)
      /\ liftTried' = liftTried /\ saleSent' = saleSent /\ intent' = [intent EXCEPT ![b] = i]
  BY DEF Normal, ClearsOrphan, StopsSale, Say
<1> QED BY <1>1, CommandOthers

LEMMA LimitDischargeOthers ==
  ASSUME TypeOK, NEW b \in Packs, NEW w, LimitDischarge(b, w)
  PROVE  Others(b) /\ SaleOnce(b)
<1>1. /\ NoLimitWrite \/ ApplyLimit(b, w)
      /\ liftTried' = liftTried /\ saleSent' = saleSent /\ intent' = [intent EXCEPT ![b] = "limit"]
  BY DEF LimitDischarge, ClearsOrphan, StopsSale, Say
<1> QED BY <1>1, CommandOthers

LEMMA StopOthers ==
  ASSUME TypeOK, NEW b \in Packs, StopForceDischarge(b) \/ ForcedCharge(b)
  PROVE  Others(b) /\ SaleOnce(b)
<1>1. /\ NoLimitWrite
      /\ liftTried' = liftTried /\ saleSent' = saleSent
      /\ intent' \in {intent, [intent EXCEPT ![b] = "other"]}
  BY DEF StopForceDischarge, ForcedCharge, ClearsOrphan, StopsSale, Say
<1> QED BY <1>1, CommandOthers

LEMMA ForceDischargeOthers ==
  ASSUME TypeOK, NEW b \in Packs, ForceDischarge(b)
  PROVE  Others(b) /\ SaleOnce(b)
<1>1. liftTried \in [Packs -> BOOLEAN]
  BY DEF TypeOK
<1>2. CASE HandBack(b)
  <2>1. /\ ApplyLimit(b, MaxW) /\ saleSent' = saleSent /\ liftTried' = [liftTried EXCEPT ![b] = TRUE]
        /\ \E i \in {"other", intent[b]} : intent' = [intent EXCEPT ![b] = i]
    BY <1>2 DEF HandBack
  <2>2. \A c \in Packs \ {b} : liftTried'[c] = liftTried[c]
    BY <1>1, <2>1
  <2>3. \A c \in Packs \ {b} : intent'[c] = intent[c]
    BY <2>1, SayOthers
  <2> QED BY <2>1, <2>2, <2>3, LimitOthers DEF Others, SaleOnce
<1>3. CASE SendSale(b)
  <2>1. /\ NoLimitWrite /\ liftTried' = [liftTried EXCEPT ![b] = FALSE]
        /\ saleSent' \in {saleSent, saleSent \cup {b}}
        /\ intent' \in {intent, [intent EXCEPT ![b] = "other"]}
        /\ OwnLimitHeld(b) => liftTried[b]
    BY <1>3, Zenon DEF SendSale, Say
  <2>2. (\A c \in Packs \ {b} : liftTried'[c] = liftTried[c]) /\ liftTried'[b] = FALSE
    BY <1>1, <2>1
  <2>3. \A c \in Packs \ {b} : intent'[c] = intent[c]
    BY <2>1, SayOthers
  <2>4. record' = record
    BY <2>1 DEF NoLimitWrite
  <2>5. \A c \in Packs \ {b} : record'[c] = record[c] /\ withheld'[c] = withheld[c]
    BY <2>1, LimitOthers
  <2>6. Others(b)
    BY <2>1, <2>2, <2>3, <2>5 DEF Others
  <2>7. SaleOnce(b)
    BY <2>1, <2>2, <2>4, Zenon DEF SaleOnce
  <2> QED BY <2>6, <2>7
<1> QED BY <1>2, <1>3 DEF ForceDischarge

LEMMA SendOthers ==
  ASSUME TypeOK, NEW b \in Packs, Send(b)
  PROVE  /\ Others(b) /\ SaleOnce(b)
         /\ \A c \in Packs \ {b} : streak'[c] = streak[c]
<1>1. CASE SendNormal(b) \/ SendOff(b)
  BY <1>1, NormalOthers DEF SendNormal, SendOff, Off, Order
<1>2. CASE SendClamp(b)
  <2>1. PICK w \in SentLimits(b, want[b].w) : LimitDischarge(b, w)
    BY <1>2 DEF SendClamp
  <2>2. streak' = [streak EXCEPT ![b] = StreakOf(b, want[b].w)] /\ streak \in [Packs -> 0 .. Dwell - 1]
    BY <1>2 DEF SendClamp, TypeOK
  <2>3. \A c \in Packs \ {b} : streak'[c] = streak[c]
    BY <2>2
  <2> QED BY <2>1, <2>3, LimitDischargeOthers
<1>3. CASE SendDischarge(b)
  BY <1>3, ForceDischargeOthers DEF SendDischarge, Order
<1>4. CASE SendEndSale(b) \/ SendCharge(b)
  BY <1>4, StopOthers DEF SendEndSale, SendCharge, Order
<1>5. CASE SendNothing(b)
  BY <1>5 DEF SendNothing, pack, Others, SaleOnce
<1> QED BY <1>1, <1>2, <1>3, <1>4, <1>5 DEF Send

-----------------------------------------------------------------------------
(* A hold that lands and a sale that is not capped.  A pack that is asked a  *)
(* 0 W hold again and again either counts up its own dwell, or is past it    *)
(* and has its write held back; the writer is the first pack that is asked,  *)
(* so it has waited out no more than its own dwell, and a pack behind it one *)
(* more for every pack that came to the front since.                         *)

\* No stop, no refused write, no sale, no blind hold so far in this cycle
ClearRun == Clean /\ ~observer

\* What a cycle leaves behind, and the unload
Between ==
  /\ AtRest => want = [b \in Packs |-> Silent] /\ saleSent = {}
  /\ AtRest => \A b \in Packs : withheld[b] = None
  /\ \A b \in todo : withheld[b] = None
  /\ todo # {} /\ writer # NoPack => writer \in todo
  /\ observer => \A b \in Packs : waiting[b] = 0 /\ capped[b] = 0

\* A sale that went out has used up its try of the hand-back: the next one under a limit is not the next sale
Sales ==
  /\ \A b \in saleSent : b \notin todo /\ ~liftTried[b] /\ (capped[b] = 1 => ~OwnLimitHeld(b))
  /\ \A b \in Packs : capped[b] <= 1
  /\ \A b \in Packs : capped[b] = 1 /\ (b \in todo \/ AtRest) => ~liftTried[b]

\* A pack with a limit in force has counted every cycle of its wait
Worn == \A b \in Packs : (b \in todo \/ AtRest) /\ intent[b] = "limit" => waiting[b] <= streak[b]

\* What the turn of a pack that is asked 0 W has come to
Told ==
  \A b \in Packs : b \notin todo /\ Asked(b) /\ ClearRun =>
    \/ limit = 0
    \/ intent[b] = "limit" /\ withheld[b] = None /\ waiting[b] + 1 <= streak[b]
    \/ b # writer /\ withheld[b] = 0

\* c is the first of the packs that wait
First(c) == waiting[c] > 0 /\ \A d \in Packs : waiting[d] > 0 => c <= d

\* One dwell for every pack from the first that waits to this one
Waits ==
  \A b \in Packs : waiting[b] > 0 =>
    \E c \in Packs : /\ First(c) /\ waiting[c] <= Dwell - 1
                     /\ waiting[b] <= waiting[c] + (Dwell - 1) * (b - c)

HInv == Between /\ Sales /\ Worn /\ Told /\ Waits

LEMMA HoldInit == Init => HInv
<1>. SUFFICES ASSUME Init PROVE HInv
  OBVIOUS
<1>1. /\ todo = {} /\ settling = FALSE /\ observer = FALSE /\ saleSent = {}
      /\ want = [b \in Packs |-> Silent] /\ withheld = [b \in Packs |-> None]
      /\ waiting = [b \in Packs |-> 0] /\ capped = [b \in Packs |-> 0]
      /\ intent = [b \in Packs |-> "other"] /\ liftTried = [b \in Packs |-> FALSE]
  BY DEF Init, Quiet, Fresh
<1>2. \A b \in Packs : ~Asked(b)
  BY <1>1 DEF Asked, Silent, Plain, Limit
<1>3. Between /\ Sales
  BY <1>1 DEF Between, Sales
<1>4. Worn /\ Told /\ Waits
  BY <1>1, <1>2 DEF Worn, Told, Waits
<1> QED BY <1>3, <1>4 DEF HInv

\* In a clean cycle in which a pack is asked 0 W the writer is asked it too, and comes no later.
LEMMA WriterAsked ==
  ASSUME TypeOK, CycleOK, ~AtRest, ClearRun, NEW b \in Packs, Asked(b)
  PROVE  writer \in Packs /\ Asked(writer) /\ writer <= b
<1>1. want \in [Packs -> Wishes] /\ Packs \in SUBSET Packs /\ writer = Best(want, Packs)
  BY DEF TypeOK, CycleOK
<1>2. want[b].as = "limit" /\ want[b].w = 0 /\ b \in Writing(want, Packs)
  BY DEF Asked, Limit, Writing, Ranked
<1>3. writer \in Writing(want, Packs) /\ Ahead(want, writer, b)
  BY <1>1, <1>2, BestIsAhead
<1>4. writer \in Packs /\ want[writer] \in Wishes /\ want[writer].as \in Ranked
  BY <1>1, <1>3 DEF Writing
<1>5. want[writer].do # "held" /\ want[writer].as # "sale"
  BY <1>4 DEF ClearRun, Clean
<1>6. Rank(want[b].as) = 1
  BY <1>2 DEF Rank
<1>7. Rank(want[writer].as) = 1 /\ want[writer].as = "limit"
  <2>1. Rank(want[writer].as) <= 1
    <3>1. Rank(want[writer].as) \in 0 .. 3
      BY <1>4, WishFields
    <3> QED BY <1>3, <1>6, <3>1 DEF Ahead
  <2> QED BY <1>5, <2>1 DEF Rank
<1>8. PICK w \in Watts : want[writer] = Limit(w)
  <2>1. want[writer] \in Orders
    BY <1>4, <1>5, <1>7 DEF Wishes, Silent, Plain, Held
  <2> QED BY <1>7, <2>1 DEF Orders, Plain
<1>9. want[writer].w = w /\ w \in Nat /\ writer \in Nat /\ b \in Nat
  BY <1>4, <1>8, WattAssumption, NAssumption DEF Limit, Watts, Packs
<1>10. w = 0 /\ writer <= b
  BY <1>2, <1>3, <1>6, <1>7, <1>9 DEF Ahead
<1> QED BY <1>4, <1>8, <1>10 DEF Asked

\* A stop of the cycle, a refused write, stay noted to its end.
LEMMA StopStays ==
  ASSUME TypeOK, NEW b \in Packs, Send(b)
  PROVE  (stopped => stopped') /\ (failed => failed')
<1>1. ASSUME NEW w, NoLimitWrite \/ ApplyLimit(b, w) PROVE failed => failed'
  BY <1>1 DEF NoLimitWrite, ApplyLimit
<1>2. ASSUME NEW i, Normal(b, i) PROVE (stopped => stopped') /\ (failed => failed')
  BY <1>1, <1>2 DEF Normal, ClearsOrphan, StopsSale, NoteStop, NoteTry
<1>3. ASSUME NEW w, LimitDischarge(b, w) PROVE (stopped => stopped') /\ (failed => failed')
  BY <1>1, <1>3 DEF LimitDischarge, ClearsOrphan, StopsSale, NoteStop, NoteTry
<1>4. ASSUME StopForceDischarge(b) \/ ForcedCharge(b) PROVE (stopped => stopped') /\ (failed => failed')
  BY <1>1, <1>4 DEF StopForceDischarge, ForcedCharge, ClearsOrphan, StopsSale, NoteStop, NoteTry
<1>5. ASSUME ForceDischarge(b) PROVE (stopped => stopped') /\ (failed => failed')
  BY <1>1, <1>5 DEF ForceDischarge, HandBack, SendSale
<1> QED BY <1>2, <1>3, <1>4, <1>5
     DEF Send, SendNormal, SendClamp, SendDischarge, SendEndSale, SendCharge, SendOff, SendNothing, Off, Order

\* The turn of a pack that is asked 0 W: it lands, counts, or has its write held back.
LEMMA AskedTurn ==
  ASSUME IInv, HInv, NEW b \in Packs, Send(b), Asked(b), ClearRun'
  PROVE  /\ limit' \in {limit, 0}
         /\ \/ limit' = 0
            \/ intent'[b] = "limit" /\ withheld'[b] = None /\ waiting'[b] + 1 <= streak'[b]
            \/ b # writer' /\ withheld'[b] = 0
<1>1. TypeOK /\ CycleOK /\ Shared /\ Between /\ Worn
  BY DEF IInv, HInv
<1>2. /\ b \in todo /\ todo # {} /\ want' = want /\ writer' = writer /\ observer' = observer
      /\ waiting' = waiting
  BY <1>1, SendEffect DEF Sending, Turn
<1>3. ~stopped' /\ ~failed' /\ ~observer
  BY <1>2 DEF ClearRun, Clean
<1>4. ~AtRest
  BY <1>2 DEF AtRest
<1>5. writer # NoPack
  <2>1. want[b].as \in Ranked
    BY DEF Asked, Limit, Ranked
  <2> QED BY <1>1, <1>4, <2>1, NoWriter
<1>6. /\ withheld[b] = None /\ withheld \in [Packs -> Watts \cup {None}]
      /\ intent[b] = "limit" => waiting[b] <= streak[b]
  BY <1>1, <1>2 DEF Between, Worn, TypeOK
<1>7. record[b] \in {limit, None}
  <2>1. writer \in todo /\ writer \in Packs
    BY <1>1, <1>2, <1>5 DEF Between, TypeOK
  <2>2. \A c \in Packs : record[c] = before[c]
    BY <1>1, <1>3, <1>4, <2>1 DEF Shared
  <2> QED BY <1>1, <1>3, <1>4, <2>2 DEF Shared
<1>8. /\ want[b].do = "limit" /\ want[b].w = 0
  BY DEF Asked, Limit
<1>9. SendClamp(b)
  BY <1>8 DEF Send, SendNormal, SendDischarge, SendEndSale, SendCharge, SendOff, SendNothing, Order
<1>10. PICK w \in SentLimits(b, 0) : LimitDischarge(b, w)
  BY <1>8, <1>9 DEF SendClamp
<1>11. streak'[b] = StreakOf(b, 0)
  BY <1>1, <1>8, <1>9 DEF SendClamp, TypeOK
<1>12. /\ streak[b] \in 0 .. Dwell - 1 /\ Dwell \in Nat \ {0} /\ limit \in Nat /\ None = -1
       /\ waiting[b] \in Nat
  <2>1. waiting[b] \in 0 .. N * Dwell /\ N * Dwell \in Nat
    BY <1>1, NAssumption, CountAssumption DEF TypeOK
  <2> QED BY <1>1, <2>1, CountAssumption, WattAssumption DEF TypeOK, Watts, None
<1>13. /\ intent'[b] = "limit"
       /\ IF record[b] = w THEN NoLimitWrite ELSE ApplyLimit(b, w)
  <2>1. intent' = [intent EXCEPT ![b] = "limit"] /\ intent \in [Packs -> Intents]
    BY <1>1, <1>10 DEF LimitDischarge, Say, TypeOK
  <2>2. ~ClearsOrphan(b) /\ ~StopsSale(b)
    BY <1>2, <1>3, <1>5 DEF ClearsOrphan, StopsSale, NoteStop
  <2> QED BY <1>10, <2>1, <2>2 DEF LimitDischarge
<1>14. ASSUME w = 0, record[b] # 0
       PROVE  \/ limit' = 0
              \/ limit' = limit /\ b # writer' /\ withheld'[b] = 0
  <2>1. ApplyLimit(b, 0)
    BY <1>13, <1>14
  <2>2. Marked(b) => b # writer
    BY <1>1, <1>3, StopStays DEF Marked
  <2> QED BY <1>2, <1>3, <1>6, <2>1, <2>2 DEF ApplyLimit
<1>15. ASSUME record[b] = w PROVE limit' = limit /\ withheld'[b] = None
  BY <1>6, <1>13, <1>15 DEF NoLimitWrite
<1>16. CASE InForce(b) /\ record[b] > 0
  <2>1. Lowered(b, 0) /\ intent[b] = "limit" /\ record[b] # 0
    BY <1>7, <1>12, <1>16 DEF Lowered, InForce
  <2>2. SentLimits(b, 0) = IF streak[b] + 1 < Dwell THEN {record[b]} ELSE {0}
    BY <1>7, <1>12, <1>16, <2>1 DEF SentLimits
  <2>3. StreakOf(b, 0) = Min2(streak[b] + 1, Dwell - 1)
    BY <2>1 DEF StreakOf
  <2>4. CASE streak[b] + 1 < Dwell
    <3>1. w = record[b] /\ streak'[b] = streak[b] + 1
      BY <1>10, <1>11, <1>12, <2>2, <2>3, <2>4 DEF Min2
    <3> QED BY <1>2, <1>6, <1>12, <1>13, <1>15, <2>1, <3>1
  <2>5. CASE ~(streak[b] + 1 < Dwell)
    <3>1. w = 0
      BY <1>10, <2>2, <2>5
    <3> QED BY <1>14, <2>1, <3>1
  <2> QED BY <2>4, <2>5
<1>17. CASE ~(InForce(b) /\ record[b] > 0)
  <2>1. w = 0
    BY <1>7, <1>10, <1>12, <1>17 DEF SentLimits, Lowered, InForce
  <2>2. CASE record[b] = 0
    <3>1. limit = 0
      BY <1>7, <1>12, <2>2
    <3> QED BY <1>15, <2>1, <2>2, <3>1
  <2>3. CASE record[b] # 0
    BY <1>14, <2>1, <2>3
  <2> QED BY <2>2, <2>3
<1> QED BY <1>16, <1>17

LEMMA SendHold ==
  ASSUME IInv, IInv', HInv, NEW b \in Packs, Send(b)
  PROVE  HInv'
<1>1. TypeOK /\ CycleOK /\ Between /\ Sales /\ Worn /\ Told /\ Waits
  BY DEF IInv, HInv
<1>2. /\ b \in todo /\ todo' = todo \ {b} /\ settling' = (todo = {b})
      /\ want' = want /\ writer' = writer /\ observer' = observer /\ waiting' = waiting /\ capped' = capped
      /\ writer # NoPack /\ todo # {b} => b # writer
  <2>1. Sending(b)
    BY <1>1, SendEffect
  <2>2. todo = {writer} \/ todo # {b} => todo = {writer} \/ b # writer
    BY <2>1 DEF Sending, Turn
  <2>3. b \in todo
    BY <2>1 DEF Sending, Turn
  <2> QED BY <2>1, <2>2, <2>3 DEF Sending
<1>3. ~AtRest /\ ~AtRest' /\ ~observer
  BY <1>1, <1>2 DEF AtRest, CycleOK
<1>4. Others(b) /\ SaleOnce(b) /\ \A c \in Packs \ {b} : streak'[c] = streak[c]
  BY <1>1, SendOthers
<1>5. todo \subseteq Packs /\ saleSent' \subseteq Packs
  BY DEF IInv, TypeOK
<1>6. Between'
  <2>1. \A c \in todo' : withheld'[c] = None
    BY <1>1, <1>2, <1>4, <1>5 DEF Between, Others
  <2>2. todo' # {} /\ writer' # NoPack => writer' \in todo'
    BY <1>1, <1>2 DEF Between
  <2> QED BY <1>2, <1>3, <2>1, <2>2 DEF Between
<1>7. Sales'
  <2>1. ASSUME NEW c \in saleSent'
        PROVE  c \notin todo' /\ ~liftTried'[c] /\ (capped'[c] = 1 => ~OwnLimitHeld(c)')
    <3>1. CASE c # b
      <4>1. /\ c \in saleSent /\ record'[c] = record[c] /\ liftTried'[c] = liftTried[c]
        BY <1>4, <1>5, <3>1 DEF Others
      <4>2. c \notin todo /\ ~liftTried[c] /\ (capped[c] = 1 => ~OwnLimitHeld(c))
        BY <1>1, <4>1 DEF Sales
      <4> QED BY <1>2, <4>1, <4>2 DEF OwnLimitHeld
    <3>2. CASE c = b
      <4>1. b \notin saleSent /\ (capped[b] = 1 => ~liftTried[b])
        BY <1>1, <1>2 DEF Sales
      <4>2. liftTried'[b] = FALSE /\ record' = record /\ (OwnLimitHeld(b) => liftTried[b])
        BY <1>4, <3>2, <4>1 DEF SaleOnce
      <4> QED BY <1>2, <3>2, <4>1, <4>2 DEF OwnLimitHeld
    <3> QED BY <3>1, <3>2
  <2>2. ASSUME NEW c \in Packs, capped'[c] = 1, c \in todo' \/ AtRest' PROVE ~liftTried'[c]
    <3>1. c \in todo /\ c # b
      BY <1>2, <1>3, <2>2
    <3>2. ~liftTried[c] /\ liftTried'[c] = liftTried[c]
      BY <1>1, <1>2, <1>4, <2>2, <3>1 DEF Sales, Others
    <3> QED BY <3>2
  <2>3. \A c \in Packs : capped'[c] <= 1
    BY <1>1, <1>2 DEF Sales
  <2> QED BY <2>1, <2>2, <2>3 DEF Sales
<1>8. Worn'
  BY <1>1, <1>2, <1>3, <1>4 DEF Worn, Others
<1>9. Told'
  <2>1. SUFFICES ASSUME NEW c \in Packs, c \notin todo', Asked(c)', ClearRun'
                 PROVE  \/ limit' = 0
                        \/ intent'[c] = "limit" /\ withheld'[c] = None /\ waiting'[c] + 1 <= streak'[c]
                        \/ c # writer' /\ withheld'[c] = 0
    BY DEF Told
  <2>2. Asked(c) /\ ClearRun
    BY <1>1, <1>2, <2>1, StopStays DEF Asked, ClearRun, Clean
  <2>3. CASE c = b
    BY <2>1, <2>2, <2>3, AskedTurn
  <2>4. CASE c # b
    <3>1. c \notin todo
      BY <1>2, <2>1, <2>4
    <3>2. \/ limit = 0
          \/ intent[c] = "limit" /\ withheld[c] = None /\ waiting[c] + 1 <= streak[c]
          \/ c # writer /\ withheld[c] = 0
      BY <1>1, <2>2, <3>1 DEF Told
    <3>3. CASE limit = 0
      <4>1. CASE b = writer
        <5>1. Asked(b)
          BY <1>1, <1>3, <2>2, <4>1, WriterAsked
        <5> QED BY <2>1, <3>3, <5>1, AskedTurn
      <4>2. CASE b # writer
        <5>1. writer # NoPack
          BY <1>1, <1>3, <2>2, WriterAsked, PacksNotEmpty
        <5>2. Kept
          BY <1>1, <1>2, <4>2, <5>1, SendEffect DEF Effect, Wrote, Marked
        <5> QED BY <3>3, <5>2 DEF Kept
      <4> QED BY <4>1, <4>2
    <3>4. intent'[c] = intent[c] /\ withheld'[c] = withheld[c] /\ streak'[c] = streak[c]
      BY <1>4, <2>4 DEF Others
    <3> QED BY <1>2, <3>2, <3>3, <3>4
  <2> QED BY <2>3, <2>4
<1>10. Waits'
  BY <1>1, <1>2 DEF Waits, First
<1> QED BY <1>6, <1>7, <1>8, <1>9, <1>10 DEF HInv

-----------------------------------------------------------------------------
(* The end of a cycle *)

\* What a pack that counts this cycle stands on: the writer leads, and its own dwell is what is waited for.
LEMMA Counted ==
  ASSUME IInv, HInv, EndCycle, NEW b \in Packs, Asked(b), Clean, ~observer, limit > 0
  PROVE  /\ writer \in Packs /\ Asked(writer) /\ writer <= b
         /\ intent[writer] = "limit" /\ waiting[writer] + 1 <= streak[writer]
         /\ Effective = writer /\ ~Instead /\ record[writer] # 0
         /\ \/ intent[b] = "limit" /\ withheld[b] = None /\ waiting[b] + 1 <= streak[b]
            \/ withheld[b] = 0
<1>1. TypeOK /\ CycleOK /\ Shared /\ Told /\ settling /\ todo = {}
  BY DEF IInv, HInv, EndCycle, CycleOK
<1>2. ~AtRest /\ ClearRun /\ limit # 0
  <2>1. limit \in Nat
    BY <1>1, WattAssumption DEF TypeOK, Watts
  <2> QED BY <1>1, <2>1 DEF AtRest, ClearRun
<1>3. writer \in Packs /\ Asked(writer) /\ writer <= b
  BY <1>1, <1>2, WriterAsked
<1>4. intent[writer] = "limit" /\ waiting[writer] + 1 <= streak[writer]
  BY <1>1, <1>2, <1>3 DEF Told
<1>5. Lead = writer
  <2>1. {c \in Packs : WentOut(c)} = Packs
    BY <1>2 DEF ClearRun, Clean, WentOut
  <2>2. Lead = Best(want, Packs)
    BY <2>1 DEF Lead
  <2> QED BY <1>1, <1>2, <2>2 DEF CycleOK
<1>6. Effective = writer /\ ~Instead
  BY <1>5 DEF Effective, Instead
<1>7. record[writer] # 0
  BY <1>1, <1>2, <1>3 DEF Shared, None
<1>8. \/ intent[b] = "limit" /\ withheld[b] = None /\ waiting[b] + 1 <= streak[b]
      \/ withheld[b] = 0
  BY <1>1, <1>2 DEF Told
<1> QED BY <1>3, <1>4, <1>6, <1>7, <1>8

\* The count itself
LEMMA Count ==
  ASSUME TypeOK, CycleOK, EndCycle, NEW b \in Packs
  PROVE  /\ waiting[b] \in Nat /\ waiting'[b] \in Nat
         /\ waiting'[b] > 0 => Asked(b) /\ Clean /\ limit > 0 /\ ~observer
         /\ waiting'[b] <= waiting[b] + 1
         /\ waiting'[b] > 0 /\ TakenOver(b) => waiting'[b] = 1
         /\ Asked(b) /\ Clean /\ limit > 0 /\ ~observer =>
              /\ waiting'[b] > 0
              /\ waiting[b] <= Dwell - 1 /\ ~TakenOver(b) => waiting'[b] = waiting[b] + 1
<1>. DEFINE M == N * Dwell
<1>1. M \in Nat /\ Dwell <= M /\ Dwell \in Nat \ {0} /\ waiting[b] \in 0 .. M
  <2>1. N \in Nat /\ Dwell \in Nat \ {0} /\ 1 <= N
    BY NAssumption, CountAssumption
  <2>2. M \in Nat /\ 1 * Dwell <= N * Dwell
    BY <2>1
  <2>3. waiting[b] \in 0 .. M
    BY DEF TypeOK
  <2> QED BY <2>1, <2>2, <2>3
<1>2. waiting'[b] = IF Asked(b) /\ Clean /\ limit > 0 /\ ~observer
                    THEN IF TakenOver(b) THEN 1 ELSE Min2(waiting[b] + 1, M)
                    ELSE 0
  BY DEF EndCycle, CountWaiting
<1>. HIDE DEF M
<1>3. /\ Min2(waiting[b] + 1, M) \in Nat \ {0} /\ Min2(waiting[b] + 1, M) <= waiting[b] + 1
      /\ waiting[b] <= Dwell - 1 => Min2(waiting[b] + 1, M) = waiting[b] + 1
  BY <1>1 DEF Min2
<1> QED BY <1>1, <1>2, <1>3

\* One dwell more for every pack from c to b
LEMMA DwellsApart ==
  ASSUME NEW c \in Packs, NEW d \in Packs, NEW b \in Packs, c < d, d <= b
  PROVE  /\ (Dwell - 1) * (b - d) \in Nat
         /\ (Dwell - 1) + (Dwell - 1) * (b - d) <= (Dwell - 1) * (b - c)
         /\ (Dwell - 1) * (b - c) \in Nat
<1>. DEFINE e == Dwell - 1
            k == b - d
            m == b - c
<1>1. e \in Nat /\ k \in Nat /\ m \in Nat /\ k + 1 <= m
  BY CountAssumption, NAssumption DEF Packs
<1>. HIDE DEF e, k, m
<1>2. e * (k + 1) = e * k + e /\ e * k \in Nat /\ e * m \in Nat
  BY <1>1
<1>3. e * (k + 1) <= e * m
  BY <1>1
<1>4. e + e * k <= e * m
  BY <1>1, <1>2, <1>3
<1> QED BY <1>2, <1>4 DEF e, k, m

LEMMA EndWaits == ASSUME IInv, IInv', HInv, EndCycle PROVE Waits'
<1>1. TypeOK /\ CycleOK /\ Waits
  BY DEF IInv, HInv
<1>2. SUFFICES ASSUME NEW b \in Packs, waiting'[b] > 0
               PROVE  \E c \in Packs : /\ First(c)' /\ waiting'[c] <= Dwell - 1
                                       /\ waiting'[b] <= waiting'[c] + (Dwell - 1) * (b - c)
  BY DEF Waits
<1>3. Asked(b) /\ Clean /\ limit > 0 /\ ~observer /\ waiting[b] \in Nat /\ waiting'[b] \in Nat
  BY <1>1, <1>2, Count
<1>4. /\ writer \in Packs /\ Asked(writer) /\ writer <= b
      /\ intent[writer] = "limit" /\ waiting[writer] + 1 <= streak[writer]
  BY <1>3, Counted
<1>5. streak[writer] \in 0 .. Dwell - 1 /\ Dwell \in Nat \ {0}
  BY <1>1, <1>4, CountAssumption DEF TypeOK
<1>6. /\ waiting[writer] \in Nat /\ waiting'[writer] \in Nat /\ waiting'[writer] > 0
      /\ waiting'[writer] <= Dwell - 1
  <2>1. /\ waiting[writer] \in Nat /\ waiting'[writer] \in Nat /\ waiting'[writer] > 0
        /\ waiting'[writer] <= waiting[writer] + 1
    BY <1>1, <1>3, <1>4, Count
  <2> QED BY <1>4, <1>5, <2>1
<1>7. ASSUME NEW m \in Packs, m = writer PROVE First(m)'
  <2>1. ASSUME NEW d \in Packs, waiting'[d] > 0 PROVE m <= d
    <3>1. Asked(d)
      BY <1>1, <2>1, Count
    <3> QED BY <1>3, <1>7, <3>1, Counted
  <2>2. waiting'[m] > 0
    BY <1>6, <1>7
  <2> QED BY <2>1, <2>2 DEF First
<1>8. waiting'[b] <= waiting'[writer] + (Dwell - 1) * (b - writer)
  <2>1. b \in Nat /\ writer \in Nat /\ N \in Nat
    BY <1>4, NAssumption DEF Packs
  <2>2. (Dwell - 1) * (b - writer) \in Nat
    <3>1. Dwell - 1 \in Nat /\ b - writer \in Nat
      BY <1>4, <1>5, <2>1
    <3> QED BY <3>1
  <2>3. CASE b = writer
    BY <1>6, <2>2, <2>3
  <2>4. CASE waiting'[b] <= 1
    BY <1>3, <1>6, <2>2, <2>4
  <2>5. CASE b # writer /\ waiting'[b] > 1
    <3>1. waiting[b] > 0 /\ waiting'[b] <= waiting[b] + 1 /\ ~TakenOver(b)
      <4>1. waiting'[b] <= waiting[b] + 1 /\ (TakenOver(b) => waiting'[b] = 1)
        BY <1>1, <1>2, Count
      <4> QED BY <1>3, <2>5, <4>1
    <3>2. PICK c \in Packs : /\ First(c) /\ waiting[c] <= Dwell - 1
                             /\ waiting[b] <= waiting[c] + (Dwell - 1) * (b - c)
      BY <1>1, <3>1 DEF Waits
    <3>3. waiting[c] > 0 /\ c <= b
      BY <3>1, <3>2 DEF First
    <3>4. Asked(c)
      BY <2>5, <3>1, <3>3 DEF TakenOver
    <3>5. writer <= c /\ c \in Nat
      BY <1>3, <3>4, NAssumption, Counted DEF Packs
    <3>6. waiting[c] \in Nat
      BY <1>1, Count
    <3>7. CASE writer = c
      <4>1. ~TakenOver(writer)
        BY DEF TakenOver
      <4>2. waiting'[writer] = waiting[writer] + 1
        BY <1>1, <1>3, <1>4, <3>2, <3>7, <4>1, Count
      <4>3. waiting[b] <= waiting[writer] + (Dwell - 1) * (b - writer)
        BY <3>2, <3>7
      <4> QED BY <1>3, <1>6, <2>2, <3>1, <4>2, <4>3
    <3>8. CASE writer < c
      <4>1. /\ (Dwell - 1) * (b - c) \in Nat
            /\ (Dwell - 1) + (Dwell - 1) * (b - c) <= (Dwell - 1) * (b - writer)
        BY <1>4, <3>3, <3>8, DwellsApart
      <4>2. Dwell - 1 \in Nat
        BY <1>5
      <4> QED BY <1>3, <1>6, <2>2, <3>1, <3>2, <3>6, <4>1, <4>2
    <3> QED BY <2>1, <3>5, <3>7, <3>8
  <2>6. waiting'[b] <= 1 \/ waiting'[b] > 1
    BY <1>3
  <2> QED BY <2>3, <2>4, <2>5, <2>6, Zenon
<1>9. PICK m \in Packs : m = writer
  BY <1>4
<1>10. First(m)' /\ waiting'[m] <= Dwell - 1 /\ waiting'[b] <= waiting'[m] + (Dwell - 1) * (b - m)
  BY <1>6, <1>7, <1>8, <1>9
<1> QED BY <1>10

LEMMA EndHold ==
  ASSUME IInv, IInv', HInv, Settle \/ SettleInstead
  PROVE  HInv'
<1>1. TypeOK /\ CycleOK /\ Between /\ Sales /\ Told /\ EndCycle
  BY DEF IInv, HInv, Settle, SettleInstead
<1>2. /\ todo' = {} /\ settling' = FALSE /\ want' = [c \in Packs |-> Silent] /\ saleSent' = {}
      /\ withheld' = [c \in Packs |-> None] /\ observer' = observer /\ liftTried' = liftTried
      /\ CountWaiting /\ CountCapped
      /\ streak' = [c \in Packs |-> IF intent[c] = "limit" THEN streak[c] ELSE 0]
  BY <1>1 DEF EndCycle
<1>3. Between'
  <2>1. observer => \A c \in Packs : waiting'[c] = 0 /\ capped'[c] = 0
    BY <1>2 DEF CountWaiting, CountCapped
  <2> QED BY <1>2, <2>1 DEF Between
<1>4. Sales'
  <2>1. ASSUME NEW c \in Packs PROVE capped'[c] <= 1 /\ (capped'[c] = 1 => ~liftTried[c])
    <3>1. capped[c] \in 0 .. 2 /\ capped[c] <= 1
      BY <1>1 DEF TypeOK, Sales
    <3>2. capped'[c] = IF /\ c = writer /\ c \in saleSent /\ ~failed /\ ~observer
                          /\ record[c] \in 0 .. MaxW - 1
                       THEN Min2(capped[c] + 1, 2) ELSE 0
      BY <1>2 DEF CountCapped
    <3>3. CASE c \in saleSent /\ record[c] \in 0 .. MaxW - 1
      <4>1. OwnLimitHeld(c)
        BY <3>3, WattAssumption DEF OwnLimitHeld
      <4>2. ~liftTried[c] /\ capped[c] # 1
        BY <1>1, <3>3, <4>1 DEF Sales
      <4>3. Min2(capped[c] + 1, 2) = 1
        BY <3>1, <4>2 DEF Min2
      <4>4. capped'[c] \in {0, 1}
        BY <3>2, <4>3
      <4> QED BY <4>2, <4>4
    <3>4. CASE ~(c \in saleSent /\ record[c] \in 0 .. MaxW - 1)
      BY <3>2, <3>4
    <3> QED BY <3>3, <3>4
  <2> QED BY <1>2, <2>1 DEF Sales
<1>5. Worn'
  <2>1. SUFFICES ASSUME NEW c \in Packs, intent'[c] = "limit" PROVE waiting'[c] <= streak'[c]
    BY DEF Worn
  <2>2. /\ waiting[c] \in Nat /\ waiting'[c] \in Nat /\ waiting'[c] <= waiting[c] + 1
        /\ streak[c] \in Nat /\ streak'[c] \in Nat
    <3>1. streak[c] \in Nat /\ streak'[c] \in Nat
      BY CountAssumption DEF IInv, TypeOK
    <3> QED BY <1>1, <3>1, Count
  <2>3. CASE waiting'[c] = 0
    BY <2>2, <2>3
  <2>4. CASE waiting'[c] > 0
    <3>1. Asked(c) /\ Clean /\ limit > 0 /\ ~observer
      BY <1>1, <2>4, Count
    <3>2. /\ writer \in Packs /\ Effective = writer /\ ~Instead /\ record[writer] # 0
          /\ \/ intent[c] = "limit" /\ withheld[c] = None /\ waiting[c] + 1 <= streak[c]
             \/ withheld[c] = 0
      BY <1>1, <3>1, Counted
    <3>3. Follow(record[writer]) /\ writer # NoPack
      BY <3>2, PacksNotEmpty DEF Settle, SettleInstead
    <3>4. ~(intent[c] = "limit" /\ withheld[c] \notin {None, record[writer]})
      BY <2>1, <3>3 DEF Follow
    <3>5. intent[c] = "limit"
      BY <2>1, <3>3 DEF Follow
    <3>6. withheld[c] # 0
      BY <3>2, <3>4, <3>5 DEF None
    <3>7. streak'[c] = streak[c] /\ waiting[c] + 1 <= streak[c]
      BY <1>2, <3>2, <3>5, <3>6
    <3> QED BY <2>2, <3>7
  <2> QED BY <2>2, <2>3, <2>4
<1>6. Told'
  <2>1. \A c \in Packs : ~Asked(c)'
    BY <1>2 DEF Asked, Silent, Plain, Limit
  <2> QED BY <2>1 DEF Told
<1>7. Waits'
  BY <1>1, EndWaits
<1> QED BY <1>3, <1>4, <1>5, <1>6, <1>7 DEF HInv

-----------------------------------------------------------------------------
(* The other steps, and the two invariants *)

LEMMA BeginHold == ASSUME IInv, HInv, Begin PROVE HInv'
<1>1. AtRest /\ ~observer /\ Between /\ Sales /\ Worn /\ Waits
  BY DEF HInv, Begin
<1>2. /\ todo' = Packs /\ Packs # {} /\ intent' = intent /\ liftTried' = liftTried /\ streak' = streak
      /\ record' = record /\ saleSent' = saleSent /\ withheld' = withheld /\ observer' = observer
      /\ waiting' = waiting /\ capped' = capped /\ writer' \in Packs \cup {NoPack}
  <2>1. writer' \in Packs \cup {NoPack}
    BY BeginTyped DEF IInv, TypeOK
  <2> QED BY <2>1, PacksNotEmpty DEF Begin, pack
<1>3. saleSent = {} /\ ~AtRest' /\ \A b \in Packs : withheld[b] = None
  BY <1>1, <1>2 DEF Between, AtRest
<1>4. Between'
  BY <1>1, <1>2, <1>3 DEF Between
<1>5. Sales' /\ Worn'
  BY <1>1, <1>2, <1>3 DEF Sales, Worn
<1>6. Told' /\ Waits'
  BY <1>1, <1>2 DEF Told, Waits, First
<1> QED BY <1>4, <1>5, <1>6 DEF HInv

LEMMA UnloadHold == ASSUME IInv, HInv, Unload PROVE HInv'
<1>1. TypeOK /\ Between /\ Sales
  BY DEF IInv, HInv
<1>2. /\ todo = {} /\ observer' = TRUE
      /\ \A b \in Packs : waiting'[b] = 0 /\ capped'[b] = 0
      /\ intent' = intent /\ liftTried' = liftTried /\ streak' = streak
      /\ todo' = todo /\ settling' = settling /\ want' = want /\ saleSent' = saleSent /\ withheld' = withheld
      /\ writer' = writer
  BY DEF Unload, pack, cycle
<1>3. Between'
  BY <1>1, <1>2 DEF Between, AtRest
<1>4. Sales'
  <2>1. \A b \in saleSent' : b \in Packs
    BY <1>1, <1>2 DEF TypeOK
  <2> QED BY <1>1, <1>2, <2>1 DEF Sales
<1>5. Worn'
  <2>1. \A b \in Packs : streak'[b] >= 0
    BY <1>1, <1>2, CountAssumption DEF TypeOK
  <2> QED BY <1>2, <2>1 DEF Worn
<1>6. Told' /\ Waits'
  BY <1>2 DEF Told, ClearRun, Waits
<1> QED BY <1>3, <1>4, <1>5, <1>6 DEF HInv

\* With the observer on nobody waits and no sale counts.
LEMMA HandOverHold == ASSUME IInv, HInv, HandOver PROVE HInv'
<1>1. TypeOK /\ CycleOK /\ Between /\ Sales /\ observer /\ todo = {}
  BY DEF IInv, HInv, CycleOK, HandOver
<1>2. /\ todo' = todo /\ settling' = settling /\ want' = want /\ writer' = writer /\ observer' = observer
      /\ waiting' = waiting /\ capped' = capped /\ streak' = streak
  BY DEF HandOver
<1>3. withheld' = withheld /\ liftTried' = liftTried /\ saleSent' = saleSent
  <2>. DEFINE b == Next1(release)
  <2>1. b \in Packs
    BY <1>1, NextIsPack DEF HandOver
  <2>2. Normal(b, "normal") \/ UNCHANGED <<liftTried, saleSent, withheld>>
    BY DEF HandOver
  <2>. HIDE DEF b
  <2>3. ASSUME Normal(b, "normal") PROVE withheld' = withheld
    <3>1. ~Marked(b)
      BY <1>1 DEF Marked
    <3>2. NoLimitWrite \/ ApplyLimit(b, MaxW)
      BY <2>3 DEF Normal, ClearsOrphan, StopsSale
    <3> QED BY <3>1, <3>2 DEF NoLimitWrite, ApplyLimit
  <2>4. ASSUME Normal(b, "normal") PROVE liftTried' = liftTried /\ saleSent' = saleSent
    BY <1>1, <2>1, <2>4, NormalOthers
  <2> QED BY <2>2, <2>3, <2>4
<1>4. Between'
  BY <1>1, <1>2, <1>3 DEF Between, AtRest
<1>5. \A b \in Packs : waiting[b] = 0 /\ capped[b] = 0 /\ streak[b] >= 0
  BY <1>1, CountAssumption DEF Between, TypeOK
<1>6. Sales'
  <2>1. saleSent \subseteq Packs
    BY <1>1 DEF TypeOK
  <2> QED BY <1>1, <1>2, <1>3, <1>5, <2>1 DEF Sales
<1>7. Worn' /\ Told' /\ Waits'
  BY <1>1, <1>2, <1>5 DEF Worn, Told, ClearRun, Waits
<1> QED BY <1>4, <1>6, <1>7 DEF HInv

LEMMA ReloadHold == ASSUME IInv, HInv, Reload PROVE HInv'
<1>1. TypeOK /\ CycleOK /\ Between /\ AtRest /\ observer
  BY DEF IInv, HInv, Reload
<1>2. /\ todo' = todo /\ settling' = settling /\ want' = want /\ writer' = writer
      /\ withheld' = withheld /\ saleSent' = saleSent /\ waiting' = waiting /\ capped' = capped
      /\ intent' = [b \in Packs |-> "other"] /\ liftTried' = [b \in Packs |-> FALSE]
      /\ observer' = FALSE
  BY DEF Reload, cycle
<1>3. /\ todo = {} /\ saleSent = {} /\ want = [b \in Packs |-> Silent]
      /\ \A b \in Packs : waiting[b] = 0 /\ capped[b] = 0
  BY <1>1 DEF Between, AtRest
<1>4. Between' /\ Sales'
  BY <1>1, <1>2, <1>3 DEF Between, Sales, AtRest
<1>5. \A b \in Packs : ~Asked(b)'
  BY <1>2, <1>3 DEF Asked, Silent, Plain, Limit
<1>6. Worn' /\ Told' /\ Waits'
  BY <1>2, <1>3, <1>5 DEF Worn, Told, Waits
<1> QED BY <1>4, <1>6 DEF HInv

LEMMA StutterHold == ASSUME HInv, UNCHANGED vars PROVE HInv'
<1>1. /\ todo' = todo /\ settling' = settling /\ want' = want /\ writer' = writer
      /\ withheld' = withheld /\ saleSent' = saleSent /\ waiting' = waiting /\ capped' = capped
      /\ intent' = intent /\ liftTried' = liftTried /\ observer' = observer /\ streak' = streak
      /\ record' = record /\ limit' = limit /\ stopped' = stopped /\ failed' = failed
  BY DEF vars, pack, cycle
<1>2. Between' /\ Sales' /\ Worn'
  BY <1>1 DEF HInv, Between, Sales, Worn, AtRest, OwnLimitHeld
<1>3. Told' /\ Waits'
  BY <1>1 DEF HInv, Told, Waits, First, Asked, ClearRun, Clean
<1> QED BY <1>2, <1>3 DEF HInv

LEMMA HoldInductive == SpecUnload => []HInv
<1>1. IInv /\ IInv' /\ HInv /\ [NextUnload]_vars => HInv'
  BY StepCases, BeginHold, SendHold, EndHold, UnloadHold, HandOverHold, ReloadHold, StutterHold, Zenon
<1> QED BY <1>1, HoldInit, Inductive, PTL DEF SpecUnload

\* A 0 W hold that is asked again and again reaches the entity within one lowering dwell per
\* pack that shares it, for any number of packs, any dwell, whatever the others ask, whichever
\* writes are refused and with unloads in between.
THEOREM HoldsLand == SpecUnload => []HoldLands
<1>1. IInv /\ HInv => HoldLands
  <2>1. SUFFICES ASSUME IInv, HInv, NEW b \in Packs PROVE waiting[b] <= N * (Dwell - 1)
    BY DEF HoldLands
  <2>. DEFINE e == Dwell - 1
  <2>2. e \in Nat /\ N \in Nat /\ b \in Nat /\ b <= N /\ waiting[b] \in Nat
    <3>1. waiting[b] \in 0 .. N * Dwell /\ N * Dwell \in Nat
      BY <2>1, NAssumption, CountAssumption DEF IInv, TypeOK
    <3> QED BY <3>1, NAssumption, CountAssumption DEF Packs
  <2>3. e = Dwell - 1
    OBVIOUS
  <2>. HIDE DEF e
  <2>4. CASE waiting[b] = 0
    <3>1. N * e \in Nat
      BY <2>2
    <3> QED BY <2>3, <2>4, <3>1
  <2>5. CASE waiting[b] # 0
    <3>1. PICK c \in Packs : waiting[c] <= e /\ waiting[b] <= waiting[c] + e * (b - c) /\ First(c)
      BY <2>1, <2>2, <2>3, <2>5 DEF HInv, Waits
    <3>2. waiting[c] \in Nat /\ c \in Nat /\ 1 <= c /\ c <= b
      <4>1. waiting[c] \in 0 .. N * Dwell /\ N * Dwell \in Nat
        BY <2>1, NAssumption, CountAssumption DEF IInv, TypeOK
      <4>2. c <= b
        BY <2>2, <2>5, <3>1 DEF First
      <4> QED BY <4>1, <4>2, NAssumption DEF Packs
    <3>. DEFINE k == b - c
    <3>3. k \in Nat /\ k + 1 <= N
      BY <2>2, <3>2
    <3>4. waiting[b] <= waiting[c] + e * k
      BY <3>1
    <3>. HIDE DEF k
    <3>5. e * (k + 1) <= e * N /\ e * (k + 1) = e * k + e /\ e * N = N * e /\ e * k \in Nat /\ e * N \in Nat
      BY <2>2, <3>3
    <3>6. waiting[b] <= N * e
      BY <2>2, <3>1, <3>2, <3>4, <3>5
    <3> QED BY <2>3, <3>6
  <2> QED BY <2>4, <2>5
<1> QED BY <1>1, Inductive, HoldInductive, PTL

\* A sale is not held back by SEM's own limit for more than one cycle running, whatever is asked of
\* the other packs in between.
THEOREM SalesAreNotCapped == SpecUnload => []SaleNotCapped
<1>1. HInv => SaleNotCapped
  BY DEF HInv, Sales, SaleNotCapped
<1> QED BY <1>1, HoldInductive, PTL
==============================================================================
