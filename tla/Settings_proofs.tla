---------------------------- MODULE Settings_proofs ----------------------------
(***************************************************************************)
(* Theorems about the persistent settings, for any number of concurrent    *)
(* handlers, any latch profiles, any configurations the process is started *)
(* with and any failing store calls: what is in use is valid for the       *)
(* configuration of this run, reached the table, and was asked for while   *)
(* its profile was active; and it is what a restart restores, but for      *)
(* requests that overlap.                                                  *)
(*                                                                         *)
(* The invariant carries each fact along the way a value takes: from a     *)
(* request (InFlight) to the table (Tables), from the table to what the    *)
(* loading holds in its hand (InHand), and from both to memory.            *)
(***************************************************************************)
EXTENDS Settings, FiniteSetTheorems, SequenceTheorems, TLAPS

-----------------------------------------------------------------------------
(* Keys, and the order in which they are loaded.                           *)

LEMMA KeyKinds ==
    /\ PowerKey \in Keys /\ ProfileKey \in Keys
    /\ \A p \in LatchProfiles : ThresholdKey(p) \in Keys /\ TargetKey(p) \in Keys
    /\ \A k \in Keys : \/ k \in {PowerKey, ProfileKey}
                       \/ \E p \in LatchProfiles : k \in {ThresholdKey(p), TargetKey(p)}
BY DEF Keys

LEMMA TextKeys ==
    /\ IsText(PowerKey) /\ IsText(ProfileKey) /\ PowerKey # ProfileKey
    /\ Unset(PowerKey) = "" /\ Unset(ProfileKey) = ""
<1>1. PowerKey \in Seq({"charge_power"}) /\ ProfileKey \in Seq({"auto_profile"})
  BY DEF PowerKey, ProfileKey
<1>2. Len(PowerKey) = 1 /\ Len(ProfileKey) = 1
  BY DEF PowerKey, ProfileKey
<1> QED
  BY <1>1, <1>2 DEF IsText, Unset, PowerKey, ProfileKey

(* A profile is not the other, nor one setting the other.                  *)
LEMMA NumberKeys ==
    ASSUME NEW p \in LatchProfiles
    PROVE  /\ ThresholdKey(p) \notin {PowerKey, ProfileKey}
           /\ TargetKey(p) \notin {PowerKey, ProfileKey}
           /\ Unset(ThresholdKey(p)) = 0 /\ Unset(TargetKey(p)) = 0
           /\ Default(ThresholdKey(p)) = 0 /\ Default(TargetKey(p)) = 0
           /\ ThresholdKey(p)[1] = "start_threshold" /\ TargetKey(p)[1] = "target_soc"
           /\ \A q \in LatchProfiles :
                 /\ ThresholdKey(p) # TargetKey(q)
                 /\ ThresholdKey(p) = ThresholdKey(q) => p = q
                 /\ TargetKey(p) = TargetKey(q) => p = q
<1>1. Len(ThresholdKey(p)) = 2 /\ Len(TargetKey(p)) = 2
  BY DEF ThresholdKey, TargetKey
<1>2. /\ ThresholdKey(p)[1] = "start_threshold" /\ ThresholdKey(p)[2] = p
      /\ TargetKey(p)[1] = "target_soc" /\ TargetKey(p)[2] = p
  BY DEF ThresholdKey, TargetKey
<1>3. /\ ThresholdKey(p) \notin {PowerKey, ProfileKey}
      /\ TargetKey(p) \notin {PowerKey, ProfileKey}
  <2>1. ~IsText(ThresholdKey(p)) /\ ~IsText(TargetKey(p))
    BY <1>1 DEF IsText
  <2>2. IsText(PowerKey) /\ IsText(ProfileKey)
    BY TextKeys
  <2>3. \A k : k \in {PowerKey, ProfileKey} => IsText(k)
    BY <2>2
  <2> QED
    BY <2>1, <2>3
<1>4. Unset(ThresholdKey(p)) = 0 /\ Unset(TargetKey(p)) = 0
  BY <1>1 DEF Unset, IsText
<1>5. Default(ThresholdKey(p)) = 0 /\ Default(TargetKey(p)) = 0
  BY <1>3 DEF Default
<1>6. ASSUME NEW q \in LatchProfiles
      PROVE  /\ ThresholdKey(p) # TargetKey(q)
             /\ ThresholdKey(p) = ThresholdKey(q) => p = q
             /\ TargetKey(p) = TargetKey(q) => p = q
  <2>1. /\ TargetKey(q)[1] = "target_soc" /\ ThresholdKey(q)[2] = q
        /\ TargetKey(q)[2] = q
    BY DEF ThresholdKey, TargetKey
  <2>2. "target_soc" # "start_threshold"
    OBVIOUS
  <2>3. ThresholdKey(p) # TargetKey(q)
    BY <1>2, <2>1, <2>2
  <2> QED
    BY <1>2, <2>1, <2>3
<1>7. \A q \in LatchProfiles :
         /\ ThresholdKey(p) # TargetKey(q)
         /\ ThresholdKey(p) = ThresholdKey(q) => p = q
         /\ TargetKey(p) = TargetKey(q) => p = q
  BY <1>6
<1> QED
  BY <1>2, <1>3, <1>4, <1>5, <1>7

(* What Valid says of each kind of key.                                    *)
LEMMA ValidKinds ==
    ASSUME NEW v, NEW w
    PROVE  /\ Valid(PowerKey, v, w) <=> v \in {"pv", "now"}
           /\ Valid(ProfileKey, v, w) <=> v \in LatchProfiles \cup {"surplus"}
           /\ \A p \in LatchProfiles :
                 /\ Valid(ThresholdKey(p), v, w) <=> v > 0 /\ v % 100 = 0 /\ v > w
                 /\ Valid(TargetKey(p), v, w) <=> v \in 50..100 /\ v % 10 = 0
<1>1. /\ PowerKey[1] = "charge_power" /\ ProfileKey[1] = "auto_profile"
      /\ PowerKey # ProfileKey
  BY TextKeys DEF PowerKey, ProfileKey
<1>2. Valid(PowerKey, v, w) <=> v \in {"pv", "now"}
  BY <1>1 DEF Valid
<1>3. Valid(ProfileKey, v, w) <=> v \in LatchProfiles \cup {"surplus"}
  BY <1>1 DEF Valid
<1>4. ASSUME NEW p \in LatchProfiles
      PROVE  /\ Valid(ThresholdKey(p), v, w) <=> v > 0 /\ v % 100 = 0 /\ v > w
             /\ Valid(TargetKey(p), v, w) <=> v \in 50..100 /\ v % 10 = 0
  BY NumberKeys DEF Valid
<1> QED
  BY <1>2, <1>3, <1>4

(* A valid value is not the absence of one.                                *)
LEMMA ValidIsSet ==
    ASSUME NEW k \in Keys, NEW v, NEW w, Valid(k, v, w)
    PROVE  v # Unset(k)
<1>1. CASE k = PowerKey
  <2>1. v \in {"pv", "now"} /\ Unset(k) = ""
    BY <1>1, TextKeys, ValidKinds
  <2> QED
    BY <2>1
<1>2. CASE k = ProfileKey
  <2>1. v \in LatchProfiles \cup {"surplus"} /\ Unset(k) = ""
    BY <1>2, TextKeys, ValidKinds
  <2> QED
    BY <2>1, SettingsConstants
<1>3. ASSUME NEW p \in LatchProfiles, k = ThresholdKey(p) PROVE v # Unset(k)
  <2>1. v > 0 /\ Unset(k) = 0
    BY <1>3, NumberKeys, ValidKinds
  <2> QED
    BY <2>1
<1>4. ASSUME NEW p \in LatchProfiles, k = TargetKey(p) PROVE v # Unset(k)
  <2>1. v \in 50..100 /\ Unset(k) = 0
    BY <1>4, NumberKeys, ValidKinds
  <2> QED
    BY <2>1
<1> QED
  BY <1>1, <1>2, <1>3, <1>4, KeyKinds

(* Every setting is loaded.                                                *)
LEMMA LoadOrderCovers ==
    /\ LoadOrder \in Seq(Keys)
    /\ \A k \in Keys : \E i \in 1..Len(LoadOrder) : LoadOrder[i] = k
<1> DEFINE n == Cardinality(LatchProfiles)
           texts == <<PowerKey, ProfileKey>>
           thresholds == [i \in DOMAIN LatchOrder |-> ThresholdKey(LatchOrder[i])]
           targets == [i \in DOMAIN LatchOrder |-> TargetKey(LatchOrder[i])]
<1>1. /\ n \in Nat /\ LatchOrder \in [1..n -> LatchProfiles]
      /\ \A p \in LatchProfiles : \E i \in 1..n : LatchOrder[i] = p
  <2>1. n \in Nat /\ ExistsBijection(1..n, LatchProfiles)
    BY SettingsConstants, FS_CardinalityType
  <2>2. PICK f : f \in [1..n -> LatchProfiles]
                 /\ \A p \in LatchProfiles : \E i \in 1..n : f[i] = p
    BY <2>1 DEF ExistsBijection, Bijection, Surjection
  <2>3. DOMAIN f = 1..n
    BY <2>2
  <2>4. \E s \in [1..n -> LatchProfiles] :
           \A p \in LatchProfiles : \E i \in DOMAIN s : s[i] = p
    BY <2>2, <2>3
  <2>5. /\ LatchOrder \in [1..n -> LatchProfiles]
        /\ \A p \in LatchProfiles : \E i \in DOMAIN LatchOrder : LatchOrder[i] = p
    BY <2>4 DEF LatchOrder
  <2> QED
    BY <2>1, <2>5
<1>2. DOMAIN LatchOrder = 1..n
  BY <1>1
<1>3. texts \in Seq(Keys) /\ Len(texts) = 2
      /\ texts[1] = PowerKey /\ texts[2] = ProfileKey
  BY KeyKinds
<1>4. thresholds \in Seq(Keys) /\ Len(thresholds) = n
      /\ \A i \in 1..n : thresholds[i] = ThresholdKey(LatchOrder[i])
  <2>1. thresholds \in [1..n -> Keys]
    BY <1>1, <1>2, KeyKinds
  <2> QED
    BY <1>1, <1>2, <2>1, SeqDef, LenProperties
<1>5. targets \in Seq(Keys) /\ Len(targets) = n
      /\ \A i \in 1..n : targets[i] = TargetKey(LatchOrder[i])
  <2>1. targets \in [1..n -> Keys]
    BY <1>1, <1>2, KeyKinds
  <2> QED
    BY <1>1, <1>2, <2>1, SeqDef, LenProperties
<1> HIDE DEF texts, thresholds, targets, n
<1> DEFINE front == texts \o thresholds
<1>6. /\ front \in Seq(Keys) /\ Len(front) = 2 + n
      /\ front[1] = PowerKey /\ front[2] = ProfileKey
      /\ \A i \in 1..n : front[2 + i] = ThresholdKey(LatchOrder[i])
  <2>1. /\ front \in Seq(Keys) /\ Len(front) = Len(texts) + Len(thresholds)
        /\ \A i \in 1..Len(texts) + Len(thresholds) :
              front[i] = IF i <= Len(texts) THEN texts[i] ELSE thresholds[i - Len(texts)]
    BY <1>3, <1>4, ConcatProperties
  <2> HIDE DEF front
  <2>2. Len(front) = 2 + n /\ front[1] = PowerKey /\ front[2] = ProfileKey
    BY <1>1, <1>3, <1>4, <2>1
  <2>3. ASSUME NEW i \in 1..n PROVE front[2 + i] = ThresholdKey(LatchOrder[i])
    <3>1. 2 + i \in 1..(2 + n) /\ ~(2 + i <= 2) /\ (2 + i) - 2 = i
      BY <1>1
    <3> QED
      BY <1>3, <1>4, <2>1, <3>1
  <2> QED
    BY <2>1, <2>2, <2>3
<1> HIDE DEF front
<1>7. LoadOrder = front \o targets
  BY DEF LoadOrder, front, texts, thresholds, targets
<1>8. /\ LoadOrder \in Seq(Keys) /\ Len(LoadOrder) = 2 + n + n
      /\ \A i \in 1..(2 + n) : LoadOrder[i] = front[i]
      /\ \A i \in 1..n : LoadOrder[2 + n + i] = TargetKey(LatchOrder[i])
  <2>1. /\ LoadOrder \in Seq(Keys) /\ Len(LoadOrder) = Len(front) + Len(targets)
        /\ \A i \in 1..Len(front) + Len(targets) :
              LoadOrder[i] = IF i <= Len(front) THEN front[i] ELSE targets[i - Len(front)]
    BY <1>5, <1>6, <1>7, ConcatProperties
  <2>2. ASSUME NEW i \in 1..(2 + n) PROVE LoadOrder[i] = front[i]
    <3>1. i \in 1..(2 + n + n) /\ i <= 2 + n
      BY <1>1
    <3> QED
      BY <1>5, <1>6, <2>1, <3>1
  <2>3. ASSUME NEW i \in 1..n PROVE LoadOrder[2 + n + i] = TargetKey(LatchOrder[i])
    <3>1. 2 + n + i \in 1..(2 + n + n) /\ ~(2 + n + i <= 2 + n)
          /\ (2 + n + i) - (2 + n) = i
      BY <1>1
    <3> QED
      BY <1>5, <1>6, <2>1, <3>1
  <2> QED
    BY <1>5, <1>6, <2>1, <2>2, <2>3
<1>9. ASSUME NEW k \in Keys PROVE \E i \in 1..Len(LoadOrder) : LoadOrder[i] = k
  <2>1. CASE k \in {PowerKey, ProfileKey}
    <3>1. {1, 2} \subseteq 1..(2 + n) /\ {1, 2} \subseteq 1..(2 + n + n)
      BY <1>1
    <3> QED
      BY <1>6, <1>8, <2>1, <3>1
  <2>2. CASE \E p \in LatchProfiles : k \in {ThresholdKey(p), TargetKey(p)}
    <3>1. PICK p \in LatchProfiles : k \in {ThresholdKey(p), TargetKey(p)}
      BY <2>2
    <3>2. PICK i \in 1..n : LatchOrder[i] = p
      BY <1>1
    <3>3. 2 + i \in 1..(2 + n) /\ 2 + i \in 1..(2 + n + n) /\ 2 + n + i \in 1..(2 + n + n)
      BY <1>1
    <3>4. LoadOrder[2 + i] = ThresholdKey(p) /\ LoadOrder[2 + n + i] = TargetKey(p)
      BY <1>6, <1>8, <3>2, <3>3
    <3> QED
      BY <1>8, <3>1, <3>3, <3>4
  <2> QED
    BY <2>1, <2>2, KeyKinds
<1> QED
  BY <1>8, <1>9

-----------------------------------------------------------------------------
(* The invariant.                                                          *)

Values == PowerRequests \cup ProfileRequests \cup ThresholdRequests
          \cup TargetRequests \cup {"", 0, DefaultPower, DefaultProfile}
Setters == [at : {"validated", "persisted"}, key : Keys, value : Values]

Types ==
    /\ db \in [Keys -> Values] /\ mem \in [Keys -> Values]
    /\ stop \in StopThresholds
    /\ loading \in Seq(Keys) /\ Len(loading) =< Len(LoadOrder)
    /\ found = NoValue \/ (loading # <<>> /\ found \in {<<v>> : v \in Values})
    /\ call \in [Handlers -> Setters \cup {NoCall}]
    /\ stored \in [Keys -> SUBSET Values] /\ asked \in [LatchProfiles -> SUBSET Values]
    /\ excused \in BOOLEAN /\ boots \in 1..MaxBoots /\ requests \in 0..MaxRequests

(* A value of a latch profile's setting was asked for under that profile.  *)
Own(k, v) == \A p \in LatchProfiles :
    k \in {ThresholdKey(p), TargetKey(p)} => v \in {0} \cup asked[p]
Traced(k, v) == v \in stored[k] /\ Own(k, v)

InTable == \A k \in Keys : db[k] = Unset(k) \/ Traced(k, db[k])
InMemory == \A k \in Keys : \/ mem[k] = Default(k)
                            \/ Valid(k, mem[k], stop) /\ Traced(k, mem[k])
InHand == found # NoValue =>
    Valid(Head(loading), found[1], stop) /\ Traced(Head(loading), found[1])
InFlight == \A h \in Handlers : call[h] # NoCall =>
    /\ Valid(call[h].key, call[h].value, stop) /\ Own(call[h].key, call[h].value)
    /\ call[h].at = "persisted" => call[h].value \in stored[call[h].key]

(* While requests do not overlap: only a setting still to be loaded, or    *)
(* one whose request is between the table and memory, differs from what a  *)
(* restart would bring back.                                               *)
Remains(k) == \E i \in 1..Len(loading) : loading[i] = k
Written(k) == \E h \in Handlers : call[h].at = "persisted" /\ call[h].key = k
Alone == /\ loading # <<>> => \A h \in Handlers : call[h] = NoCall
         /\ \A g, h \in Handlers : call[g] # NoCall /\ call[h] # NoCall => g = h
Following ==
    /\ found # NoValue => found[1] = db[Head(loading)]
    /\ \A h \in Handlers : call[h].at = "persisted" => db[call[h].key] = call[h].value
    /\ \A k \in Keys : \/ mem[k] = Restored(k) \/ Written(k)
                       \/ Remains(k) /\ mem[k] = Default(k)

IInv == /\ Types /\ InTable /\ InMemory /\ InHand /\ InFlight
        /\ ~excused => Alone /\ Following

-----------------------------------------------------------------------------
(* Facts the steps share.                                                  *)

LEMMA CallKinds ==
    ASSUME NEW c \in Setters \cup {NoCall}
    PROVE  /\ c # NoCall <=> c \in Setters
           /\ c.at = "validated" \/ c.at = "persisted" <=> c # NoCall
           /\ c \in Setters => c.key \in Keys /\ c.value \in Values
<1>1. NoCall.at = "idle"
  BY DEF NoCall
<1>2. c \in Setters => c.at \in {"validated", "persisted"}
  BY DEF Setters
<1> QED
  BY <1>1, <1>2 DEF Setters

(* Histories only grow, and with them what is traced.                      *)
LEMMA OwnGrows ==
    ASSUME NEW k \in Keys, NEW v, \A p \in LatchProfiles : asked[p] \subseteq asked'[p]
    PROVE  Own(k, v) => Own(k, v)'
BY DEF Own

LEMMA TracedGrows ==
    ASSUME NEW k \in Keys, NEW v, stored[k] \subseteq stored'[k],
           \A p \in LatchProfiles : asked[p] \subseteq asked'[p]
    PROVE  Traced(k, v) => Traced(k, v)'
BY OwnGrows DEF Traced

(* With the table and the configuration, so does what a restart restores.  *)
LEMMA RestoredKept ==
    ASSUME NEW k \in Keys, db'[k] = db[k], stop' = stop
    PROVE  Restored(k)' = Restored(k)
BY DEF Restored

LEMMA Bounds == MaxBoots \in Nat /\ MaxBoots >= 1 /\ MaxRequests \in Nat
<1>1. MaxBoots \in Nat \ {0} /\ MaxRequests \in Nat
  BY SettingsConstants
<1> QED
  BY <1>1

LEMMA Start == Init => IInv
<1> SUFFICES ASSUME Init PROVE IInv
  OBVIOUS
<1> USE DEF Init
<1>1. \A k \in Keys : Default(k) \in Values /\ Unset(k) \in Values
  BY DEF Default, Unset, Values
<1>2. db \in [Keys -> Values] /\ mem \in [Keys -> Values]
  BY <1>1 DEF InitialMemory
<1>3. loading \in Seq(Keys) /\ Len(loading) =< Len(LoadOrder)
  BY LoadOrderCovers
<1>4. call \in [Handlers -> Setters \cup {NoCall}]
  OBVIOUS
<1>5. stored \in [Keys -> SUBSET Values] /\ asked \in [LatchProfiles -> SUBSET Values]
  OBVIOUS
<1>6. excused \in BOOLEAN /\ boots \in 1..MaxBoots /\ requests \in 0..MaxRequests
  <2>1. 1 \in 1..MaxBoots /\ 0 \in 0..MaxRequests
    BY Bounds
  <2> QED
    BY <2>1
<1>7. Types
  BY <1>2, <1>3, <1>4, <1>5, <1>6 DEF Types
<1>8. InTable /\ InMemory /\ InHand /\ InFlight
  BY DEF InTable, InMemory, InHand, InFlight, InitialMemory
<1>9. Alone
  BY DEF Alone
<1>10. Following
  <2>1. \A h \in Handlers : call[h].at # "persisted"
    BY DEF NoCall
  <2>2. \A k \in Keys : Remains(k) /\ mem[k] = Default(k)
    BY LoadOrderCovers DEF Remains, InitialMemory
  <2> QED
    BY <2>1, <2>2 DEF Following
<1> QED
  BY <1>7, <1>8, <1>9, <1>10 DEF IInv

(* Removing the head of what is still to be loaded.                        *)
LEMMA LoadsOne ==
    ASSUME Types, loading # <<>>
    PROVE  /\ Head(loading) \in Keys
           /\ Tail(loading) \in Seq(Keys) /\ Len(Tail(loading)) =< Len(LoadOrder)
           /\ loading' = Tail(loading) => \A k \in Keys :
                 Remains(k) => k = Head(loading) \/ Remains(k)'
<1>1. loading \in Seq(Keys) /\ Len(loading) =< Len(LoadOrder) /\ Len(LoadOrder) \in Nat
  BY LoadOrderCovers DEF Types
<1>2. /\ Head(loading) \in Keys /\ Head(loading) = loading[1]
      /\ Tail(loading) \in Seq(Keys) /\ Len(Tail(loading)) = Len(loading) - 1
      /\ \A i \in 1..(Len(loading) - 1) : Tail(loading)[i] = loading[i + 1]
  BY <1>1, HeadTailProperties
<1>3. Len(loading) \in Nat
  BY <1>1
<1>4. ASSUME loading' = Tail(loading), NEW k \in Keys, Remains(k), k # Head(loading)
      PROVE  Remains(k)'
  <2>1. PICK i \in 1..Len(loading) : loading[i] = k
    BY <1>4 DEF Remains
  <2>2. i - 1 \in 1..(Len(loading) - 1) /\ (i - 1) + 1 = i
    BY <1>2, <1>3, <1>4, <2>1
  <2>3. Tail(loading)[i - 1] = k
    BY <1>2, <2>1, <2>2
  <2> QED
    BY <1>2, <1>4, <2>2, <2>3 DEF Remains
<1> QED
  BY <1>1, <1>2, <1>3, <1>4

-----------------------------------------------------------------------------
(* The steps.                                                              *)

LEMMA LoadReadStep == IInv /\ LoadRead => IInv'
<1> SUFFICES ASSUME IInv, LoadRead PROVE IInv'
  OBVIOUS
<1> DEFINE k == Head(loading)
<1>1. /\ loading # <<>> /\ found = NoValue
      /\ UNCHANGED <<db, mem, stop, call, boots, requests, stored, asked>>
  BY DEF LoadRead
<1>2. /\ Types /\ InTable /\ InMemory /\ InFlight
      /\ ~excused => Alone /\ Following
  BY DEF IInv
<1>3. /\ k \in Keys /\ Tail(loading) \in Seq(Keys) /\ Len(Tail(loading)) =< Len(LoadOrder)
      /\ loading' = Tail(loading) => \A j \in Keys : Remains(j) => j = k \/ Remains(j)'
  BY <1>1, <1>2, LoadsOne
<1>4. /\ InTable' /\ InMemory' /\ InFlight'
      /\ \A j \in Keys : Restored(j)' = Restored(j) /\ (Written(j)' <=> Written(j))
  <2>1. InTable'
    BY <1>1, <1>2 DEF InTable, Traced, Own
  <2>2. InMemory'
    BY <1>1, <1>2 DEF InMemory, Traced, Own
  <2>3. InFlight'
    BY <1>1, <1>2 DEF InFlight, Own
  <2>4. \A j \in Keys : Restored(j)' = Restored(j) /\ (Written(j)' <=> Written(j))
    BY <1>1, RestoredKept DEF Written
  <2> QED
    BY <2>1, <2>2, <2>3, <2>4
<1>5. CASE /\ db[k] # Unset(k) /\ Valid(k, db[k], stop)
           /\ found' = <<db[k]>> /\ UNCHANGED <<loading, excused>>
  <2>1. Types'
    <3>1. db[k] \in Values
      BY <1>2, <1>3 DEF Types
    <3> QED
      BY <1>1, <1>2, <1>5, <3>1 DEF Types
  <2>2. InHand'
    <3>1. Traced(k, db[k])
      BY <1>2, <1>3, <1>5 DEF InTable
    <3>2. Traced(k, db[k])'
      BY <1>1, <1>5, <3>1 DEF Traced, Own
    <3> QED
      BY <1>1, <1>5, <3>2 DEF InHand
  <2>3. ASSUME ~excused' PROVE Alone' /\ Following'
    <3>1. Alone /\ Following
      BY <1>2, <1>5, <2>3
    <3>2. Alone'
      BY <1>1, <1>5, <3>1 DEF Alone
    <3>3. \A j \in Keys : Remains(j)' <=> Remains(j)
      BY <1>5 DEF Remains
    <3> QED
      BY <1>1, <1>4, <1>5, <3>1, <3>2, <3>3 DEF Following
  <2> QED
    BY <1>4, <2>1, <2>2, <2>3 DEF IInv
<1>6. CASE loading' = Tail(loading) /\ found' = found /\ excused' = TRUE
  <2>1. Types' /\ InHand'
    BY <1>1, <1>2, <1>3, <1>6 DEF Types, InHand
  <2> QED
    BY <1>4, <1>6, <2>1 DEF IInv
<1>7. CASE /\ ~(db[k] # Unset(k) /\ Valid(k, db[k], stop))
           /\ loading' = Tail(loading) /\ UNCHANGED <<found, excused>>
  <2>1. Types' /\ InHand'
    BY <1>1, <1>2, <1>3, <1>7 DEF Types, InHand
  <2>2. ASSUME ~excused' PROVE Alone' /\ Following'
    <3>1. Alone /\ Following
      BY <1>2, <1>7, <2>2
    <3>2. Alone'
      BY <1>1, <1>7, <3>1 DEF Alone
    <3>3. Restored(k) = Default(k)
      BY <1>7 DEF Restored
    <3>4. ASSUME NEW j \in Keys
          PROVE  \/ mem'[j] = Restored(j)' \/ Written(j)'
                 \/ Remains(j)' /\ mem'[j] = Default(j)
      BY <1>1, <1>3, <1>4, <1>7, <3>1, <3>3 DEF Following
    <3> QED
      BY <1>1, <1>7, <3>1, <3>2, <3>4 DEF Following
  <2> QED
    BY <1>4, <2>1, <2>2 DEF IInv
<1> QED
  BY <1>1, <1>5, <1>6, <1>7 DEF LoadRead

(* Memory takes a value that is valid and traced.                          *)
LEMMA MemoryWrite ==
    ASSUME Types, InMemory, NEW k \in Keys, NEW v \in Values,
           mem' = [mem EXCEPT ![k] = v], stop' = stop, stored' = stored,
           asked' = asked, Valid(k, v, stop), Traced(k, v)
    PROVE  InMemory'
<1>0. mem[k]' = v /\ \A j \in Keys : j # k => mem[j]' = mem[j]
  BY DEF Types
<1>1. \A j \in Keys : \A w : Traced(j, w) => Traced(j, w)'
  BY TracedGrows
<1>2. ASSUME NEW j \in Keys, j # k
      PROVE  \/ mem[j]' = Default(j)
             \/ Valid(j, mem[j]', stop') /\ Traced(j, mem[j])'
  <2>1. PICK w : w = mem[j] /\ w = mem[j]'
    BY <1>0, <1>2
  <2>2. mem[j] = Default(j) \/ (Valid(j, w, stop) /\ Traced(j, w))
    BY <2>1 DEF InMemory
  <2>3. Traced(j, w) => Traced(j, mem[j])'
    BY <1>1, <2>1 DEF Traced, Own
  <2> QED
    BY <2>1, <2>2, <2>3
<1>3. Valid(k, mem[k]', stop') /\ Traced(k, mem[k])'
  BY <1>0 DEF Traced, Own
<1>4. ASSUME NEW j \in Keys
      PROVE  \/ mem[j]' = Default(j)
             \/ Valid(j, mem[j]', stop') /\ Traced(j, mem[j])'
  BY <1>2, <1>3
<1> QED
  BY <1>4 DEF InMemory

LEMMA LoadApplyStep == IInv /\ LoadApply => IInv'
<1> SUFFICES ASSUME IInv, LoadApply PROVE IInv'
  OBVIOUS
<1> PICK k, v : k = Head(loading) /\ v = found[1]
  OBVIOUS
<1>1. /\ found # NoValue /\ found' = NoValue
      /\ mem' = [mem EXCEPT ![k] = v] /\ loading' = Tail(loading)
      /\ UNCHANGED <<db, stop, call, boots, requests, stored, asked, excused>>
  BY DEF LoadApply
<1>2. /\ Types /\ InTable /\ InMemory /\ InHand /\ InFlight
      /\ ~excused => Alone /\ Following
  BY DEF IInv
<1>3. loading # <<>> /\ v \in Values
  BY <1>1, <1>2 DEF Types
<1>4. /\ k \in Keys /\ Tail(loading) \in Seq(Keys) /\ Len(Tail(loading)) =< Len(LoadOrder)
      /\ \A j \in Keys : Remains(j) => j = k \/ Remains(j)'
  BY <1>1, <1>2, <1>3, LoadsOne
<1>5. mem' \in [Keys -> Values] /\ mem'[k] = v
      /\ \A j \in Keys : j # k => mem'[j] = mem[j]
  BY <1>1, <1>2, <1>3, <1>4 DEF Types
<1>6. Valid(k, v, stop) /\ Traced(k, v) /\ Traced(k, v)'
  BY <1>1, <1>2 DEF InHand, Traced, Own
<1>7. Types'
  BY <1>1, <1>2, <1>4, <1>5 DEF Types
<1>8. InTable' /\ InFlight' /\ InHand'
  BY <1>1, <1>2 DEF InTable, InFlight, InHand, Traced, Own
<1>9. InMemory'
  BY <1>1, <1>2, <1>3, <1>4, <1>6, MemoryWrite
<1>10. ASSUME ~excused' PROVE Alone' /\ Following'
  <2>1. Alone /\ Following
    BY <1>1, <1>2, <1>10
  <2>2. Alone'
    BY <1>1, <1>3, <2>1 DEF Alone
  <2>3. v = db[k] /\ db[k] # Unset(k)
    BY <1>1, <1>4, <1>6, <2>1, ValidIsSet DEF Following
  <2>4. Restored(k) = v
    BY <1>6, <2>3 DEF Restored
  <2>5. \A j \in Keys : Restored(j)' = Restored(j) /\ (Written(j)' <=> Written(j))
    BY <1>1, RestoredKept DEF Written
  <2>6. ASSUME NEW j \in Keys
        PROVE  \/ mem'[j] = Restored(j)' \/ Written(j)'
               \/ Remains(j)' /\ mem'[j] = Default(j)
    BY <1>4, <1>5, <2>1, <2>4, <2>5 DEF Following
  <2>7. \A h \in Handlers : call'[h].at = "persisted" => db'[call'[h].key] = call'[h].value
    BY <1>1, <2>1 DEF Following
  <2> QED
    BY <1>1, <2>2, <2>6, <2>7 DEF Following
<1> QED
  BY <1>7, <1>8, <1>9, <1>10 DEF IInv

LEMMA RestartStep == IInv /\ Restart => IInv'
<1> SUFFICES ASSUME IInv, Restart PROVE IInv'
  OBVIOUS
<1>1. /\ boots < MaxBoots /\ boots' = boots + 1 /\ requests' = 0
      /\ mem' = InitialMemory /\ stop' \in StopThresholds
      /\ loading' = LoadOrder /\ found' = NoValue
      /\ call' = [h \in Handlers |-> NoCall] /\ excused' = FALSE
      /\ db' = db /\ stored' = stored /\ asked' = asked
  BY DEF Restart
<1>2. Types /\ InTable
  BY DEF IInv
<1>3. Types'
  <2>1. mem' \in [Keys -> Values]
    BY <1>1 DEF InitialMemory, Default, Values
  <2>2. boots' \in 1..MaxBoots /\ requests' \in 0..MaxRequests
    BY <1>1, <1>2, Bounds DEF Types
  <2>3. loading' \in Seq(Keys) /\ Len(loading') =< Len(LoadOrder)
    BY <1>1, LoadOrderCovers
  <2>4. call' \in [Handlers -> Setters \cup {NoCall}]
    BY <1>1
  <2> QED
    BY <1>1, <1>2, <2>1, <2>2, <2>3, <2>4 DEF Types
<1>4. InTable' /\ InMemory' /\ InHand' /\ InFlight'
  BY <1>1, <1>2 DEF InTable, InMemory, InHand, InFlight, InitialMemory, Traced, Own
<1>5. Alone'
  BY <1>1 DEF Alone
<1>6. Following'
  <2>1. \A h \in Handlers : call'[h].at # "persisted"
    BY <1>1 DEF NoCall
  <2>2. \A k \in Keys : Remains(k)' /\ mem'[k] = Default(k)
    BY <1>1, LoadOrderCovers DEF Remains, InitialMemory
  <2> QED
    BY <1>1, <2>1, <2>2 DEF Following
<1> QED
  BY <1>3, <1>4, <1>5, <1>6 DEF IInv

(* A setter up to its database write, for a value that belongs to the key. *)
LEMMA BeginStep ==
    ASSUME IInv, NEW h \in Handlers, NEW k \in Keys, NEW v \in Values,
           Begin(h, k, v), asked' \in [LatchProfiles -> SUBSET Values],
           \A p \in LatchProfiles : asked[p] \subseteq asked'[p], Own(k, v)'
    PROVE  IInv'
<1> DEFINE c == [at |-> "validated", key |-> k, value |-> v]
<1>1. /\ call[h] = NoCall /\ requests < MaxRequests /\ Valid(k, v, stop)
      /\ call' = [call EXCEPT ![h] = c]
      /\ requests' = requests + 1
      /\ excused' = (excused \/ loading # <<>> \/ \E g \in Handlers : call[g] # NoCall)
      /\ UNCHANGED <<db, mem, stop, loading, found, boots, stored>>
  BY DEF Begin
<1>2. /\ Types /\ InTable /\ InMemory /\ InHand /\ InFlight
      /\ ~excused => Alone /\ Following
  BY DEF IInv
<1>3. c \in Setters /\ c.at = "validated" /\ c.key = k /\ c.value = v
  BY DEF Setters
<1> HIDE DEF c
<1>4. /\ call' \in [Handlers -> Setters \cup {NoCall}] /\ call'[h] = c
      /\ \A g \in Handlers : g # h => call'[g] = call[g]
  BY <1>1, <1>2, <1>3 DEF Types
<1>5. Types'
  <2>1. requests' \in 0..MaxRequests
    BY <1>1, <1>2, Bounds DEF Types
  <2>2. excused' \in BOOLEAN
    BY <1>1
  <2> QED
    BY <1>1, <1>2, <1>4, <2>1, <2>2 DEF Types
<1>6. \A j \in Keys : \A w : /\ Own(j, w) => Own(j, w)'
                             /\ Traced(j, w) => Traced(j, w)'
  BY <1>1, OwnGrows, TracedGrows
<1>7. InTable'
  BY <1>1, <1>2, <1>6 DEF InTable, Traced, Own
<1>8. InMemory'
  BY <1>1, <1>2, <1>6 DEF InMemory, Traced, Own
<1>9. InHand'
  <2> SUFFICES ASSUME found # NoValue
               PROVE  Valid(Head(loading), found[1], stop) /\ Traced(Head(loading), found[1])'
    BY <1>1 DEF InHand
  <2>1. Valid(Head(loading), found[1], stop) /\ Traced(Head(loading), found[1])
    BY <1>2 DEF InHand
  <2>2. Head(loading) \in Keys
    BY <1>2, LoadsOne DEF Types
  <2> QED
    BY <1>1, <1>6, <2>1, <2>2 DEF Traced, Own
<1>10. InFlight'
  <2> SUFFICES ASSUME NEW g \in Handlers, call'[g] # NoCall
               PROVE  /\ Valid(call'[g].key, call'[g].value, stop')
                      /\ Own(call[g].key, call[g].value)'
                      /\ call'[g].at = "persisted" => call'[g].value \in stored'[call'[g].key]
    BY DEF InFlight
  <2>1. CASE g = h
    BY <1>1, <1>3, <1>4, <2>1 DEF Own
  <2>2. CASE g # h
    <3>1. call'[g] = call[g] /\ call[g].key \in Keys
      BY <1>2, <1>4, <2>2, CallKinds DEF Types
    <3> QED
      BY <1>1, <1>2, <1>6, <3>1 DEF InFlight, Own
  <2> QED
    BY <2>1, <2>2
<1>11. ASSUME ~excused' PROVE Alone' /\ Following'
  <2>1. /\ ~excused /\ loading = <<>> /\ \A g \in Handlers : call[g] = NoCall
        /\ Alone /\ Following
    BY <1>1, <1>2, <1>11
  <2>2. Alone'
    BY <1>1, <1>4, <2>1 DEF Alone
  <2>3. \A g \in Handlers : call'[g].at # "persisted" /\ call[g].at # "persisted"
    BY <1>3, <1>4, <2>1 DEF NoCall
  <2>4. \A j \in Keys : Restored(j)' = Restored(j) /\ Remains(j)' = Remains(j)
    BY <1>1, RestoredKept DEF Remains
  <2>5. \A j \in Keys : ~Written(j)
    BY <2>3 DEF Written
  <2> QED
    BY <1>1, <2>1, <2>2, <2>3, <2>4, <2>5 DEF Following
<1> QED
  BY <1>5, <1>7, <1>8, <1>9, <1>10, <1>11 DEF IInv

(* The settings that belong to no latch profile.                           *)
LEMMA TextStep ==
    ASSUME NEW h \in Handlers
    PROVE  IInv /\ (SetChargePower(h) \/ SetAutoProfile(h)) => IInv'
<1> SUFFICES ASSUME IInv, SetChargePower(h) \/ SetAutoProfile(h) PROVE IInv'
  OBVIOUS
<1>1. PICK k \in {PowerKey, ProfileKey}, v \in PowerRequests \cup ProfileRequests :
         Begin(h, k, v)
  BY DEF SetChargePower, SetAutoProfile
<1>2. asked' = asked /\ asked' \in [LatchProfiles -> SUBSET Values]
  BY DEF SetChargePower, SetAutoProfile, IInv, Types
<1>3. Own(k, v)'
  BY NumberKeys DEF Own
<1>4. k \in Keys /\ v \in Values
  BY KeyKinds DEF Values
<1>5. \A p \in LatchProfiles : asked[p] \subseteq asked'[p]
  BY <1>2
<1> QED
  BY <1>1, <1>2, <1>3, <1>4, <1>5, BeginStep

(* The settings of the active profile.                                     *)
LEMMA LatchStep ==
    ASSUME NEW h \in Handlers
    PROVE  IInv /\ (SetStartThreshold(h) \/ SetTargetSoC(h)) => IInv'
<1> SUFFICES ASSUME IInv, SetStartThreshold(h) \/ SetTargetSoC(h) PROVE IInv'
  OBVIOUS
<1>1. PICK p \in LatchProfiles, v \in ThresholdRequests \cup TargetRequests,
           k \in Keys :
         /\ k \in {ThresholdKey(p), TargetKey(p)}
         /\ Begin(h, k, v) /\ asked' = [asked EXCEPT ![p] = @ \cup {v}]
  BY KeyKinds DEF SetStartThreshold, SetTargetSoC, ForActiveProfile, ThresholdKey, TargetKey
<1>2. k \in Keys /\ v \in Values
  BY DEF Values
<1>3. asked \in [LatchProfiles -> SUBSET Values]
  BY DEF IInv, Types
<1>4. asked' \in [LatchProfiles -> SUBSET Values] /\ v \in asked'[p]
      /\ \A q \in LatchProfiles : asked[q] \subseteq asked'[q]
  BY <1>1, <1>2, <1>3
<1>5. \A q \in LatchProfiles : k \in {ThresholdKey(q), TargetKey(q)} => q = p
  BY <1>1, NumberKeys
<1>6. Own(k, v)'
  BY <1>4, <1>5 DEF Own
<1> QED
  BY <1>1, <1>2, <1>4, <1>6, BeginStep

LEMMA PersistStep ==
    ASSUME NEW h \in Handlers
    PROVE  IInv /\ Persist(h) => IInv'
<1> SUFFICES ASSUME IInv, Persist(h) PROVE IInv'
  OBVIOUS
<1> PICK k, v : k = call[h].key /\ v = call[h].value
  OBVIOUS
<1>1. /\ call[h].at = "validated"
      /\ UNCHANGED <<mem, stop, loading, found, boots, requests, asked, excused>>
  BY DEF Persist
<1>2. /\ Types /\ InTable /\ InMemory /\ InHand /\ InFlight
      /\ ~excused => Alone /\ Following
  BY DEF IInv
<1>3. call[h] # NoCall /\ call[h] \in Setters /\ k \in Keys /\ v \in Values
  BY <1>1, <1>2, CallKinds DEF Types
<1>4. Valid(k, v, stop) /\ Own(k, v)
  BY <1>2, <1>3 DEF InFlight
<1>5. \A j \in Keys : Remains(j)' = Remains(j)
  BY <1>1 DEF Remains
<1>6. CASE /\ db' = [db EXCEPT ![k] = v]
           /\ stored' = [stored EXCEPT ![k] = @ \cup {v}]
           /\ call' = [call EXCEPT ![h].at = "persisted"]
  <2>1. /\ db' \in [Keys -> Values] /\ db'[k] = v
        /\ \A j \in Keys : j # k => db'[j] = db[j]
    BY <1>2, <1>3, <1>6 DEF Types
  <2>2. /\ stored' \in [Keys -> SUBSET Values] /\ v \in stored'[k]
        /\ \A j \in Keys : stored[j] \subseteq stored'[j]
    BY <1>2, <1>3, <1>6 DEF Types
  <2>3. PICK c : c = [call[h] EXCEPT !.at = "persisted"]
    OBVIOUS
  <2>4. c \in Setters /\ c.at = "persisted" /\ c.key = k /\ c.value = v
    BY <1>3, <2>3 DEF Setters
  <2>5. /\ call' \in [Handlers -> Setters \cup {NoCall}] /\ call'[h] = c
        /\ \A g \in Handlers : g # h => call'[g] = call[g]
    BY <1>2, <1>6, <2>3, <2>4 DEF Types
  <2>6. Types'
    BY <1>1, <1>2, <2>1, <2>2, <2>5 DEF Types
  <2>7. \A j \in Keys : \A w : /\ Own(j, w) => Own(j, w)'
                               /\ Traced(j, w) => Traced(j, w)'
    BY <1>1, <2>2, OwnGrows, TracedGrows
  <2>8. InTable'
    <3>1. Traced(k, db[k])'
      BY <1>1, <1>4, <2>1, <2>2 DEF Traced, Own
    <3>2. ASSUME NEW j \in Keys, j # k PROVE db'[j] = Unset(j) \/ Traced(j, db[j])'
      <4>1. db[j] = Unset(j) \/ Traced(j, db[j])
        BY <1>2 DEF InTable
      <4>2. PICK w : w = db[j] /\ w = db'[j]
        BY <2>1, <3>2
      <4>3. w = Unset(j) \/ Traced(j, w)'
        BY <2>7, <4>1, <4>2
      <4> QED
        BY <4>2, <4>3 DEF Traced, Own
    <3>3. ASSUME NEW j \in Keys PROVE db'[j] = Unset(j) \/ Traced(j, db[j])'
      BY <3>1, <3>2
    <3> QED
      BY <3>3 DEF InTable
  <2>9. InMemory'
    BY <1>1, <1>2, <2>7 DEF InMemory, Traced, Own
  <2>10. InHand'
    <3> SUFFICES ASSUME found # NoValue
                 PROVE  Valid(Head(loading), found[1], stop) /\ Traced(Head(loading), found[1])'
      BY <1>1 DEF InHand
    <3>1. Valid(Head(loading), found[1], stop) /\ Traced(Head(loading), found[1])
      BY <1>2 DEF InHand
    <3>2. Head(loading) \in Keys
      BY <1>2, LoadsOne DEF Types
    <3> QED
      BY <1>1, <2>7, <3>1, <3>2 DEF Traced, Own
  <2>11. InFlight'
    <3> SUFFICES ASSUME NEW g \in Handlers, call'[g] # NoCall
                 PROVE  /\ Valid(call'[g].key, call'[g].value, stop')
                        /\ Own(call[g].key, call[g].value)'
                        /\ call'[g].at = "persisted" => call'[g].value \in stored'[call'[g].key]
      BY DEF InFlight
    <3>1. CASE g = h
      BY <1>1, <1>4, <2>2, <2>4, <2>5, <3>1 DEF Own
    <3>2. CASE g # h
      <4>1. call'[g] = call[g] /\ call[g].key \in Keys
        BY <1>2, <2>5, <3>2, CallKinds DEF Types
      <4> QED
        BY <1>1, <1>2, <2>2, <2>7, <4>1 DEF InFlight, Own
    <3> QED
      BY <3>1, <3>2
  <2>12. ASSUME ~excused' PROVE Alone' /\ Following'
    <3>1. Alone /\ Following
      BY <1>1, <1>2, <2>12
    <3>2. loading = <<>> /\ found = NoValue /\ \A g \in Handlers : g # h => call[g] = NoCall
      BY <1>2, <1>3, <3>1 DEF Alone, Types
    <3>3. Alone'
      BY <1>1, <2>5, <3>2 DEF Alone
    <3>4. \A g \in Handlers : g # h => call'[g].at # "persisted" /\ call[g].at # "persisted"
      BY <2>5, <3>2 DEF NoCall
    <3>5. \A g \in Handlers : call'[g].at = "persisted" => db'[call'[g].key] = call'[g].value
      BY <2>1, <2>4, <2>5, <3>4
    <3>6. Written(k)' /\ \A j \in Keys : ~Written(j)
      BY <1>1, <2>4, <2>5, <3>4 DEF Written
    <3>7. \A j \in Keys : j # k => Restored(j)' = Restored(j)
      BY <1>1, <2>1, RestoredKept
    <3> QED
      BY <1>1, <1>5, <3>1, <3>2, <3>3, <3>5, <3>6, <3>7 DEF Following
  <2> QED
    BY <2>6, <2>8, <2>9, <2>10, <2>11, <2>12 DEF IInv
<1>7. CASE call' = [call EXCEPT ![h] = NoCall] /\ UNCHANGED <<db, stored>>
  <2>1. /\ call' \in [Handlers -> Setters \cup {NoCall}] /\ call'[h] = NoCall
        /\ \A g \in Handlers : g # h => call'[g] = call[g]
    BY <1>2, <1>7 DEF Types
  <2>2. Types'
    BY <1>1, <1>2, <1>7, <2>1 DEF Types
  <2>3. InTable' /\ InMemory' /\ InHand'
    BY <1>1, <1>2, <1>7 DEF InTable, InMemory, InHand, Traced, Own
  <2>4. InFlight'
    BY <1>1, <1>2, <1>7, <2>1 DEF InFlight, Own
  <2>5. ASSUME ~excused' PROVE Alone' /\ Following'
    <3>1. Alone /\ Following
      BY <1>1, <1>2, <2>5
    <3>2. Alone'
      BY <1>1, <2>1, <3>1 DEF Alone
    <3>3. \A g \in Handlers : call'[g].at = "persisted" <=> call[g].at = "persisted" 
      BY <1>1, <2>1 DEF NoCall
    <3>4. \A j \in Keys : Restored(j)' = Restored(j) /\ (Written(j)' <=> Written(j))
      BY <1>1, <1>7, <2>1, <3>3, RestoredKept DEF Written, NoCall
    <3>5. \A g \in Handlers : call'[g].at = "persisted" => db'[call'[g].key] = call'[g].value
      BY <1>1, <1>7, <2>1, <3>1, <3>3 DEF Following
    <3> QED
      BY <1>1, <1>5, <1>7, <3>1, <3>2, <3>4, <3>5 DEF Following
  <2> QED
    BY <2>2, <2>3, <2>4, <2>5 DEF IInv
<1> QED
  BY <1>6, <1>7 DEF Persist

LEMMA ApplyStep ==
    ASSUME NEW h \in Handlers
    PROVE  IInv /\ Apply(h) => IInv'
<1> SUFFICES ASSUME IInv, Apply(h) PROVE IInv'
  OBVIOUS
<1> PICK k, v : k = call[h].key /\ v = call[h].value
  OBVIOUS
<1>1. /\ call[h].at = "persisted"
      /\ mem' = [mem EXCEPT ![k] = v] /\ call' = [call EXCEPT ![h] = NoCall]
      /\ UNCHANGED <<db, stop, loading, found, boots, requests, stored, asked, excused>>
  BY DEF Apply
<1>2. /\ Types /\ InTable /\ InMemory /\ InHand /\ InFlight
      /\ ~excused => Alone /\ Following
  BY DEF IInv
<1>3. call[h] # NoCall /\ call[h] \in Setters /\ k \in Keys /\ v \in Values
  BY <1>1, <1>2, CallKinds DEF Types
<1>4. Valid(k, v, stop) /\ Traced(k, v)
  BY <1>1, <1>2, <1>3 DEF InFlight, Traced
<1>5. /\ call' \in [Handlers -> Setters \cup {NoCall}] /\ call'[h] = NoCall
      /\ \A g \in Handlers : g # h => call'[g] = call[g]
  BY <1>1, <1>2 DEF Types
<1>6. mem' \in [Keys -> Values] /\ mem'[k] = v
      /\ \A j \in Keys : j # k => mem'[j] = mem[j]
  BY <1>1, <1>2, <1>3 DEF Types
<1>7. Types'
  BY <1>1, <1>2, <1>5, <1>6 DEF Types
<1>8. InTable' /\ InHand'
  BY <1>1, <1>2 DEF InTable, InHand, Traced, Own
<1>9. InMemory'
  BY <1>1, <1>2, <1>3, <1>4, MemoryWrite
<1>10. InFlight'
  BY <1>1, <1>2, <1>5 DEF InFlight, Own
<1>11. ASSUME ~excused' PROVE Alone' /\ Following'
  <2>1. Alone /\ Following
    BY <1>1, <1>2, <1>11
  <2>2. loading = <<>> /\ found = NoValue /\ \A g \in Handlers : g # h => call[g] = NoCall
    BY <1>2, <1>3, <2>1 DEF Alone, Types
  <2>3. Alone'
    BY <1>1, <1>5, <2>2 DEF Alone
  <2>4. db[k] = v /\ db[k] # Unset(k)
    BY <1>1, <1>3, <1>4, <2>1, ValidIsSet DEF Following
  <2>5. Restored(k) = v
    BY <1>4, <2>4 DEF Restored
  <2>6. \A g \in Handlers : call'[g].at # "persisted"
    BY <1>5, <2>2 DEF NoCall
  <2>7. \A j \in Keys : Restored(j)' = Restored(j) /\ Remains(j)' = Remains(j)
    BY <1>1, RestoredKept DEF Remains
  <2>8. \A j \in Keys : j # k => ~Written(j)
    BY <2>2 DEF Written, NoCall
  <2>9. ASSUME NEW j \in Keys
        PROVE  mem'[j] = Restored(j)' \/ (Remains(j)' /\ mem'[j] = Default(j))
    BY <1>6, <2>1, <2>5, <2>7, <2>8 DEF Following
  <2> QED
    BY <1>1, <2>2, <2>3, <2>6, <2>9 DEF Following
<1> QED
  BY <1>7, <1>8, <1>9, <1>10, <1>11 DEF IInv

LEMMA Step == IInv /\ [Next]_vars => IInv'
<1> SUFFICES ASSUME IInv, [Next]_vars PROVE IInv'
  OBVIOUS
<1>1. CASE Load
  BY <1>1, LoadReadStep, LoadApplyStep DEF Load
<1>2. CASE Restart
  BY <1>2, RestartStep
<1>3. ASSUME NEW h \in Handlers, Handle(h) PROVE IInv'
  BY <1>3, TextStep, LatchStep, PersistStep, ApplyStep DEF Handle
<1>4. CASE UNCHANGED vars
  <2>1. Types' /\ InTable' /\ InMemory' /\ InHand' /\ InFlight'
    BY <1>4 DEF vars, IInv, Types, InTable, InMemory, InHand, InFlight, Traced, Own
  <2>2. ~excused' => Alone' /\ Following'
    BY <1>4 DEF vars, IInv, Alone, Following, Restored, Remains, Written
  <2> QED
    BY <2>1, <2>2 DEF IInv
<1> QED
  BY <1>1, <1>2, <1>3, <1>4 DEF Next

-----------------------------------------------------------------------------
(* The inductive invariant holds in every state.                           *)
THEOREM SettingsInvariant == Spec => []IInv
<1>1. Init => IInv
  BY Start
<1>2. IInv /\ [Next]_vars => IInv'
  BY Step
<1> QED
  BY <1>1, <1>2, PTL DEF Spec

(* What is in use is valid for the configuration of this start, and a      *)
(* start threshold in use lies above its stop threshold: TypeOK and        *)
(* StartAboveStop, of the four setters and the four load functions.        *)
THEOREM InUseIsValid == Spec => []ValueInv
<1>1. IInv => ValueInv
  <2> SUFFICES ASSUME IInv PROVE ValueInv
    OBVIOUS
  <2>1. Types /\ InTable /\ InMemory
    BY DEF IInv
  <2>2. \A k \in Keys : db[k] = Unset(k) \/ db[k] \in stored[k]
    BY <2>1 DEF InTable, Traced
  <2>3. \A k \in Keys : mem[k] = Default(k) \/ Valid(k, mem[k], stop)
    BY <2>1 DEF InMemory
  <2>4. Len(found) =< 1
    <3>1. Len(NoValue) = 0
      BY DEF NoValue
    <3>2. \A v : Len(<<v>>) = 1
      OBVIOUS
    <3>3. found = NoValue \/ \E v : found = <<v>>
      BY <2>1 DEF Types
    <3>4. PICK n : n = Len(found) /\ n \in {0, 1}
      BY <3>1, <3>2, <3>3
    <3>5. n =< 1
      BY <3>4
    <3> QED
      BY <3>4, <3>5
  <2>5. \A h \in Handlers : call[h] # NoCall =>
            call[h].at \in {"validated", "persisted"} /\ call[h].key \in Keys
    BY <2>1 DEF Types, Setters
  <2>6. DOMAIN call = Handlers
    BY <2>1 DEF Types
  <2>7. TypeOK
    BY <2>1, <2>2, <2>3, <2>4, <2>5, <2>6 DEF TypeOK, Types
  <2>8. ASSUME NEW p \in LatchProfiles, mem[ThresholdKey(p)] # 0
        PROVE  mem[ThresholdKey(p)] > stop
    <3>1. ThresholdKey(p) \in Keys /\ Default(ThresholdKey(p)) = 0
      BY KeyKinds, NumberKeys
    <3>2. Valid(ThresholdKey(p), mem[ThresholdKey(p)], stop)
      BY <2>3, <2>8, <3>1
    <3> QED
      BY <3>2, ValidKinds
  <2> QED
    BY <2>7, <2>8 DEF ValueInv, StartAboveStop
<1> QED
  BY <1>1, SettingsInvariant, PTL

(* A setting that Status reports is the default or reached the table: the  *)
(* database write comes before the update of memory, and a failed write    *)
(* ends the request.                                                       *)
THEOREM ReportedWasStored == Spec => []ShownWasStored
<1>1. IInv => ShownWasStored
  BY DEF IInv, InMemory, Traced, ShownWasStored
<1> QED
  BY <1>1, SettingsInvariant, PTL

(* A latch profile never runs on a threshold or target asked for under     *)
(* another one, in memory or in the table.                                 *)
THEOREM ProfilesKeepTheirOwn == Spec => []SettingsDoNotLeak
<1>1. IInv => SettingsDoNotLeak
  <2> SUFFICES ASSUME IInv, NEW p \in LatchProfiles,
                      NEW k \in Keys, k \in {ThresholdKey(p), TargetKey(p)}
               PROVE  {mem[k], db[k]} \subseteq {0} \cup asked[p]
    BY KeyKinds DEF SettingsDoNotLeak
  <2>1. Default(k) = 0 /\ Unset(k) = 0
    BY NumberKeys
  <2>2. mem[k] = 0 \/ Own(k, mem[k])
    BY <2>1 DEF IInv, InMemory, Traced
  <2>3. db[k] = 0 \/ Own(k, db[k])
    BY <2>1 DEF IInv, InTable, Traced
  <2> QED
    BY <2>2, <2>3 DEF Own
<1> QED
  BY <1>1, SettingsInvariant, PTL

(* Between requests that did not overlap, a restart under the same         *)
(* configuration would bring back what is in use.                          *)
THEOREM RestartRestores == Spec => []SettingsSurviveRestart
<1>1. IInv => SettingsSurviveRestart
  <2> SUFFICES ASSUME IInv, AtRest, ~excused, NEW k \in Keys
               PROVE  mem[k] = Restored(k)
    BY DEF SettingsSurviveRestart
  <2>1. Following
    BY DEF IInv
  <2>2. ~Written(k)
    BY DEF AtRest, Written, NoCall
  <2>3. ~Remains(k)
    BY DEF AtRest, Remains
  <2> QED
    BY <2>1, <2>2, <2>3 DEF Following
<1> QED
  BY <1>1, SettingsInvariant, PTL

=============================================================================
