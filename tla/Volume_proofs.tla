--------------------------- MODULE Volume_proofs ---------------------------
(***************************************************************************)
(* Theorems about the volumes MergeFuture accumulates, for every number of *)
(* bars, every listing and every content of the kline tables.  The first   *)
(* part shows that VolumeUpTo, a fold, adds each bar of its set once, in   *)
(* whatever order the fold takes them; the second carries the sums through *)
(* the bar loop.                                                           *)
(***************************************************************************)
EXTENDS MergeFuture_proofs, FiniteSetTheorems

\* Among finite sets one has the fewest elements.
LEMMA SmallestSet ==
  ASSUME NEW C, C # {}, \A T \in C : IsFiniteSet(T)
  PROVE  \E T \in C : \A U \in C : Cardinality(T) <= Cardinality(U)
<1> DEFINE N == {Cardinality(T) : T \in C}
<1>1. N \in SUBSET Nat /\ N # {}
  BY FS_CardinalityType
<1>2. PICK n \in N : \A m \in N : n <= m
  <2> HIDE DEF N
  <2> QED
    BY <1>1, LeastExists
<1>3. PICK T \in C : n = Cardinality(T)
  BY <1>2
<1>4. \A U \in C : Cardinality(T) <= Cardinality(U)
  BY <1>2, <1>3
<1> QED
  BY <1>4

\* The traded units of the items of the bars in S, each an element of its own.
Units(items, S) == {u \in S \X Nat : 1 <= u[2] /\ u[2] <= items[u[1]].trade_volume}
Total(items, S) == Cardinality(Units(items, S))

\* Finitely many bars, each with a volume.
Traded(items, S) == IsFiniteSet(S) /\ \A s \in S : items[s].trade_volume \in Nat

LEMMA UnitsOfBar ==
  ASSUME NEW x, NEW v \in Nat
  PROVE  IsFiniteSet({x} \X (1..v)) /\ Cardinality({x} \X (1..v)) = v
<1> DEFINE B == {x} \X (1..v)
           f == [k \in 1..v |-> <<x, k>>]
<1>1. f \in Bijection(1..v, B)
  <2>1. f \in [1..v -> B]
    OBVIOUS
  <2>2. \A j, k \in 1..v : f[j] = f[k] => j = k
    OBVIOUS
  <2>3. \A u \in B : \E k \in 1..v : f[k] = u
    OBVIOUS
  <2> HIDE DEF f, B
  <2> QED
    BY <2>1, <2>2, <2>3 DEF Bijection, Injection, Surjection, IsInjective
<1>2. IsFiniteSet(1..v) /\ Cardinality(1..v) = v
  <2>1. /\ IsFiniteSet(1..v)
        /\ Cardinality(1..v) = IF 1 > v THEN 0 ELSE v - 1 + 1
    BY FS_Interval
  <2> QED
    BY <2>1
<1> HIDE DEF f, B
<1>3. ExistsBijection(1..v, B)
  BY <1>1 DEF ExistsBijection
<1>4. IsFiniteSet(B) /\ Cardinality(B) = v
  BY <1>2, <1>3, FS_Bijection
<1> QED
  BY <1>4 DEF B

LEMMA UnitsSplit ==
  ASSUME NEW items, NEW S, NEW x \in S, items[x].trade_volume \in Nat
  PROVE  /\ Units(items, S) =
              Units(items, S \ {x}) \union ({x} \X (1..items[x].trade_volume))
         /\ Units(items, S \ {x}) \intersect ({x} \X (1..items[x].trade_volume)) = {}
<1> DEFINE v == items[x].trade_volume
           B == {x} \X (1..v)
<1>1. \A u \in B : u \in Units(items, S)
  BY DEF Units
<1>2. \A u \in Units(items, S \ {x}) : u \in Units(items, S) /\ u \notin B
  BY DEF Units
<1>3. \A u \in Units(items, S) : u \in Units(items, S \ {x}) \/ u \in B
  BY DEF Units
<1> HIDE DEF v, B
<1>4. Units(items, S) = Units(items, S \ {x}) \union B /\ Units(items, S \ {x}) \intersect B = {}
  BY <1>1, <1>2, <1>3
<1> QED
  BY <1>4 DEF v, B

\* No unit without a bar.
LEMMA UnitsEmpty ==
  ASSUME NEW items
  PROVE  Units(items, {}) = {} /\ Total(items, {}) = 0
<1>1. Units(items, {}) = {}
  BY DEF Units
<1> QED
  BY <1>1, FS_EmptySet DEF Total

LEMMA UnitsFinite ==
  ASSUME NEW items, NEW S, Traded(items, S)
  PROVE  IsFiniteSet(Units(items, S))
<1> DEFINE C == {T \in SUBSET S : ~IsFiniteSet(Units(items, T))}
<1> SUFFICES ASSUME C # {} PROVE FALSE
  OBVIOUS
<1>1. \A T \in SUBSET S : IsFiniteSet(T)
  BY FS_Subset DEF Traded
<1>2. PICK T \in C : \A U \in C : Cardinality(T) <= Cardinality(U)
  <2>1. \A T \in C : IsFiniteSet(T)
    BY <1>1
  <2> HIDE DEF C
  <2> QED
    BY <2>1, SmallestSet
<1>3. T # {}
  BY <1>2, UnitsEmpty, FS_EmptySet
<1>4. PICK x \in T : TRUE
  BY <1>3
<1>5. Cardinality(T) \in Nat /\ Cardinality(T \ {x}) = Cardinality(T) - 1
  BY <1>1, <1>2, FS_CardinalityType, FS_RemoveElement
<1>6. T \ {x} \notin C
  <2> HIDE DEF C
  <2> QED
    BY <1>2, <1>5
<1>7. IsFiniteSet(Units(items, T \ {x}))
  BY <1>2, <1>6
<1>8. items[x].trade_volume \in Nat
  BY <1>2, <1>4 DEF Traded
<1>9. IsFiniteSet(Units(items, T))
  <2> DEFINE v == items[x].trade_volume
             B == {x} \X (1..v)
             R == Units(items, T \ {x})
  <2>1. IsFiniteSet(B)
    BY <1>8, UnitsOfBar
  <2>2. Units(items, T) = R \union B
    BY <1>8, UnitsSplit
  <2> HIDE DEF R, B
  <2>3. IsFiniteSet(R \union B)
    BY <1>7, <2>1, FS_Union DEF R
  <2> QED
    BY <2>2, <2>3
<1> QED
  BY <1>2, <1>9

\* A bar adds its volume to the total of the rest.
LEMMA TotalSplit ==
  ASSUME NEW items, NEW S, NEW x \in S, Traded(items, S), NEW rest, rest = S \ {x}
  PROVE  Total(items, S) = items[x].trade_volume + Total(items, rest)
<1> DEFINE v == items[x].trade_volume
           B == {x} \X (1..v)
           R == Units(items, S \ {x})
<1>1. v \in Nat
  BY DEF Traded
<1>2. IsFiniteSet(B) /\ Cardinality(B) = v
  <2> HIDE DEF v
  <2> QED
    BY <1>1, UnitsOfBar
<1>3. Units(items, S) = R \union B /\ R \intersect B = {}
  BY <1>1, UnitsSplit
<1>4. IsFiniteSet(R)
  <2>1. Traded(items, S \ {x})
    BY FS_RemoveElement DEF Traded
  <2> QED
    BY <2>1, UnitsFinite
<1> HIDE DEF v, B, R
<1>5. Cardinality(R) \in Nat
  BY <1>4, FS_CardinalityType
<1>6. Cardinality(R \union B) = Cardinality(R) + Cardinality(B) - Cardinality(R \intersect B)
  BY <1>2, <1>4, FS_Union
<1>7. Cardinality(R \union B) = v + Cardinality(R)
  <2>1. Cardinality(R \intersect B) = 0
    BY <1>3, FS_EmptySet
  <2> QED
    BY <1>1, <1>2, <1>5, <1>6, <2>1
<1>8. Total(items, S) = v + Cardinality(R)
  BY <1>3, <1>7 DEF Total
<1>9. Total(items, rest) = Cardinality(R)
  BY DEF Total, R
<1> QED
  BY <1>8, <1>9 DEF v

\* f is the function a fold of the volumes over the subsets of S unwinds to.
UnwoundFold(items, S, f) ==
  f = [s \in SUBSET S |->
         IF s = {} THEN 0
         ELSE LET x == CHOOSE x \in s : TRUE
              IN  items[x].trade_volume + f[s \ {x}]]

\* There is such a function ...
LEMMA FoldExists ==
  ASSUME NEW items, NEW S, Traded(items, S)
  PROVE  UnwoundFold(items, S, [s \in SUBSET S |-> Total(items, s)])
<1> DEFINE f == [s \in SUBSET S |-> Total(items, s)]
<1>1. ASSUME NEW s \in SUBSET S
      PROVE  Total(items, s) =
               IF s = {} THEN 0
               ELSE LET x == CHOOSE x \in s : TRUE
                    IN  items[x].trade_volume + f[s \ {x}]
  <2>1. CASE s = {}
    BY <2>1, UnitsEmpty
  <2>2. CASE s # {}
    <3> DEFINE x == CHOOSE x \in s : TRUE
    <3>1. x \in s
      BY <2>2
    <3>2. Traded(items, s)
      BY FS_Subset DEF Traded
    <3> HIDE DEF x
    <3> DEFINE rest == s \ {x}
    <3>3. rest = s \ {x} /\ f[rest] = Total(items, rest)
      OBVIOUS
    <3> HIDE DEF rest
    <3>4. Total(items, s) = items[x].trade_volume + Total(items, rest)
      BY <3>1, <3>2, <3>3, TotalSplit
    <3>5. Total(items, s) = items[x].trade_volume + f[s \ {x}]
      BY <3>3, <3>4
    <3> QED
      BY <2>2, <3>5 DEF x
  <2> QED
    BY <2>1, <2>2
<1> QED
  BY <1>1 DEF UnwoundFold

\* ... and it is the only one.
LEMMA FoldIsTotal ==
  ASSUME NEW items, NEW S, Traded(items, S), NEW f, UnwoundFold(items, S, f)
  PROVE  f[S] = Total(items, S)
<1> DEFINE C == {T \in SUBSET S : f[T] # Total(items, T)}
<1> SUFFICES ASSUME C # {} PROVE FALSE
  OBVIOUS
<1>1. \A T \in SUBSET S : IsFiniteSet(T)
  BY FS_Subset DEF Traded
<1>2. PICK T \in C : \A U \in C : Cardinality(T) <= Cardinality(U)
  <2>1. \A T \in C : IsFiniteSet(T)
    BY <1>1
  <2> HIDE DEF C
  <2> QED
    BY <2>1, SmallestSet
<1> DEFINE x == CHOOSE x \in T : TRUE
<1>3. f[T] = IF T = {} THEN 0 ELSE items[x].trade_volume + f[T \ {x}]
  BY <1>2 DEF UnwoundFold
<1>4. T # {}
  BY <1>2, <1>3, UnitsEmpty
<1>5. x \in T
  BY <1>4
<1> HIDE DEF x
<1>6. Cardinality(T) \in Nat /\ Cardinality(T \ {x}) = Cardinality(T) - 1
  BY <1>1, <1>2, <1>5, FS_CardinalityType, FS_RemoveElement
<1>7. T \ {x} \notin C
  <2> HIDE DEF C
  <2> QED
    BY <1>2, <1>6
<1>8. f[T \ {x}] = Total(items, T \ {x})
  BY <1>2, <1>7
<1>9. Traded(items, T)
  BY <1>1, <1>2 DEF Traded
<1> DEFINE rest == T \ {x}
<1>10. rest = T \ {x} /\ f[rest] = Total(items, rest)
  BY <1>8
<1> HIDE DEF rest
<1>11. Total(items, T) = items[x].trade_volume + Total(items, rest)
  BY <1>5, <1>9, <1>10, TotalSplit
<1> QED
  BY <1>2, <1>3, <1>4, <1>10, <1>11

\* VolumeUpTo is the total over the common bars up to b.
LEMMA VolumeIsTotal ==
  ASSUME NEW items, NEW common, NEW b, Traded(items, {s \in common : s <= b})
  PROVE  VolumeUpTo(items, common, b) = Total(items, {s \in common : s <= b})
<1> DEFINE S == {s \in common : s <= b}
           f == CHOOSE f : UnwoundFold(items, S, f)
<1>1. VolumeUpTo(items, common, b) = f[S]
  BY DEF VolumeUpTo, MapThenSumSet, MapThenFoldSet, UnwoundFold
<1>2. UnwoundFold(items, S, f)
  <2> HIDE DEF S
  <2>1. \E g : UnwoundFold(items, S, g)
    BY FoldExists DEF S
  <2> QED
    BY <2>1
<1> HIDE DEF f, S
<1>3. f[S] = Total(items, S)
  BY <1>2, FoldIsTotal DEF S
<1> QED
  BY <1>1, <1>3 DEF S

\* The volumes of a quote table over some of its bars.
LEMMA TradedBars ==
  ASSUME NEW items, IsQuoteTable(items), NEW common, common \subseteq DOMAIN items, NEW b
  PROVE  Traded(items, {s \in common : s <= b})
<1> DEFINE S == {s \in common : s <= b}
<1>1. S \in SUBSET (1..NBars)
  BY DEF IsQuoteTable, Bars
<1>2. IsFiniteSet(1..NBars)
  BY BarsAssumption, FS_Interval
<1>3. IsFiniteSet(S)
  <2> HIDE DEF S
  <2> QED
    BY <1>1, <1>2, FS_Subset
<1>4. \A s \in S : items[s].trade_volume \in Nat
  BY DEF IsQuoteTable, Item
<1> QED
  BY <1>3, <1>4 DEF Traded

\* Nothing has been traded before the first bar ...
LEMMA VolumeZero ==
  ASSUME NEW items, IsQuoteTable(items), NEW common, common \subseteq DOMAIN items
  PROVE  VolumeUpTo(items, common, 0) = 0
<1>1. {s \in common : s <= 0} = {}
  BY DEF IsQuoteTable, Bars
<1>2. VolumeUpTo(items, common, 0) = Total(items, {s \in common : s <= 0})
  BY TradedBars, VolumeIsTotal
<1> QED
  BY <1>1, <1>2, UnitsEmpty

\* ... and a bar adds its volume when it is a common one, and nothing otherwise.
LEMMA VolumeStep ==
  ASSUME NEW items, IsQuoteTable(items), NEW common, common \subseteq DOMAIN items,
         NEW b \in Int
  PROVE  /\ b \in common =>
              VolumeUpTo(items, common, b) =
                VolumeUpTo(items, common, b - 1) + items[b].trade_volume
         /\ b \notin common =>
              VolumeUpTo(items, common, b) = VolumeUpTo(items, common, b - 1)
<1> DEFINE now == {s \in common : s <= b}
           before == {s \in common : s <= b - 1}
<1>1. common \subseteq Int
  BY DEF IsQuoteTable, Bars
<1>2. Traded(items, now) /\ Traded(items, before)
  BY TradedBars
<1>3. before = now \ {b}
  BY <1>1
<1>4. /\ VolumeUpTo(items, common, b) = Total(items, now)
      /\ VolumeUpTo(items, common, b - 1) = Total(items, before)
  <2>1. VolumeUpTo(items, common, b) = Total(items, now)
    BY <1>2, VolumeIsTotal
  <2> DEFINE c == b - 1
  <2>2. Traded(items, {s \in common : s <= c})
    BY <1>2
  <2> HIDE DEF c
  <2>3. VolumeUpTo(items, common, c) = Total(items, {s \in common : s <= c})
    BY <2>2, VolumeIsTotal
  <2> QED
    BY <2>1, <2>3 DEF c
<1>5. CASE b \in common
  <2>1. b \in now
    BY <1>5
  <2>2. items[b].trade_volume \in Nat
    BY <1>5 DEF IsQuoteTable, Item
  <2> HIDE DEF now, before
  <2>3. Total(items, now) = items[b].trade_volume + Total(items, before)
    BY <1>3, <1>2, <2>1, TotalSplit
  <2>4. Total(items, before) \in Nat
    BY <1>2, UnitsFinite, FS_CardinalityType DEF Total
  <2>5. Total(items, now) = Total(items, before) + items[b].trade_volume
    BY <2>2, <2>3, <2>4
  <2> QED
    BY <1>4, <1>5, <2>5
<1>6. CASE b \notin common
  <2>1. before = now
    BY <1>3, <1>6
  <2> QED
    BY <1>4, <1>6, <2>1
<1> QED
  BY <1>5, <1>6
-----------------------------------------------------------------------------
\* The sums of the cache are those the chains show.
CacheVolumes ==
  \A i \in 1..option_count_ :
    /\ call_option_chains_[i].total_trade_amount = EntryOf(i).call_total_trade_volume
    /\ put_option_chains_[i].total_trade_amount = EntryOf(i).put_total_trade_volume

\* The sums of pair i.
PairVolumes(i) ==
  /\ call_option_chains_[i].total_trade_amount =
       VolumeUpTo(CallItems(i), CommonBars(i), MergedBar(i))
  /\ put_option_chains_[i].total_trade_amount =
       VolumeUpTo(PutItems(i), CommonBars(i), MergedBar(i))

VolumeInv == CarryInv /\ CacheVolumes /\ CumulativeVolume

LEMMA TablesOfPair ==
  ASSUME Base, NEW i \in 1..option_count_
  PROVE  /\ IsQuoteTable(CallItems(i)) /\ IsQuoteTable(PutItems(i))
         /\ CommonBars(i) \subseteq DOMAIN CallItems(i)
         /\ CommonBars(i) \subseteq DOMAIN PutItems(i)
<1>1. /\ option_count_ = Len(call_option_chains_) /\ option_count_ = Len(put_option_chains_)
      /\ call_option_chains_ \in Seq(Contract) /\ put_option_chains_ \in Seq(Contract)
  BY DEF Base, TypeOK
<1>2. /\ call_option_chains_[i].option_code \in DOMAIN call_option_quote_
      /\ put_option_chains_[i].option_code \in DOMAIN put_option_quote_
  BY <1>1, CodeInCodes DEF Base, TypeOK
<1> QED
  BY <1>2 DEF Base, TypeOK, CallItems, PutItems, CommonBars

LEMMA VolumeInit == Init => VolumeInv
<1> SUFFICES ASSUME Init PROVE VolumeInv
  OBVIOUS
<1>1. CarryInv
  BY CarryInit
<1>2. PICK l \in Listings :
        /\ call_option_chains_ = l.call
        /\ put_option_chains_ = l.put
        /\ option_count_ = Len(l.call)
  BY DEF Init
<1>3. /\ \A i \in DOMAIN l.call :
           l.call[i].total_trade_amount = 0 /\ l.put[i].total_trade_amount = 0
      /\ DOMAIN l.call = 1..option_count_
      /\ l.call \in Seq(Contract)
  BY <1>2, ListingAssumption, LenProperties DEF ListingOK
<1>4. ASSUME NEW i \in 1..option_count_
      PROVE  /\ call_option_chains_[i].total_trade_amount = 0
             /\ put_option_chains_[i].total_trade_amount = 0
             /\ EntryOf(i) = FreshCache
  <2>1. call_option_chains_[i].option_code \in CodesOf(call_option_chains_)
    BY <1>2, <1>3, CodeInCodes
  <2> QED
    BY <1>2, <1>3, <2>1 DEF Init, EntryOf
<1>5. CacheVolumes
  BY <1>4 DEF CacheVolumes, FreshCache
<1>6. CumulativeVolume
  <2> SUFFICES ASSUME NEW i \in 1..option_count_ PROVE PairVolumes(i)
    BY DEF CumulativeVolume, PairVolumes
  <2>1. MergedBar(i) = 0
    BY DEF Init, MergedBar
  <2>2. /\ VolumeUpTo(CallItems(i), CommonBars(i), 0) = 0
        /\ VolumeUpTo(PutItems(i), CommonBars(i), 0) = 0
    BY <1>1, TablesOfPair, VolumeZero DEF CarryInv
  <2> QED
    BY <1>4, <2>1, <2>2 DEF PairVolumes
<1> QED
  BY <1>1, <1>5, <1>6 DEF VolumeInv

\* Nothing the sums of pair i are made of changes.
LEMMA VolumesSame ==
  ASSUME NEW i \in 1..option_count_, CumulativeVolume,
         call_option_chains_'[i].total_trade_amount =
           call_option_chains_[i].total_trade_amount,
         put_option_chains_'[i].total_trade_amount =
           put_option_chains_[i].total_trade_amount,
         call_option_chains_'[i].option_code = call_option_chains_[i].option_code,
         put_option_chains_'[i].option_code = put_option_chains_[i].option_code,
         call_option_quote_' = call_option_quote_,
         put_option_quote_' = put_option_quote_,
         MergedBar(i)' = MergedBar(i)
  PROVE  PairVolumes(i)'
<1>1. PairVolumes(i)
  BY DEF CumulativeVolume, PairVolumes
<1>2. /\ CallItems(i)' = CallItems(i) /\ PutItems(i)' = PutItems(i)
      /\ CommonBars(i)' = CommonBars(i)
  BY DEF CallItems, PutItems, CommonBars
<1> QED
  BY <1>1, <1>2 DEF PairVolumes

LEMMA VolumeIdle ==
  ASSUME VolumeInv, CarryInv', UNCHANGED <<chainVars, quoteVars, mfp_cache>>,
         \A i \in 1..option_count_ : MergedBar(i)' = MergedBar(i)
  PROVE  VolumeInv'
<1>1. /\ call_option_chains_' = call_option_chains_
      /\ put_option_chains_' = put_option_chains_
      /\ call_option_quote_' = call_option_quote_
      /\ put_option_quote_' = put_option_quote_
      /\ option_count_' = option_count_
      /\ mfp_cache' = mfp_cache
  BY DEF chainVars, quoteVars
<1>2. CacheVolumes'
  BY <1>1 DEF VolumeInv, CacheVolumes, EntryOf
<1>3. \A i \in 1..option_count_ : PairVolumes(i)'
  BY <1>1, VolumesSame DEF VolumeInv
<1>4. CumulativeVolume'
  BY <1>1, <1>3 DEF CumulativeVolume, PairVolumes
<1> QED
  BY <1>2, <1>4 DEF VolumeInv

\* The sums a turn of the merging loop leaves in the chains of its own pair.
LEMMA ThisPairVolumes ==
  ASSUME Base, MergePair
  PROVE  /\ call_option_chains_'[pair].total_trade_amount = NewEntry.call_total_trade_volume
         /\ put_option_chains_'[pair].total_trade_amount = NewEntry.put_total_trade_volume
BY MergeStep DEF Updated

LEMMA VolumeMerge ==
  ASSUME VolumeInv, CarryInv', MergePair
  PROVE  VolumeInv'
<1>1. /\ CarryInv /\ Base /\ CacheVolumes /\ CumulativeVolume
  BY DEF VolumeInv, CarryInv
<1>2. /\ option_count_' = option_count_ /\ option_count_ \in Nat
      /\ pair \in 1..option_count_
      /\ bar' = bar /\ bar \in Int
  BY <1>1, ThisPair, MergeControl, MergedBarType, LenProperties DEF Base, TypeOK
<1>3. CacheVolumes'
  <2> SUFFICES ASSUME NEW i \in 1..option_count_
               PROVE  (/\ call_option_chains_[i].total_trade_amount =
                            EntryOf(i).call_total_trade_volume
                       /\ put_option_chains_[i].total_trade_amount =
                            EntryOf(i).put_total_trade_volume)'
    BY <1>2 DEF CacheVolumes
  <2>1. CASE i = pair
    BY <1>1, <2>1, ThisPair, ThisPairVolumes DEF EntryOf
  <2>2. CASE i # pair
    BY <1>1, <2>2, OtherPairs DEF CacheVolumes
  <2> QED
    BY <2>1, <2>2
<1>4. ASSUME NEW i \in 1..option_count_ PROVE PairVolumes(i)'
  <2>1. CASE i # pair
    <3>1. /\ call_option_quote_' = call_option_quote_
          /\ put_option_quote_' = put_option_quote_
      BY MergeControl
    <3> QED
      BY <1>1, <2>1, <3>1, OtherPairs, VolumesSame
  <2>2. CASE i = pair
    <3>1. MergedBar(i)' = bar /\ MergedBar(i) = bar - 1
      BY <1>2, <2>2, MergeControl DEF MergedBar
    <3>2. /\ CallItems(i)' = CallItems(i) /\ PutItems(i)' = PutItems(i)
          /\ CommonBars(i)' = CommonBars(i)
      <4>1. CallItems(i)' = CallItems(i) /\ PutItems(i)' = PutItems(i)
        BY <1>1, <2>2, ThisPair DEF CallItems, PutItems
      <4> QED
        BY <4>1 DEF CommonBars, CallItems, PutItems
    <3>3. CommonBars(i) = DOMAIN CallItems(i) \intersect DOMAIN PutItems(i)
      BY DEF CommonBars, CallItems, PutItems
    <3>4. /\ EntryOf(i).call_total_trade_volume =
               VolumeUpTo(CallItems(i), CommonBars(i), bar - 1)
          /\ EntryOf(i).put_total_trade_volume =
               VolumeUpTo(PutItems(i), CommonBars(i), bar - 1)
      BY <1>1, <3>1 DEF CacheVolumes, CumulativeVolume
    <3>5. /\ IsQuoteTable(CallItems(i)) /\ IsQuoteTable(PutItems(i))
          /\ CommonBars(i) \subseteq DOMAIN CallItems(i)
          /\ CommonBars(i) \subseteq DOMAIN PutItems(i)
      BY <1>1, TablesOfPair
    <3>6. NewEntry.call_total_trade_volume = VolumeUpTo(CallItems(i), CommonBars(i), bar)
      <4>1. CASE bar \in CommonBars(i)
        <5>1. NewEntry.call_total_trade_volume =
                EntryOf(i).call_total_trade_volume + CallItems(i)[bar].trade_volume
          BY <2>2, <3>3, <4>1 DEF NewEntry, Refreshed
        <5> QED
          BY <1>2, <3>4, <3>5, <4>1, <5>1, VolumeStep
      <4>2. CASE bar \notin CommonBars(i)
        <5>1. NewEntry = EntryOf(i)
          BY <2>2, <3>3, <4>2 DEF NewEntry, Refreshed
        <5> QED
          BY <1>2, <3>4, <3>5, <4>2, <5>1, VolumeStep
      <4> QED
        BY <4>1, <4>2
    <3>7. NewEntry.put_total_trade_volume = VolumeUpTo(PutItems(i), CommonBars(i), bar)
      <4>1. CASE bar \in CommonBars(i)
        <5>1. NewEntry.put_total_trade_volume =
                EntryOf(i).put_total_trade_volume + PutItems(i)[bar].trade_volume
          BY <2>2, <3>3, <4>1 DEF NewEntry, Refreshed
        <5> QED
          BY <1>2, <3>4, <3>5, <4>1, <5>1, VolumeStep
      <4>2. CASE bar \notin CommonBars(i)
        <5>1. NewEntry = EntryOf(i)
          BY <2>2, <3>3, <4>2 DEF NewEntry, Refreshed
        <5> QED
          BY <1>2, <3>4, <3>5, <4>2, <5>1, VolumeStep
      <4> QED
        BY <4>1, <4>2
    <3> QED
      BY <1>1, <2>2, <3>1, <3>2, <3>6, <3>7, ThisPairVolumes DEF PairVolumes
  <2> QED
    BY <2>1, <2>2
<1>5. CumulativeVolume'
  BY <1>2, <1>4 DEF CumulativeVolume, PairVolumes
<1> QED
  BY <1>3, <1>5 DEF VolumeInv

LEMMA VolumeSpot ==
  ASSUME VolumeInv, NEW spot \in Int, ReadSpot(spot)
  PROVE  VolumeInv'
<1>1. CarryInv'
  BY CarrySpot DEF VolumeInv
<1>2. /\ UNCHANGED <<chainVars, quoteVars, mfp_cache>>
      /\ bar' = bar /\ step = "read" /\ step' = "merge" /\ pair' = 1
  BY DEF ReadSpot
<1>3. \A i \in 1..option_count_ : MergedBar(i)' = MergedBar(i)
  BY <1>2 DEF MergedBar
<1> QED
  BY <1>1, <1>2, <1>3, VolumeIdle

LEMMA VolumeNext == VolumeInv /\ [Next]_mergeVars => VolumeInv'
<1> SUFFICES ASSUME VolumeInv, [Next]_mergeVars PROVE VolumeInv'
  OBVIOUS
<1>1. CarryInv'
  BY CarryNext DEF VolumeInv
<1>2. ASSUME NEW spot \in Spots, ReadSpot(spot) PROVE VolumeInv'
  BY <1>2, PriceAssumption, VolumeSpot
<1>3. CASE MergePair
  BY <1>1, <1>3, VolumeMerge
<1>4. CASE PriceBar
  <2>1. /\ UNCHANGED <<chainVars, quoteVars, mfp_cache>>
        /\ bar' = bar /\ step = "price" /\ step' = "use" /\ pair' = pair
    BY <1>4 DEF PriceBar
  <2>2. \A i \in 1..option_count_ : MergedBar(i)' = MergedBar(i)
    BY <2>1 DEF MergedBar
  <2> QED
    BY <1>1, <2>1, <2>2, VolumeIdle
<1>5. CASE NextBar
  <2>1. /\ UNCHANGED <<chainVars, quoteVars, mfp_cache>>
        /\ bar' = bar + 1 /\ step = "use" /\ step' = "read" /\ pair' = pair
    BY <1>5 DEF NextBar
  <2>2. bar \in Int
    BY DEF VolumeInv, CarryInv, Base, TypeOK, Bars
  <2>3. \A i \in 1..option_count_ : MergedBar(i)' = MergedBar(i)
    BY <2>1, <2>2 DEF MergedBar
  <2> QED
    BY <1>1, <2>1, <2>3, VolumeIdle
<1>6. CASE UNCHANGED mergeVars
  <2>1. /\ UNCHANGED <<chainVars, quoteVars, mfp_cache>>
        /\ bar' = bar /\ step' = step /\ pair' = pair
    BY <1>6 DEF mergeVars, loopVars
  <2>2. \A i \in 1..option_count_ : MergedBar(i)' = MergedBar(i)
    BY <2>1 DEF MergedBar
  <2> QED
    BY <1>1, <2>1, <2>2, VolumeIdle
<1> QED
  BY <1>2, <1>3, <1>4, <1>5, <1>6 DEF Next

\* However often a cached quote is shown again, the accumulated volume of a
\* leg counts each common bar of its pair once.
THEOREM VolumesAddUp == Spec => []CumulativeVolume
<1>1. VolumeInv => CumulativeVolume
  BY DEF VolumeInv
<1> QED
  BY <1>1, VolumeInit, VolumeNext, PTL DEF Spec
=============================================================================
