------------------------ MODULE OptionChains_proofs ------------------------
(***************************************************************************)
(* Theorems about the two calls of option_chain_parser and the tests of    *)
(* init(), for every listing: of any length, in any order, with any        *)
(* strikes and expiries.                                                   *)
(***************************************************************************)
EXTENDS OptionChains, SequenceTheorems, FiniteSetTheorems, WellFoundedInduction, TLAPS

\* The chain of a side is the beginning of its array, expiries not growing.
Leads(s) ==
  /\ Len(option_chains[s]) <= Len(EntriesOf(s))
  /\ \A i \in 1..Len(option_chains[s]) : option_chains[s][i] = EntriesOf(s)[i]
  /\ \A i \in 1..(Len(option_chains[s]) - 1) :
       EntriesOf(s)[i + 1].expire_date <= EntriesOf(s)[i].expire_date

\* A parsed side has stopped at the end of its array or before a later expiry.
Stopped(s) ==
  Parsed(s) /\ Len(option_chains[s]) < Len(EntriesOf(s)) =>
    /\ Len(option_chains[s]) > 0
    /\ EntriesOf(s)[Len(option_chains[s]) + 1].expire_date
         > EntriesOf(s)[Len(option_chains[s])].expire_date

\* What the call that parses a side remembers; the other side is still empty.
Remembered(s) ==
  /\ s = side =>
       /\ pos = Len(option_chains[s]) + 1
       /\ min_expire_date = IF option_chains[s] = <<>> THEN Far
                            ELSE EntriesOf(s)[Len(option_chains[s])].expire_date
  /\ s = "put" /\ side = "call" => option_chains[s] = <<>>

Judged ==
  accepted = "yes" =>
    /\ side = "init"
    /\ Len(option_chains["call"]) = Len(option_chains["put"])

ChainsInv ==
  /\ TypeOK /\ Judged
  /\ \A s \in Sides : Leads(s) /\ Stopped(s) /\ Remembered(s)
-----------------------------------------------------------------------------
\* Every expiry is below the initial value of min_expire_date.
LEMMA TermsBelow == Far \in Int /\ \A t \in Terms : t \in Int /\ t < Far
<1>1. Far \in Int
  BY SMT DEF Far
<1>2. ASSUME NEW t \in Terms PROVE t \in Int /\ t < Far
  <2> DEFINE last == Far - 1
  <2>1. last \in Int /\ last < Far
    BY <1>1
  <2>2. t \in 0..last
    BY TermsAssumption
  <2> HIDE DEF last
  <2> QED
    BY <1>1, <2>1, <2>2
<1> QED
  BY <1>1, <1>2

LEMMA EntriesType ==
  ASSUME TypeOK, NEW s \in Sides
  PROVE  /\ EntriesOf(s) \in Seq(Entry) /\ Len(EntriesOf(s)) \in Nat
         /\ \A i \in 1..Len(EntriesOf(s)) :
              EntriesOf(s)[i] \in Entry /\ EntriesOf(s)[i].expire_date \in Int
<1>1. EntriesOf(s) \in Seq(Entry)
  <2>1. CASE res[s].missing
    BY <2>1, EmptySeq DEF EntriesOf
  <2>2. CASE ~res[s].missing
    <3>1. res[s] \in [missing : {FALSE}, entries : Seq(Entry)]
      BY <2>2 DEF TypeOK
    <3> QED
      BY <2>2, <3>1 DEF EntriesOf
  <2> QED
    BY <2>1, <2>2
<1>2. \A i \in 1..Len(EntriesOf(s)) : EntriesOf(s)[i] \in Entry
  BY <1>1, ElementOfSeq
<1>3. \A i \in 1..Len(EntriesOf(s)) : EntriesOf(s)[i].expire_date \in Int
  BY <1>2, TermsBelow DEF Entry
<1> QED
  BY <1>1, <1>2, <1>3, LenProperties

LEMMA ArraysType == Arrays \subseteq [missing : {TRUE}] \union [missing : {FALSE}, entries : Seq(Entry)]
<1>1. SeqOf(Entry, MaxEntries) \subseteq Seq(Entry)
  <2> SUFFICES ASSUME NEW m \in 0..MaxEntries, NEW q \in [1..m -> Entry]
               PROVE  q \in Seq(Entry)
    BY DEF SeqOf
  <2>1. m \in Nat
    BY MaxEntriesAssumption
  <2> QED
    BY <2>1
<1>2. Absent \in [missing : {TRUE}]
  BY DEF Absent
<1>3. ASSUME NEW q \in SeqOf(Entry, MaxEntries)
      PROVE  Present(q) \in [missing : {FALSE}, entries : Seq(Entry)]
  BY <1>1 DEF Present
<1> QED
  BY <1>2, <1>3 DEF Arrays

LEMMA ChainsInit == Init => ChainsInv
<1> SUFFICES ASSUME Init PROVE ChainsInv
  OBVIOUS
<1>1. /\ res \in [Sides -> Arrays] /\ side = "call" /\ min_expire_date = Far /\ pos = 1
      /\ option_chains = [s \in Sides |-> <<>>] /\ accepted = "unknown"
  BY DEF Init
<1>2. TypeOK
  <2>1. option_chains \in [Sides -> Seq(Entry)]
    BY <1>1, EmptySeq
  <2>2. res \in [Sides -> [missing : {TRUE}] \union [missing : {FALSE}, entries : Seq(Entry)]]
    BY <1>1, ArraysType
  <2>3. side \in Sides \union {"init"} /\ pos \in Nat \ {0}
    BY <1>1 DEF Sides
  <2> QED
    BY <1>1, <2>1, <2>2, <2>3 DEF TypeOK
<1>3. ASSUME NEW s \in Sides PROVE Leads(s) /\ Stopped(s) /\ Remembered(s)
  <2>1. option_chains[s] = <<>> /\ Len(option_chains[s]) = 0
    BY <1>1, EmptySeq
  <2>2. Len(EntriesOf(s)) \in Nat
    BY <1>2, EntriesType
  <2>3. Leads(s)
    BY <2>1, <2>2 DEF Leads
  <2>4. Stopped(s)
    BY <1>1 DEF Stopped, Parsed
  <2>5. Remembered(s)
    BY <1>1, <2>1 DEF Remembered
  <2> QED
    BY <2>3, <2>4, <2>5
<1> QED
  BY <1>1, <1>2, <1>3 DEF ChainsInv, Judged

\* A call returns at the end of its array, without one, or at a later expiry.
LEMMA ReturnOK ==
  ASSUME ChainsInv, side \in Sides, Return, UNCHANGED <<res, option_chains, accepted>>,
         Len(option_chains[side]) < Len(EntriesOf(side)) =>
           /\ Len(option_chains[side]) > 0
           /\ EntriesOf(side)[Len(option_chains[side]) + 1].expire_date
                > EntriesOf(side)[Len(option_chains[side])].expire_date
  PROVE  ChainsInv'
<1>1. /\ side' = IF side = "call" THEN "put" ELSE "init"
      /\ min_expire_date' = Far /\ pos' = 1
  BY DEF Return
<1>2. TypeOK'
  <2>1. side' \in Sides \union {"init"} /\ min_expire_date' \in Terms \union {Far}
        /\ pos' \in Nat \ {0}
    BY <1>1 DEF Sides
  <2> QED
    BY <2>1 DEF ChainsInv, TypeOK
<1>3. Judged'
  BY <1>1 DEF ChainsInv, Judged, Sides
<1>4. \A s \in Sides : EntriesOf(s)' = EntriesOf(s)
  BY DEF EntriesOf
<1>5. ASSUME NEW s \in Sides PROVE (Leads(s) /\ Stopped(s) /\ Remembered(s))'
  <2>1. Leads(s)'
    BY <1>4 DEF ChainsInv, Leads
  <2>2. Stopped(s)'
    <3>1. CASE s = side
      BY <1>4, <3>1 DEF Stopped
    <3>2. CASE s # side
      <4>1. Parsed(s)' => Parsed(s)
        BY <1>1, <3>2 DEF Parsed, Sides
      <4> QED
        BY <1>4, <4>1 DEF ChainsInv, Stopped
    <3> QED
      BY <3>1, <3>2
  <2>3. Remembered(s)'
    <3> SUFFICES ASSUME s = side'
                 PROVE  /\ pos' = Len(option_chains'[s]) + 1
                        /\ min_expire_date' = Far /\ option_chains'[s] = <<>>
      BY <1>1 DEF Remembered, Sides
    <3>1. s = "put" /\ side = "call"
      BY <1>1 DEF Sides
    <3>2. option_chains[s] = <<>>
      BY <3>1 DEF ChainsInv, Remembered
    <3> QED
      BY <1>1, <3>2, EmptySeq
  <2> QED
    BY <2>1, <2>2, <2>3
<1> QED
  BY <1>2, <1>3, <1>5 DEF ChainsInv

LEMMA KeepOK == ChainsInv /\ Keep => ChainsInv'
<1> SUFFICES ASSUME ChainsInv, Keep PROVE ChainsInv'
  OBVIOUS
<1> DEFINE chain == option_chains[side]
           entries == EntriesOf(side)
           e == entries[pos]
<1>1. /\ side \in Sides /\ pos <= Len(entries)
      /\ entries = res[side].entries
      /\ e.expire_date <= min_expire_date
      /\ min_expire_date' = e.expire_date
      /\ option_chains' = [option_chains EXCEPT ![side] = Append(@, e)]
      /\ pos' = pos + 1
      /\ UNCHANGED <<res, side, accepted>>
  BY DEF Keep, AtEntry, EntriesOf
<1>2. /\ pos = Len(chain) + 1 /\ Len(chain) \in Nat
      /\ chain \in Seq(Entry) /\ option_chains \in [Sides -> Seq(Entry)]
      /\ min_expire_date = IF chain = <<>> THEN Far ELSE entries[Len(chain)].expire_date
  BY <1>1, LenProperties DEF ChainsInv, TypeOK, Remembered
<1>3. /\ entries \in Seq(Entry) /\ Len(entries) \in Nat /\ pos \in 1..Len(entries)
      /\ e \in Entry
  BY <1>1, <1>2, EntriesType DEF ChainsInv
<1> DEFINE chain2 == Append(chain, e)
<1>4. /\ chain2 \in Seq(Entry) /\ Len(chain2) = Len(chain) + 1 /\ chain2 # <<>>
      /\ \A i \in 1..Len(chain) : chain2[i] = chain[i]
      /\ chain2[Len(chain) + 1] = e
  BY <1>2, <1>3, AppendProperties
<1>5. /\ option_chains'[side] = chain2
      /\ \A s \in Sides : s # side => option_chains'[s] = option_chains[s]
      /\ option_chains' \in [Sides -> Seq(Entry)]
  BY <1>1, <1>2, <1>4
<1>6. \A s \in Sides : EntriesOf(s)' = EntriesOf(s)
  BY <1>1 DEF EntriesOf
<1>7. TypeOK'
  <2>1. min_expire_date' \in Terms
    BY <1>1, <1>3 DEF Entry
  <2>2. pos' \in Nat \ {0}
    BY <1>1, <1>2
  <2> HIDE DEF chain2
  <2> QED
    BY <1>1, <1>5, <2>1, <2>2 DEF ChainsInv, TypeOK
<1>8. Judged'
  BY <1>1 DEF ChainsInv, Judged, Sides
<1>9. ASSUME NEW s \in Sides, s # side PROVE (Leads(s) /\ Stopped(s) /\ Remembered(s))'
  <2>1. option_chains'[s] = option_chains[s] /\ EntriesOf(s)' = EntriesOf(s)
    BY <1>5, <1>6, <1>9
  <2>2. Leads(s)'
    BY <2>1 DEF ChainsInv, Leads
  <2>3. Stopped(s)'
    BY <1>1, <2>1 DEF ChainsInv, Stopped, Parsed
  <2>4. Remembered(s)'
    BY <1>1, <1>9, <2>1 DEF ChainsInv, Remembered
  <2> QED
    BY <2>2, <2>3, <2>4
<1>10. Leads(side)'
  <2>1. Leads(side)
    BY <1>1 DEF ChainsInv
  <2>2. Len(chain2) <= Len(entries)
    BY <1>2, <1>3, <1>4
  <2>3. \A i \in 1..Len(chain2) : chain2[i] = entries[i]
    <3> SUFFICES ASSUME NEW i \in 1..Len(chain2) PROVE chain2[i] = entries[i]
      OBVIOUS
    <3>1. CASE i = Len(chain) + 1
      BY <1>2, <1>4, <3>1
    <3>2. CASE i \in 1..Len(chain)
      BY <1>4, <2>1, <3>2 DEF Leads
    <3> HIDE DEF chain, chain2
    <3> QED
      BY <1>2, <1>4, <3>1, <3>2
  <2>4. \A i \in 1..(Len(chain2) - 1) : entries[i + 1].expire_date <= entries[i].expire_date
    <3> SUFFICES ASSUME NEW i \in 1..(Len(chain2) - 1)
                 PROVE  entries[i + 1].expire_date <= entries[i].expire_date
      OBVIOUS
    <3>1. CASE i = Len(chain)
      <4>1. chain # <<>>
        BY <1>2, <3>1, EmptySeq
      <4> QED
        BY <1>1, <1>2, <3>1, <4>1
    <3>2. CASE i \in 1..(Len(chain) - 1)
      BY <2>1, <3>2 DEF Leads
    <3> HIDE DEF chain, chain2
    <3> QED
      BY <1>2, <1>4, <3>1, <3>2
  <2> HIDE DEF chain2, entries
  <2> QED
    BY <1>1, <1>5, <1>6, <2>2, <2>3, <2>4 DEF Leads, entries
<1>11. Stopped(side)'
  BY <1>1 DEF Stopped, Parsed, Sides
<1>12. Remembered(side)'
  <2>1. Len(chain2) = pos /\ chain2 # <<>>
    BY <1>2, <1>4
  <2> HIDE DEF chain2
  <2> QED
    BY <1>1, <1>5, <1>6, <2>1 DEF Remembered, Sides
<1> QED
  <2>1. ASSUME NEW s \in Sides PROVE (Leads(s) /\ Stopped(s) /\ Remembered(s))'
    <3>1. CASE s = side
      BY <1>1, <1>10, <1>11, <1>12, <3>1
    <3>2. CASE s # side
      BY <1>9, <3>2
    <3> QED
      BY <3>1, <3>2
  <2> QED
    BY <1>7, <1>8, <2>1 DEF ChainsInv

\* The first entry is never later than the initial value.
LEMMA BreakOK == ChainsInv /\ Break => ChainsInv'
<1> SUFFICES ASSUME ChainsInv, Break PROVE ChainsInv'
  OBVIOUS
<1>1. /\ side \in Sides /\ pos <= Len(EntriesOf(side))
      /\ EntriesOf(side)[pos].expire_date > min_expire_date
      /\ Return /\ UNCHANGED <<res, option_chains, accepted>>
  BY DEF Break, AtEntry, EntriesOf
<1>2. /\ pos = Len(option_chains[side]) + 1 /\ Len(option_chains[side]) \in Nat
      /\ option_chains[side] \in Seq(Entry)
      /\ min_expire_date = IF option_chains[side] = <<>> THEN Far
                           ELSE EntriesOf(side)[Len(option_chains[side])].expire_date
  BY <1>1, LenProperties DEF ChainsInv, TypeOK, Remembered
<1>3. EntriesOf(side)[pos].expire_date \in Terms
  <2>1. pos \in 1..Len(EntriesOf(side))
    BY <1>1, <1>2, EntriesType DEF ChainsInv
  <2>2. EntriesOf(side)[pos] \in Entry
    BY <1>1, <2>1, EntriesType DEF ChainsInv
  <2> QED
    BY <2>2 DEF Entry
<1>4. option_chains[side] # <<>>
  <2> SUFFICES ASSUME option_chains[side] = <<>> PROVE FALSE
    OBVIOUS
  <2>1. EntriesOf(side)[pos].expire_date > Far
    BY <1>1, <1>2
  <2> QED
    BY <1>3, <2>1, TermsBelow
<1>5. Len(option_chains[side]) > 0
  BY <1>2, <1>4, EmptySeq
<1> QED
  BY <1>1, <1>2, <1>4, <1>5, ReturnOK

LEMMA ChainsNext == ChainsInv /\ [Next]_chainsVars => ChainsInv'
<1> SUFFICES ASSUME ChainsInv, [Next]_chainsVars PROVE ChainsInv'
  OBVIOUS
<1>1. CASE KeyMissing
  <2>1. /\ side \in Sides /\ res[side].missing /\ Return
        /\ UNCHANGED <<res, option_chains, accepted>>
    BY <1>1 DEF KeyMissing
  <2>2. Len(EntriesOf(side)) = 0
    BY <2>1, EmptySeq DEF EntriesOf
  <2>3. Len(option_chains[side]) \in Nat
    BY <2>1, LenProperties DEF ChainsInv, TypeOK
  <2> QED
    BY <2>1, <2>2, <2>3, ReturnOK
<1>2. CASE Keep
  BY <1>2, KeepOK
<1>3. CASE Break
  BY <1>3, BreakOK
<1>4. CASE EndOfArray
  <2>1. /\ side \in Sides /\ Return /\ pos > Len(EntriesOf(side))
        /\ UNCHANGED <<res, option_chains, accepted>>
    BY <1>4 DEF EndOfArray, EntriesOf
  <2>2. /\ Len(option_chains[side]) \in Nat /\ Len(EntriesOf(side)) \in Nat
        /\ pos = Len(option_chains[side]) + 1
    BY <2>1, LenProperties, EntriesType DEF ChainsInv, TypeOK, Remembered
  <2> QED
    BY <2>1, <2>2, ReturnOK
<1>5. CASE InitTests
  <2>1. /\ side = "init" /\ UNCHANGED <<res, side, min_expire_date, pos, option_chains>>
        /\ accepted' \in {"no", "yes"}
        /\ accepted' = "yes" =>
             Len(option_chains["call"]) = Len(option_chains["put"])
    BY <1>5 DEF InitTests
  <2>2. TypeOK' /\ Judged'
    BY <2>1 DEF ChainsInv, TypeOK, Judged
  <2>3. ASSUME NEW s \in Sides PROVE (Leads(s) /\ Stopped(s) /\ Remembered(s))'
    BY <2>1 DEF ChainsInv, Leads, Stopped, Remembered, EntriesOf, Parsed
  <2> QED
    BY <2>2, <2>3 DEF ChainsInv
<1>6. CASE UNCHANGED chainsVars
  <2>1. UNCHANGED <<res, side, min_expire_date, pos, option_chains, accepted>>
    BY <1>6 DEF chainsVars
  <2>2. TypeOK' /\ Judged'
    BY <2>1 DEF ChainsInv, TypeOK, Judged
  <2>3. ASSUME NEW s \in Sides PROVE (Leads(s) /\ Stopped(s) /\ Remembered(s))'
    BY <2>1 DEF ChainsInv, Leads, Stopped, Remembered, EntriesOf, Parsed
  <2> QED
    BY <2>2, <2>3 DEF ChainsInv
<1> QED
  BY <1>1, <1>2, <1>3, <1>4, <1>5, <1>6 DEF Next

LEMMA ChainsHold == Spec => []ChainsInv
BY ChainsInit, ChainsNext, PTL DEF Spec

\* Both chains are sequences of listed entries, and min_expire_date is one of
\* their expiries or its initial value.
THEOREM ChainTypes == Spec => []TypeOK
<1>1. ChainsInv => TypeOK
  BY DEF ChainsInv
<1> QED
  BY <1>1, ChainsHold, PTL
-----------------------------------------------------------------------------
\* A chain and the beginning of its array are the same sequence.
LEMMA ChainIsPrefix ==
  ASSUME TypeOK, NEW s \in Sides, Leads(s)
  PROVE  IsPrefix(option_chains[s], EntriesOf(s))
<1> DEFINE chain == option_chains[s]
           entries == EntriesOf(s)
           n == Len(chain)
<1>1. chain \in Seq(Entry) /\ n \in Nat /\ n <= Len(entries)
  BY LenProperties DEF TypeOK, Leads
<1>2. \A i \in 1..n : chain[i] = entries[i] /\ entries[i] \in Entry
  BY <1>1, ElementOfSeq DEF Leads
<1> HIDE DEF chain, entries
<1>3. /\ SubSeq(entries, 1, n) \in Seq(Entry) /\ Len(SubSeq(entries, 1, n)) = n
      /\ \A i \in 1..n : SubSeq(entries, 1, n)[i] = entries[i]
  BY <1>1, <1>2, SubSeqProperties
<1>4. SubSeq(chain, 1, n) = chain
  BY <1>1, SubSeqFull
<1> HIDE DEF n
<1>5. SubSeq(entries, 1, n) = chain
  BY <1>1, <1>2, <1>3, SeqEqual DEF n
<1> QED
  BY <1>1, <1>4, <1>5 DEF IsPrefix, n, chain, entries

LEMMA PrefixesLongest == ChainsInv => LongestPrefix
<1> SUFFICES ASSUME ChainsInv, NEW s \in Sides
             PROVE  /\ IsPrefix(option_chains[s], EntriesOf(s))
                    /\ NonIncreasing(option_chains[s])
                    /\ Parsed(s) =>
                         \/ option_chains[s] = EntriesOf(s)
                         \/ ~NonIncreasing(SubSeq(EntriesOf(s), 1, Len(option_chains[s]) + 1))
  BY DEF LongestPrefix
<1> DEFINE chain == option_chains[s]
           entries == EntriesOf(s)
           n == Len(chain)
<1>1. /\ TypeOK /\ Leads(s) /\ Stopped(s)
      /\ chain \in Seq(Entry) /\ n \in Nat
      /\ entries \in Seq(Entry) /\ Len(entries) \in Nat /\ n <= Len(entries)
  BY LenProperties, EntriesType DEF ChainsInv, TypeOK, Leads
<1>2. IsPrefix(chain, entries)
  BY <1>1, ChainIsPrefix
<1>3. NonIncreasing(chain)
  <2> SUFFICES ASSUME NEW i \in 1..(n - 1)
               PROVE  chain[i + 1].expire_date <= chain[i].expire_date
    BY DEF NonIncreasing
  <2>1. i \in 1..n /\ i + 1 \in 1..n
    BY <1>1
  <2>2. chain[i] = entries[i] /\ chain[i + 1] = entries[i + 1]
    BY <1>1, <2>1 DEF Leads
  <2>3. entries[i + 1].expire_date <= entries[i].expire_date
    BY <1>1 DEF Leads
  <2> QED
    BY <2>2, <2>3
<1>4. ASSUME Parsed(s), n = Len(entries) PROVE chain = entries
  <2>1. \A i \in 1..n : chain[i] = entries[i]
    BY <1>1 DEF Leads
  <2> HIDE DEF chain, entries
  <2> QED
    BY <1>1, <1>4, <2>1, SeqEqual
<1>5. ASSUME Parsed(s), n < Len(entries)
      PROVE  ~NonIncreasing(SubSeq(entries, 1, n + 1))
  <2>1. n > 0 /\ entries[n + 1].expire_date > entries[n].expire_date
    BY <1>1, <1>5 DEF Stopped
  <2> DEFINE longer == SubSeq(entries, 1, n + 1)
  <2>2. \A i \in 1..(n + 1) : entries[i] \in Entry
    BY <1>1, <1>5, ElementOfSeq
  <2>3. Len(longer) = n + 1 /\ \A i \in 1..(n + 1) : longer[i] = entries[i]
    <3> DEFINE m == n + 1
    <3>1. m \in Int /\ 1 <= m /\ \A i \in 1..m : entries[i] \in Entry
      BY <1>1, <2>2
    <3> HIDE DEF m, entries
    <3>2. /\ Len(SubSeq(entries, 1, m)) = m
          /\ \A i \in 1..m : SubSeq(entries, 1, m)[i] = entries[i]
      BY <3>1, SubSeqProperties
    <3> QED
      BY <3>2 DEF m
  <2>4. longer[n + 1].expire_date > longer[n].expire_date /\ n \in 1..(Len(longer) - 1)
    BY <1>1, <2>1, <2>3
  <2>5. entries[n].expire_date \in Int /\ entries[n + 1].expire_date \in Int
    <3>1. n \in 1..Len(entries) /\ n + 1 \in 1..Len(entries)
      BY <1>1, <1>5, <2>1
    <3> QED
      BY <1>1, <3>1, EntriesType
  <2>6. longer[n].expire_date \in Int /\ longer[n + 1].expire_date \in Int
    BY <1>1, <2>1, <2>3, <2>5
  <2> HIDE DEF longer, n
  <2>7. ~NonIncreasing(longer)
    BY <2>4, <2>6 DEF NonIncreasing
  <2> QED
    BY <2>7 DEF longer, n
<1>6. n = Len(entries) \/ n < Len(entries)
  BY <1>1
<1> QED
  BY <1>2, <1>3, <1>4, <1>5, <1>6

\* Whatever the order of a listing, each side of it becomes its longest prefix
\* of expiries that do not grow.
THEOREM PrefixHolds == Spec => []LongestPrefix
BY ChainsHold, PrefixesLongest, PTL
-----------------------------------------------------------------------------
\* A set of naturals that is not empty has a least element.
LEMMA LeastIndex ==
  ASSUME NEW S \in SUBSET Nat, S # {}
  PROVE  \E x \in S : \A y \in S : x <= y
<1> DEFINE R == OpToRel(<, Nat)
<1>1. IsWellFoundedOn(R, Nat)
  BY NatLessThanWellFounded
<1>2. \A i, j \in Nat : <<i, j>> \in R <=> i < j
  BY DEF OpToRel
<1> HIDE DEF R
<1>3. PICK x \in S : \A y \in S : ~(<<y, x>> \in R)
  BY <1>1, WFMin
<1>4. ASSUME NEW y \in S PROVE x <= y
  <2>1. x \in Nat /\ y \in Nat /\ ~(y < x)
    BY <1>2, <1>3
  <2> QED
    BY <2>1
<1> QED
  BY <1>4

\* Expiries that neither grow nor shrink are all the first one.
LEMMA OneExpiry ==
  ASSUME TypeOK, NEW s \in Sides, Leads(s), Ascending(EntriesOf(s)),
         NEW i \in 1..Len(option_chains[s])
  PROVE  EntriesOf(s)[i].expire_date = EntriesOf(s)[1].expire_date
<1> DEFINE entries == EntriesOf(s)
           n == Len(option_chains[s])
           other == {j \in 1..n : entries[j].expire_date # entries[1].expire_date}
<1>1. n \in Nat /\ n <= Len(entries) /\ Len(entries) \in Nat
  BY LenProperties, EntriesType DEF TypeOK, Leads
<1>2. SUFFICES ASSUME other # {} PROVE FALSE
  OBVIOUS
<1>3. PICK j \in other : \A k \in other : j <= k
  <2>1. other \in SUBSET Nat
    OBVIOUS
  <2> HIDE DEF other
  <2> QED
    BY <1>2, <2>1, LeastIndex
<1> DEFINE k == j - 1
<1>4. j \in 1..n /\ j # 1
  OBVIOUS
<1>5. k \in 1..(n - 1) /\ k + 1 = j /\ k < j /\ k \in 1..n
  BY <1>1, <1>4
<1>6. entries[k].expire_date = entries[1].expire_date
  <2>1. k \notin other
    <3> HIDE DEF other
    <3> QED
      BY <1>3, <1>4, <1>5
  <2> QED
    BY <1>5, <2>1
<1> HIDE DEF k
<1>7. entries[j].expire_date <= entries[k].expire_date
  BY <1>5 DEF Leads
<1>8. entries[k].expire_date <= entries[j].expire_date
  <2>1. DOMAIN entries = 1..Len(entries)
    BY EntriesType, LenProperties
  <2>2. k \in DOMAIN entries /\ j \in DOMAIN entries
    BY <1>1, <1>4, <1>5, <2>1
  <2> QED
    BY <1>5, <2>2 DEF Ascending
<1>9. entries[j].expire_date \in Int /\ entries[k].expire_date \in Int
  <2>1. j \in 1..Len(entries) /\ k \in 1..Len(entries)
    BY <1>1, <1>4, <1>5
  <2> QED
    BY <2>1, EntriesType
<1>10. entries[j].expire_date # entries[1].expire_date
  BY <1>3
<1> HIDE DEF entries
<1> QED
  BY <1>6, <1>7, <1>8, <1>9, <1>10

\* In an ascending array the chain ends where the nearest expiry does.
LEMMA ChainIsNearest ==
  ASSUME ChainsInv, NEW s \in Sides, Parsed(s), Ascending(EntriesOf(s)),
         NEW i \in DOMAIN EntriesOf(s)
  PROVE  i <= Len(option_chains[s]) <=>
           EntriesOf(s)[i].expire_date = EntriesOf(s)[1].expire_date
<1> DEFINE entries == EntriesOf(s)
           n == Len(option_chains[s])
<1>1. /\ TypeOK /\ Leads(s) /\ Stopped(s)
      /\ n \in Nat /\ n <= Len(entries) /\ Len(entries) \in Nat
      /\ DOMAIN entries = 1..Len(entries) /\ i \in Nat /\ i > 0
  <2>1. TypeOK /\ Leads(s) /\ Stopped(s)
    BY DEF ChainsInv
  <2>2. entries \in Seq(Entry) /\ Len(entries) \in Nat
    BY <2>1, EntriesType
  <2>3. n \in Nat /\ n <= Len(entries)
    BY <2>1, LenProperties DEF TypeOK, Leads
  <2>4. DOMAIN entries = 1..Len(entries)
    BY <2>2, LenProperties
  <2>5. i \in Nat /\ i > 0
    BY <2>2, <2>4
  <2> QED
    BY <2>1, <2>2, <2>3, <2>4, <2>5
<1>2. CASE i <= n
  <2>1. i \in 1..n
    BY <1>1, <1>2
  <2> QED
    BY <1>1, <1>2, <2>1, OneExpiry
<1>3. CASE i > n
  <2>1. n < Len(entries)
    BY <1>1, <1>3
  <2>2. n > 0 /\ entries[n + 1].expire_date > entries[n].expire_date
    BY <1>1, <2>1 DEF Stopped
  <2>3. n \in 1..n /\ n \in 1..Len(entries) /\ n + 1 \in DOMAIN entries
    BY <1>1, <2>1, <2>2
  <2>4. entries[n].expire_date = entries[1].expire_date
    BY <1>1, <2>3, OneExpiry
  <2>5. entries[n + 1].expire_date <= entries[i].expire_date
    <3>1. CASE i = n + 1
      <4>1. entries[i].expire_date \in Int
        BY <1>1, EntriesType
      <4> QED
        BY <3>1, <4>1
    <3>2. CASE i # n + 1
      <4>1. n + 1 < i
        BY <1>1, <1>3, <3>2
      <4> QED
        BY <2>3, <4>1 DEF Ascending
    <3> QED
      BY <3>1, <3>2
  <2>6. /\ entries[n].expire_date \in Int /\ entries[n + 1].expire_date \in Int
        /\ entries[i].expire_date \in Int
    BY <1>1, <2>3, EntriesType
  <2> HIDE DEF entries, n
  <2>7. entries[i].expire_date # entries[1].expire_date
    BY <2>2, <2>4, <2>5, <2>6
  <2>8. ~(i <= n)
    BY <1>1, <1>3
  <2> QED
    BY <2>7, <2>8 DEF entries, n
<1> QED
  BY <1>1, <1>2, <1>3

\* From a listing that goes from near to far expiries, exactly the contracts of
\* the nearest one are taken.
THEOREM NearestHolds == Spec => []NearestExpiry
<1>1. ChainsInv => NearestExpiry
  <2> SUFFICES ASSUME ChainsInv, NEW s \in Sides, Parsed(s), Ascending(EntriesOf(s))
               PROVE  /\ IsPrefix(option_chains[s], EntriesOf(s))
                      /\ \A i \in DOMAIN EntriesOf(s) :
                           i <= Len(option_chains[s]) <=>
                             EntriesOf(s)[i].expire_date = EntriesOf(s)[1].expire_date
    BY DEF NearestExpiry
  <2>1. IsPrefix(option_chains[s], EntriesOf(s))
    BY ChainIsPrefix DEF ChainsInv
  <2>2. \A i \in DOMAIN EntriesOf(s) :
          i <= Len(option_chains[s]) <=>
            EntriesOf(s)[i].expire_date = EntriesOf(s)[1].expire_date
    BY ChainIsNearest
  <2> QED
    BY <2>1, <2>2
<1> QED
  BY <1>1, ChainsHold, PTL
-----------------------------------------------------------------------------
\* The first n entries of a list go by ascending strike...
ByStrike(a, n) ==
  /\ \A i \in 1..n : a[i].strike_price \in Int
  /\ \A i, j \in 1..n : i < j => a[i].strike_price < a[j].strike_price

\* ... and are all among those of another list.
Among(a, b, n) == \A i \in 1..n : \E j \in 1..n : a[i] = b[j]

\* As many different entries of another list are all of it: the positions they
\* have there are as many as there are.
LEMMA AmongBack ==
  ASSUME NEW n \in Nat, NEW a, NEW b, ByStrike(a, n), Among(a, b, n)
  PROVE  Among(b, a, n)
<1> DEFINE place == [i \in 1..n |-> CHOOSE j \in 1..n : a[i] = b[j]]
<1>1. \A i \in 1..n : place[i] \in 1..n /\ a[i] = b[place[i]]
  BY DEF Among
<1>2. place \in [1..n -> 1..n]
  BY <1>1
<1>3. ASSUME NEW i \in 1..n, NEW j \in 1..n, place[i] = place[j] PROVE i = j
  <2>1. a[i] = a[j]
    BY <1>1, <1>3
  <2> DEFINE sa == a[i].strike_price
  <2>2. sa \in Int /\ ~(i < j /\ sa < sa) /\ ~(j < i /\ sa < sa)
    BY DEF ByStrike
  <2>3. (i < j => sa < sa) /\ (j < i => sa < sa)
    BY <2>1 DEF ByStrike
  <2> HIDE DEF sa
  <2> QED
    BY <2>2, <2>3
<1> HIDE DEF place
<1>4. place \in Injection(1..n, 1..n)
  BY <1>2, <1>3 DEF Injection, IsInjective
<1>5. IsFiniteSet(1..n)
  BY FS_Interval
<1>6. place \in Surjection(1..n, 1..n)
  BY <1>4, <1>5, FS_Injection
<1>7. \A j \in 1..n : \E i \in 1..n : place[i] = j
  BY <1>6 DEF Surjection
<1> QED
  BY <1>1, <1>7 DEF Among

\* Two lists of the same entries, both by ascending strike, agree everywhere.
LEMMA SameAscending ==
  ASSUME NEW n \in Nat, NEW a, NEW b, ByStrike(a, n), ByStrike(b, n),
         Among(a, b, n), Among(b, a, n),
         NEW k \in 1..n
  PROVE  a[k] = b[k]
<1> USE DEF ByStrike, Among
<1> DEFINE differ == {i \in 1..n : a[i] # b[i]}
<1> SUFFICES ASSUME differ # {} PROVE FALSE
  OBVIOUS
<1>1. PICK i \in differ : \A j \in differ : i <= j
  <2>1. differ \in SUBSET Nat
    OBVIOUS
  <2> HIDE DEF differ
  <2> QED
    BY <2>1, LeastIndex
<1>2. i \in 1..n /\ a[i] # b[i] /\ \A j \in 1..n : j < i => a[j] = b[j]
  BY <1>1
<1> HIDE DEF differ
<1>3. PICK j \in 1..n : a[i] = b[j]
  BY <1>2
<1>4. PICK m \in 1..n : b[i] = a[m]
  BY <1>2
<1>5. /\ a[i].strike_price \in Int /\ b[i].strike_price \in Int
      /\ i \in Int /\ j \in Int /\ m \in Int
  BY <1>2
<1> DEFINE sa == a[i].strike_price
           sb == b[i].strike_price
<1>6. ~(j < i)
  <2> SUFFICES ASSUME j < i PROVE FALSE
    OBVIOUS
  <2>1. a[j] = a[i]
    BY <1>2, <1>3
  <2>2. a[j].strike_price < sa
    BY <1>2
  <2>3. sa < sa
    BY <2>1, <2>2
  <2>4. sa \in Int
    BY <1>5
  <2> HIDE DEF sa
  <2> QED
    BY <2>3, <2>4
<1>7. ~(m < i)
  <2> SUFFICES ASSUME m < i PROVE FALSE
    OBVIOUS
  <2>1. b[m] = b[i]
    BY <1>2, <1>4
  <2>2. b[m].strike_price < sb
    BY <1>2
  <2>3. sb < sb
    BY <2>1, <2>2
  <2>4. sb \in Int
    BY <1>5
  <2> HIDE DEF sb
  <2> QED
    BY <2>3, <2>4
<1>8. i < j /\ i < m
  <2>1. i # j /\ i # m
    BY <1>2, <1>3, <1>4
  <2>2. i \in Int /\ j \in Int /\ m \in Int
    BY <1>5
  <2> QED
    BY <1>6, <1>7, <2>1, <2>2
<1>9. b[i].strike_price < a[i].strike_price
  <2>1. b[i].strike_price < b[j].strike_price
    BY <1>2, <1>8
  <2> QED
    BY <1>3, <2>1
<1>10. a[i].strike_price < b[i].strike_price
  <2>1. a[i].strike_price < a[m].strike_price
    BY <1>2, <1>8
  <2> QED
    BY <1>4, <2>1
<1> QED
  BY <1>5, <1>9, <1>10

\* What is known of one side of an accepted listing whose array goes from near
\* to far and lists each expiry by ascending strike.
LEMMA NearestByStrike ==
  ASSUME ChainsInv, NEW s \in Sides, Parsed(s), Ascending(EntriesOf(s)), StrikesAscend(s)
  PROVE  /\ \A i \in 1..Len(option_chains[s]) :
              option_chains[s][i] \in FirstExpiry(s) /\ option_chains[s][i].strike_price \in Int
         /\ \A e \in FirstExpiry(s) : \E i \in 1..Len(option_chains[s]) : e = option_chains[s][i]
         /\ \A i, j \in 1..Len(option_chains[s]) :
              i < j => option_chains[s][i].strike_price < option_chains[s][j].strike_price
<1> DEFINE entries == EntriesOf(s)
           chain == option_chains[s]
           n == Len(chain)
<1>1. /\ TypeOK /\ Leads(s)
      /\ n \in Nat /\ n <= Len(entries) /\ Len(entries) \in Nat
      /\ DOMAIN entries = 1..Len(entries)
      /\ \A i \in 1..n : i \in DOMAIN entries
      /\ \A i \in 1..n : chain[i] = entries[i]
  <2>1. TypeOK /\ Leads(s)
    BY DEF ChainsInv
  <2>2. entries \in Seq(Entry) /\ Len(entries) \in Nat
    BY <2>1, EntriesType
  <2>3. n \in Nat /\ n <= Len(entries)
    BY <2>1, LenProperties DEF TypeOK, Leads
  <2>4. DOMAIN entries = 1..Len(entries)
    BY <2>2, LenProperties
  <2>5. \A i \in 1..n : i \in DOMAIN entries
    BY <2>2, <2>3, <2>4
  <2>6. \A i \in 1..n : chain[i] = entries[i]
    BY <2>1 DEF Leads
  <2> QED
    BY <2>1, <2>2, <2>3, <2>4, <2>5, <2>6
<1>2. \A i \in 1..n : entries[i].expire_date = entries[1].expire_date
  BY <1>1, OneExpiry
<1>3. \A i \in 1..n : chain[i] \in FirstExpiry(s)
  BY <1>1, <1>2 DEF FirstExpiry, Range
<1>4. \A i \in 1..n : chain[i].strike_price \in Int
  <2> SUFFICES ASSUME NEW i \in 1..n PROVE entries[i].strike_price \in Int
    BY <1>1
  <2>1. entries[i] \in Entry
    BY <1>1, EntriesType
  <2> QED
    BY <2>1, StrikesAssumption DEF Entry
<1>5. ASSUME NEW e \in FirstExpiry(s) PROVE \E i \in 1..n : e = chain[i]
  <2>1. PICK i \in DOMAIN entries : e = entries[i] /\ e.expire_date = entries[1].expire_date
    BY DEF FirstExpiry, Range
  <2>2. i <= n
    BY <2>1, ChainIsNearest
  <2>3. i \in 1..n
    BY <1>1, <2>2
  <2> QED
    BY <1>1, <2>1, <2>3
<1>6. ASSUME NEW i \in 1..n, NEW j \in 1..n, i < j
      PROVE  chain[i].strike_price < chain[j].strike_price
  <2>1. i \in DOMAIN entries /\ j \in DOMAIN entries
        /\ entries[i].expire_date = entries[j].expire_date
    BY <1>1, <1>2
  <2>2. entries[i].strike_price < entries[j].strike_price
    BY <1>6, <2>1 DEF StrikesAscend
  <2> QED
    BY <1>1, <2>2
<1> QED
  BY <1>3, <1>4, <1>5, <1>6

\* A call and a put taken from the same position of an accepted listing have
\* one strike and one expiry, whatever the sides list beyond the nearest one.
THEOREM PairsMatch == Spec => []PairedByPosition
<1>1. ChainsInv => PairedByPosition
  <2> SUFFICES ASSUME ChainsInv, accepted = "yes",
                      \A s \in Sides : Ascending(EntriesOf(s)) /\ StrikesAscend(s),
                      \/ FirstExpiry("call") \subseteq FirstExpiry("put")
                      \/ FirstExpiry("put") \subseteq FirstExpiry("call")
               PROVE  option_chains["call"] = option_chains["put"]
    BY DEF PairedByPosition
  <2> DEFINE a == option_chains["call"]
             b == option_chains["put"]
  <2>1. /\ "call" \in Sides /\ "put" \in Sides
        /\ Parsed("call") /\ Parsed("put") /\ Len(a) = Len(b)
    BY DEF ChainsInv, Judged, Parsed, Sides
  <2>2. a \in Seq(Entry) /\ b \in Seq(Entry) /\ Len(a) \in Nat
    BY <2>1, LenProperties DEF ChainsInv, TypeOK
  <2>3. /\ \A i \in 1..Len(a) : a[i] \in FirstExpiry("call") /\ a[i].strike_price \in Int
        /\ \A e \in FirstExpiry("call") : \E i \in 1..Len(a) : e = a[i]
        /\ \A i, j \in 1..Len(a) : i < j => a[i].strike_price < a[j].strike_price
    BY <2>1, NearestByStrike
  <2>4. /\ \A i \in 1..Len(b) : b[i] \in FirstExpiry("put") /\ b[i].strike_price \in Int
        /\ \A e \in FirstExpiry("put") : \E i \in 1..Len(b) : e = b[i]
        /\ \A i, j \in 1..Len(b) : i < j => b[i].strike_price < b[j].strike_price
    BY <2>1, NearestByStrike
  <2> HIDE DEF a, b
  <2>5. \A k \in 1..Len(a) : a[k] = b[k]
    <3>1. \/ \A i \in 1..Len(a) : \E j \in 1..Len(a) : a[i] = b[j]
          \/ \A i \in 1..Len(a) : \E j \in 1..Len(a) : b[i] = a[j]
      <4>1. CASE FirstExpiry("call") \subseteq FirstExpiry("put")
        BY <2>1, <2>3, <2>4, <4>1
      <4>2. CASE FirstExpiry("put") \subseteq FirstExpiry("call")
        BY <2>1, <2>3, <2>4, <4>2
      <4> QED
        BY <4>1, <4>2
    <3> DEFINE n == Len(a)
    <3>2. n \in Nat
      BY <2>2
    <3>3. ByStrike(a, n) /\ ByStrike(b, n)
      BY <2>1, <2>3, <2>4 DEF ByStrike
    <3>4. Among(a, b, n) \/ Among(b, a, n)
      BY <3>1 DEF Among
    <3> HIDE DEF n
    <3>5. ASSUME NEW k \in 1..n PROVE a[k] = b[k]
      <4>1. Among(a, b, n) /\ Among(b, a, n)
        BY <3>2, <3>3, <3>4, AmongBack
      <4> QED
        BY <3>2, <3>3, <4>1, SameAscending
    <3> QED
      BY <3>5 DEF n
  <2>6. a = b
    BY <2>1, <2>2, <2>5, SeqEqual
  <2> QED
    BY <2>6 DEF a, b
<1> QED
  BY <1>1, ChainsHold, PTL
=============================================================================
