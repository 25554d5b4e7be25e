---------------------------- MODULE OptionChains ----------------------------
(***************************************************************************)
(* The listing of a day becomes two option chains: option_chain_parser is  *)
(* called for "call" and then for "put" (Process::Process), and init()     *)
(* compares the results (src/src/process.cpp).  A JSON entry is reduced to *)
(* the fields the control depends on and those that pair a call with a     *)
(* put.  A JSON error inside an entry is thrown and ends the program; the  *)
(* modules about what follows start from listings without one.             *)
(***************************************************************************)
EXTENDS Integers, Sequences, SequencesExt

CONSTANTS
  Strikes, Terms,  \* strike prices and days to expiry in the listing
  MaxEntries       \* bound on the length of a side of the listing

VARIABLES
  res,                  \* the JSON arrays, absent when the key is missing
  side,                 \* the side being parsed, or "init" after both
  min_expire_date,
  pos,                  \* index of the next entry of the side
  option_chains,        \* side -> the contracts taken over so far
  accepted              \* what init() has said of the sizes, or "unknown"

chainsVars == <<res, side, min_expire_date, pos, option_chains, accepted>>

Sides == {"call", "put"}
Far == 10000000   \* the initial value of min_expire_date
Entry == [strike_price : Strikes, expire_date : Terms]
Absent == [missing |-> TRUE]
Present(entries) == [missing |-> FALSE, entries |-> entries]
Arrays == {Absent} \union {Present(s) : s \in SeqOf(Entry, MaxEntries)}

ASSUME TermsAssumption == Terms \subseteq 0..(Far - 1)
ASSUME StrikesAssumption == Strikes \subseteq Int
ASSUME MaxEntriesAssumption == MaxEntries \in Nat
-----------------------------------------------------------------------------
Init ==
  /\ res \in [Sides -> Arrays]
  /\ side = "call"
  /\ min_expire_date = Far
  /\ pos = 1
  /\ option_chains = [s \in Sides |-> <<>>]
  /\ accepted = "unknown"

\* Mutated forms of Return: the index, or the nearest expiry, is not what the
\* next call starts from.
ReturnEarly ==
  /\ side' = IF side = "call" THEN "put" ELSE "init"
  /\ min_expire_date' = Far
  /\ pos' = 0

ReturnKeeping ==
  /\ side' = IF side = "call" THEN "put" ELSE "init"
  /\ UNCHANGED min_expire_date
  /\ pos' = 1

\* The call returns what it has; the next one starts over.
Return ==
  /\ side' = IF side = "call" THEN "put" ELSE "init"
  /\ min_expire_date' = Far
  /\ pos' = 1

\* The date or the side is not in the file.
KeyMissing ==
  /\ side \in Sides
  /\ res[side].missing
  /\ Return
  /\ UNCHANGED <<res, option_chains, accepted>>

AtEntry == side \in Sides /\ ~res[side].missing /\ pos <= Len(res[side].entries)

\* Mutated form of Keep: entries are compared with an expiry that is never
\* updated.
KeepForgetting ==
  /\ AtEntry
  /\ LET e == res[side].entries[pos]
     IN  /\ e.expire_date <= min_expire_date
         /\ option_chains' = [option_chains EXCEPT ![side] = Append(@, e)]
  /\ pos' = pos + 1
  /\ UNCHANGED <<res, side, min_expire_date, accepted>>

\* An entry that does not expire later than all before it is taken over.
Keep ==
  /\ AtEntry
  /\ LET e == res[side].entries[pos]
     IN  /\ e.expire_date <= min_expire_date
         /\ min_expire_date' = e.expire_date
         /\ option_chains' = [option_chains EXCEPT ![side] = Append(@, e)]
  /\ pos' = pos + 1
  /\ UNCHANGED <<res, side, accepted>>

\* The first entry of a later expiry ends the loop.
Break ==
  /\ AtEntry
  /\ res[side].entries[pos].expire_date > min_expire_date
  /\ Return
  /\ UNCHANGED <<res, option_chains, accepted>>

EndOfArray ==
  /\ side \in Sides /\ ~res[side].missing
  /\ pos > Len(res[side].entries)
  /\ Return
  /\ UNCHANGED <<res, option_chains, accepted>>

\* Mutated form of InitTests: the sizes are not compared.
InitTestsEmptyOnly ==
  /\ side = "init" /\ accepted = "unknown"
  /\ accepted' =
       IF option_chains["call"] = <<>> \/ option_chains["put"] = <<>> THEN "no" ELSE "yes"
  /\ UNCHANGED <<res, side, min_expire_date, pos, option_chains>>

\* The two tests at the head of init().
InitTests ==
  /\ side = "init" /\ accepted = "unknown"
  /\ accepted' =
       IF \/ option_chains["call"] = <<>> \/ option_chains["put"] = <<>>
          \/ Len(option_chains["call"]) # Len(option_chains["put"])
       THEN "no" ELSE "yes"
  /\ UNCHANGED <<res, side, min_expire_date, pos, option_chains>>

Next == KeyMissing \/ Keep \/ Break \/ EndOfArray \/ InitTests

Spec == Init /\ [][Next]_chainsVars
-----------------------------------------------------------------------------
\* The variables have the types of their C++ counterparts, and a chain never
\* grows past its array.
TypeOK ==
  /\ res \in [Sides -> [missing : {TRUE}] \union
                       [missing : {FALSE}, entries : Seq(Entry)]]
  /\ side \in Sides \union {"init"}
  /\ min_expire_date \in Terms \union {Far}
  /\ pos \in Nat \ {0}
  /\ option_chains \in [Sides -> Seq(Entry)]
  /\ accepted \in {"unknown", "yes", "no"}

\* A side whose call has returned.
Parsed(s) == side = "init" \/ (s = "call" /\ side = "put")

EntriesOf(s) == IF res[s].missing THEN <<>> ELSE res[s].entries

NonIncreasing(entries) ==
  \A i \in 1..(Len(entries) - 1) : entries[i + 1].expire_date <= entries[i].expire_date

Ascending(entries) ==
  \A i, j \in DOMAIN entries : i < j => entries[i].expire_date <= entries[j].expire_date

\* Whatever the order of the listing, a chain is its longest prefix in which
\* no contract expires later than the one before it (process.cpp:57-84).
LongestPrefix ==
  \A s \in Sides :
    /\ IsPrefix(option_chains[s], EntriesOf(s))
    /\ NonIncreasing(option_chains[s])
    /\ Parsed(s) =>
         \/ option_chains[s] = EntriesOf(s)
         \/ ~NonIncreasing(SubSeq(EntriesOf(s), 1, Len(option_chains[s]) + 1))

\* When the listing goes from near to far expiries, a chain holds exactly the
\* contracts of the nearest expiry, in their order (process.cpp:57-84).
NearestExpiry ==
  \A s \in Sides :
    Parsed(s) /\ Ascending(EntriesOf(s)) =>
      /\ IsPrefix(option_chains[s], EntriesOf(s))
      /\ \A i \in DOMAIN EntriesOf(s) :
           i <= Len(option_chains[s]) <=>
             EntriesOf(s)[i].expire_date = EntriesOf(s)[1].expire_date

\* The contracts of the nearest expiry in an ascending array.
FirstExpiry(s) ==
  {e \in Range(EntriesOf(s)) : e.expire_date = EntriesOf(s)[1].expire_date}

StrikesAscend(s) ==
  \A i, j \in DOMAIN EntriesOf(s) :
    i < j /\ EntriesOf(s)[i].expire_date = EntriesOf(s)[j].expire_date
      => EntriesOf(s)[i].strike_price < EntriesOf(s)[j].strike_price

\* calc_and_save and merge_future_price_calc pair the chains by position.  If
\* both sides of the listing go from near to far and list every expiry by
\* ascending strike, and only one of them may lack contracts of the nearest
\* expiry, an accepted day pairs every call with the put of its strike and
\* expiry, whatever the two sides list behind: a side that lacks one is turned
\* down (process.cpp:164, 269-270, 369-370).
PairedByPosition ==
  /\ accepted = "yes"
  /\ \A s \in Sides : Ascending(EntriesOf(s)) /\ StrikesAscend(s)
  /\ \/ FirstExpiry("call") \subseteq FirstExpiry("put")
     \/ FirstExpiry("put") \subseteq FirstExpiry("call")
  => option_chains["call"] = option_chains["put"]
=============================================================================
