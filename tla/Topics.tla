------------------------------- MODULE Topics -------------------------------
(***************************************************************************)
(* extractTopicsFromInputData of utils/txUtils.js: from the trace of a     *)
(* block, a sequence of items, to the transactions of the block and the    *)
(* accounts each of them involves.                                         *)
(*                                                                         *)
(* An item has the hash of its transaction (None for a reward), an error   *)
(* flag, from and to, the address it created when it is a create, and its  *)
(* input: None, or a sequence of words of 32 bytes, each of which is one   *)
(* of the Accounts (padded the way an address is) or anything else.        *)
(***************************************************************************)
EXTENDS Integers, Sequences, FiniteSets, SequencesExt

CONSTANTS Accounts, None

ASSUME NoneIsNoAccount == None \notin Accounts

\* An item that failed, or that belongs to no transaction, counts for nothing.  A call
\* that succeeded inside one that failed does count.
Counts(item) == ~item.error /\ item.hash # None

\* What a loop pushes under a condition: SelectSeq, by a fold.
Select(s, Test(_)) == FoldLeft(LAMBDA acc, e : IF Test(e) THEN Append(acc, e) ELSE acc, <<>>, s)

\* decodeInputData: the words that may be addresses.
DecodeInputData(input) == Select(input, LAMBDA w : w \in Accounts)

Insert(s, e) == IF e \in ToSet(s) THEN s ELSE Append(s, e)

\* Faulty: a list in the place of the Set.
ElementsListed(s) == s

\* The elements of new Set(s), in their order.
Elements(s) == FoldLeft(Insert, <<>>, s)

Given(a) == IF a = None THEN <<>> ELSE <<a>>

\* Faulty: from, to and created are those of the first item only.
AddTopicsOnce(acc, item) ==
  LET decoded == IF acc.inputFound \/ item.input = None
                   THEN <<>> ELSE DecodeInputData(item.input)
      parties == IF acc.topics # <<>> THEN <<>>
                 ELSE Given(item.from) \o Given(item.to) \o Given(item.created)
  IN [topics |-> acc.topics \o decoded \o parties,
      inputFound |-> acc.inputFound \/ decoded # <<>>]

\* One item of a group: the inputs are looked at until one of them has addresses.
AddTopics(acc, item) ==
  LET decoded == IF acc.inputFound \/ item.input = None
                   THEN <<>> ELSE DecodeInputData(item.input)
      parties == Given(item.from) \o Given(item.to) \o Given(item.created)
  IN [topics |-> acc.topics \o decoded \o parties,
      inputFound |-> acc.inputFound \/ decoded # <<>>]

\* The keys of txnsPre: the hashes in the order in which they are first met.
Hashes(trace) ==
  FoldLeft(LAMBDA acc, item : IF Counts(item) THEN Insert(acc, item.hash) ELSE acc, <<>>, trace)

InGroup(item, h) == Counts(item) /\ item.hash = h

\* What the items of the group of h give, one after the other.
GroupTopics(trace, h) ==
  FoldLeft(LAMBDA acc, item : IF InGroup(item, h) THEN AddTopics(acc, item) ELSE acc,
           [topics |-> <<>>, inputFound |-> FALSE], trace)

\* txns: for each transaction the Set of its topics, in the order of insertion.
ExtractTopics(trace) ==
  LET hashes == Hashes(trace)
  IN [i \in DOMAIN hashes |->
       [hash |-> hashes[i], topics |-> Elements(GroupTopics(trace, hashes[i]).topics)]]

\* A trace, as the node gives it.
IsTrace(trace) ==
  /\ trace \in Seq(ToSet(trace))
  /\ \A item \in ToSet(trace) :
       /\ item.error \in BOOLEAN
       /\ {item.from, item.to, item.created} \subseteq Accounts \cup {None}
       /\ item.input # None => item.input \in Seq(ToSet(item.input))

-----------------------------------------------------------------------------
(* What a reader of the trace would say: the accounts that take part in an   *)
(* item of the transaction, and those in the first input that names any.     *)

Touched(trace, h) ==
  LET items   == {i \in DOMAIN trace : InGroup(trace[i], h)}
      parties == UNION {{trace[i].from, trace[i].to, trace[i].created} : i \in items}
      naming  == {i \in items : /\ trace[i].input # None
                                /\ ToSet(trace[i].input) \cap Accounts # {}}
      first   == {i \in naming : \A j \in naming : i <= j}
  IN (parties \cup UNION {ToSet(trace[i].input) : i \in first}) \cap Accounts
=============================================================================
