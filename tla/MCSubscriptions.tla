--------------------------- MODULE MCSubscriptions ---------------------------
(* Two accounts and the blocks that tell the cases of the extraction apart.  *)
EXTENDS Subscriptions

CONSTANTS a, b, other, h1, h2

MCAccounts   == {a, b}
MCReferences == {a}

Item(h, from, to, input) ==
  [hash |-> h, error |-> FALSE, from |-> from, to |-> to, created |-> None, input |-> input]

Failed(item) == [item EXCEPT !.error = TRUE]

Created(h, from, address) ==
  [hash |-> h, error |-> FALSE, from |-> from, to |-> None, created |-> address, input |-> None]

Reward == Item(None, None, None, None)

MCTraces == {
  \* nested calls: the second input with an address is not looked at
  <<Item(h1, b, b, <<other>>), Item(h1, b, b, <<other, b, b>>), Item(h1, b, b, <<a>>), Reward>>,
  \* a call fails, what it called does not; the groups are interleaved
  <<Failed(Item(h1, a, b, None)), Item(h2, a, a, <<a>>), Item(h1, b, a, <<>>), Item(h2, b, b, None)>>,
  \* creates, one of which fails; the other one is in a call
  <<Failed(Created(h1, b, a)), Item(h2, b, b, <<other>>), Created(h2, b, a)>> }

MCSettings ==
  {[suspend |-> s, unix |-> TRUE, redis |-> TRUE, account |-> TRUE] :
     s \in {"true", "false", "unset"}}
  \cup {[suspend |-> "false", unix |-> FALSE, redis |-> TRUE, account |-> TRUE],
        [suspend |-> "false", unix |-> TRUE, redis |-> FALSE, account |-> FALSE]}
=============================================================================
