------------------------------- MODULE Ledger -------------------------------
(***************************************************************************)
(* What txTheRipper promises about a collection of processed blocks (the   *)
(* archive in sync mode, the notifications in both modes): it grows by     *)
(* ranges that start right after the sync point, and the sync point only   *)
(* moves forward, over blocks that were processed.  So the collection      *)
(* never has a hole below its sync point, whatever fails in between.       *)
(* README.md calls this picking up from the same spot.                     *)
(***************************************************************************)
EXTENDS Integers

CONSTANTS FirstSync, MaxHeight, EmptyBlocks

VARIABLES synced, done

ledger == <<synced, done>>

TxBlocks(lo, hi) == {b \in lo..hi : b \notin EmptyBlocks}

Init == synced = FirstSync /\ done = {}

\* A range that starts after the sync point is processed, all of it at once.
Process(p) ==
  /\ p \in synced + 1 .. MaxHeight
  /\ done' = done \cup TxBlocks(synced + 1, p)
  /\ UNCHANGED synced

\* The sync point moves over processed blocks.
Advance(p) ==
  /\ p \in synced + 1 .. MaxHeight
  /\ TxBlocks(synced + 1, p) \subseteq done
  /\ synced' = p
  /\ UNCHANGED done

Next == \E p \in synced + 1 .. MaxHeight : Process(p) \/ Advance(p)

Spec == Init /\ [][Next]_ledger

\* No block with transactions is missing up to the sync point.
NoHole == TxBlocks(FirstSync + 1, synced) \subseteq done
=============================================================================
