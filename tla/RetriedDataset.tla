--------------------------- MODULE RetriedDataset ---------------------------
(***************************************************************************)
(* What the spark-submit step promises to the readers of adg_params.csv,   *)
(* over all its runs: collections are published under output prefixes and  *)
(* may be withdrawn and published again, but a prefix is announced only    *)
(* with every wanted collection under it, and nothing is withdrawn from    *)
(* the prefix that is announced. DatasetRun implements it.                 *)
(***************************************************************************)
EXTENDS Integers

CONSTANTS
  Wanted,    \* collections the readers expect
  Prefixes   \* output prefixes, without 0

VARIABLES
  whole,     \* prefix -> wanted collections that lie there in full
  announced  \* the prefix the readers go by, 0 before the first

Init ==
  /\ whole = [p \in Prefixes |-> {}]
  /\ announced = 0

\* A run publishes or withdraws collections under its prefix.
Work(p) ==
  /\ \E there \in SUBSET Wanted : whole' = [whole EXCEPT ![p] = there]
  /\ p = announced => whole[p] \subseteq whole'[p]
  /\ UNCHANGED announced

\* At its end it announces the prefix.
Announce(p) ==
  /\ whole[p] = Wanted
  /\ announced' = p
  /\ UNCHANGED whole

Next == \E p \in Prefixes : Work(p) \/ Announce(p)

Spec == Init /\ [][Next]_<<whole, announced>>
=============================================================================
