----------------------------- MODULE MCHostLibrary ----------------------------
(***************************************************************************)
(* Numbers of three words of three bits: P = 512 - 8 - 5 = 499 and the     *)
(* curve y^2 = x^3 + 11, whose group has the prime order 457.              *)
(***************************************************************************)
EXTENDS HostLibrary

\* A function without a pattern, for the hash of a hash.
ToyChecksum == [h \in Hashes |-> (5 * h * h + 3) % Base]

\* Words that are zero, one and all ones.
EdgeNumbers == {Value(w, NumWords) : w \in [Words(NumWords) -> {0, 1, Base - 1}]}

\* Every key next to a small one and one near the order.
AllKeyLists == {<<key, 3, N - 1>> : key \in Numbers}

\* Items at the first keys, with the key of the incrementor among them or
\* not, and items that init refuses.
Item(first, last, target, valid) ==
  [first |-> first, last |-> last, target |-> target, valid |-> valid, key |-> first + 5]
DeviceItems ==
  {Item(3, 11, <<"compressed", "address">>, TRUE), Item(5, 13, <<"address">>, TRUE),
   Item(0, 5, <<"address">>, TRUE), Item(5, 4, <<"address">>, TRUE),
   Item(1, 5, <<"uncompressed", "address">>, FALSE), Item(1, 5, <<"other", "address">>, TRUE)}

\* Three points, four (the largest buffer), one (too few to check) and none;
\* and what is no percentage.
DeviceMemUsages ==
  {[percent |-> FALSE, usage |-> n] : n \in {50, 9, 8}}
    \cup {[percent |-> TRUE, usage |-> n] : n \in {0, 45, 101}}

DeviceGrids == <<1, 3>>
DeviceBlocks == <<1, 2>>
=============================================================================
