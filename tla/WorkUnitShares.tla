----------------------------- MODULE WorkUnitShares ----------------------------
(***************************************************************************)
(* BruteForceWorkUnit::init (parcrypt_lib/brute_force_work_unit.cpp): the  *)
(* client cuts the block it was given into numbered shares, when the unit  *)
(* arrives and again whenever it is loaded from disk, where only the       *)
(* numbers of the finished shares are kept.  The unit comes from any block *)
(* of any small project, the range past the last block included, which     *)
(* request_work answers with for an expired unit.                          *)
(***************************************************************************)
EXTENDS KeySpace, FiniteSets

CONSTANTS
  MaxKey,       \* bound: the largest key of a project
  BlockSizes,   \* the values of 2^sharesize
  ShareSizes,   \* the values of _share_size
  Word          \* 2^64: to_uint64 keeps the low 64 bits of a key

ASSUME MaxKeyAssumption == MaxKey \in Nat
ASSUME SizesAssumption  == BlockSizes \subseteq Nat \ {0} /\ ShareSizes \subseteq Nat \ {0}
ASSUME WordAssumption   == Word \in Nat \ {0}

VARIABLES
  project,      \* the project's first and last key and its block size
  first, last,  \* _start and _end: the range the server sent
  shareSize,    \* _share_size
  completed,    \* _completed_work: share numbers
  available,    \* the share numbers in _available_work
  shares,       \* share number -> its first and last key, completed or not
  key, item,    \* key and item_id of the loop
  pc

unitVars == <<project, first, last, shareSize, completed>>
vars     == <<unitVars, available, shares, key, item, pc>>

Projects == {p \in [start : 0 .. MaxKey, end : 0 .. MaxKey, size : BlockSizes] :
               p.start <= p.end}

\* total_keys: a 64-bit value, also when the range is empty and end - start
\* wraps around.
TotalKeys == (last - first) % Word
Inc == IF shareSize < TotalKeys THEN shareSize ELSE TotalKeys

\* The numbers init gives to the shares of a range.
ShareIds(s, e, size) ==
  IF s >= e THEN {} ELSE 0 .. (e - s + size - 1) \div size - 1

TypeOK ==
  /\ project \in Projects
  /\ first \in Int /\ last \in Int
  /\ shareSize \in ShareSizes
  /\ completed \subseteq Nat
  /\ available \subseteq Nat
  /\ key \in Int /\ item \in Nat
  /\ shares \in [0 .. item - 1 -> [first : Int, last : Int]]
  /\ pc \in {"loop", "done"}

Init ==
  /\ project \in Projects
  /\ \E b \in 0 .. NumBlocksOf(project.start, project.end, project.size) :
       /\ first = BlockStart(project.start, project.size, b)
       /\ last = BlockEnd(project.start, project.end, project.size, b)
  /\ shareSize \in ShareSizes
  /\ completed \in SUBSET ShareIds(first, last, shareSize)
  /\ available = {}
  /\ shares = <<>>
  /\ key = first
  /\ item = 0
  /\ pc = "loop"

\* Mutant of NextKey: the last share not cut off at the end of the range.
NextKeyPastEnd == key + Inc

NextKey == IF key + Inc > last THEN last ELSE key + Inc

\* Share number item from the cursor to the key lst.
NewShare(lst) ==
  shares' = [i \in 0 .. item |-> IF i = item THEN [first |-> key, last |-> lst] ELSE shares[i]]

\* Mutants of Share: item_id counted inside the if; finished shares made
\* available as well; shares that end before the next one starts.
ShareUnnumbered ==
  /\ pc = "loop" /\ key < last
  /\ NewShare(NextKey)
  /\ available' = IF item \in completed THEN available ELSE available \cup {item}
  /\ key' = NextKey
  /\ item' = IF item \in completed THEN item ELSE item + 1
  /\ UNCHANGED <<unitVars, pc>>

ShareFinishedToo ==
  /\ pc = "loop" /\ key < last
  /\ NewShare(NextKey)
  /\ available' = available \cup {item}
  /\ key' = NextKey
  /\ item' = item + 1
  /\ UNCHANGED <<unitVars, pc>>

ShareHalfOpen ==
  /\ pc = "loop" /\ key < last
  /\ NewShare(NextKey - 1)
  /\ available' = IF item \in completed THEN available ELSE available \cup {item}
  /\ key' = NextKey
  /\ item' = item + 1
  /\ UNCHANGED <<unitVars, pc>>

Share ==
  /\ pc = "loop" /\ key < last
  /\ NewShare(NextKey)
  /\ available' = IF item \in completed THEN available ELSE available \cup {item}
  /\ key' = NextKey
  /\ item' = item + 1
  /\ UNCHANGED <<unitVars, pc>>

\* Mutant of Finish: the loop left only beyond the last key.
FinishBeyond ==
  /\ pc = "loop" /\ key > last
  /\ pc' = "done"
  /\ UNCHANGED <<unitVars, available, shares, key, item>>

Finish ==
  /\ pc = "loop" /\ key >= last
  /\ pc' = "done"
  /\ UNCHANGED <<unitVars, available, shares, key, item>>

Done == pc = "done" /\ UNCHANGED vars

Next == Share \/ Finish \/ Done

\* init runs to its end: nothing can interrupt the loop.
Spec == Init /\ [][Next]_vars /\ WF_vars(Share \/ Finish)

-----------------------------------------------------------------------------
(* Properties *)

InShare(k, i) == shares[i].first <= k /\ k <= shares[i].last

\* A range of two keys or more is searched to its last key: consecutive
\* shares meet, and the device searches both ends of a share.
RangeIsShared ==
  pc = "done" /\ first < last =>
    \A k \in first .. last : \E i \in 0 .. item - 1 : InShare(k, i)

\* The work left is exactly the shares that are not finished, so a unit with
\* nothing available is done (BruteForceWorkUnit::done) only when every share
\* was finished.
AvailableIsUnfinished == available = (0 .. item - 1) \ completed

\* A share's number says which keys it holds, whatever was finished before:
\* the numbers a restarted client finds on disk mean the same keys again.
NumbersAreStable ==
  \A i \in 0 .. item - 1 :
    shares[i] = [first |-> first + i * shareSize,
                 last  |-> IF first + (i + 1) * shareSize > last THEN last
                           ELSE first + (i + 1) * shareSize]

\* The numbers on disk are those of shares the unit has: none is left over.
CompletedAreShares == pc = "done" => completed \subseteq 0 .. item - 1

\* The loop ends, although it is the 64-bit difference that it steps by.
Terminates == <>(pc = "done")

\* A unit whose range has keys gives work: every one of them is in a share.
\* "Always at least 1 block." (BruteForceDB.py:82) is there for a keyspace of
\* one key, such as the first of make_project.py's presets.
EveryKeyHasAShare ==
  pc = "done" => \A k \in first .. last : \E i \in 0 .. item - 1 : InShare(k, i)

\* The keys of a block of the project.
InBlock(k, b) ==
  /\ BlockStart(project.start, project.size, b) <= k
  /\ k <= BlockEnd(project.start, project.end, project.size, b)

\* Where the keys after the first fill blocks exactly, num_blocks does not
\* count the block that the last key begins.
LastKeyIsLeftOut ==
  /\ project.start < project.end
  /\ (project.end - project.start) % project.size = 0

\* The blocks of a project cut its keyspace: every block has a key, none
\* reaches outside, no key is in two blocks, and a key is in no block exactly
\* if it is the last one and the keys before it fill the blocks.
BlocksCoverKeyspace ==
  LET blocks == 0 .. NumBlocksOf(project.start, project.end, project.size) - 1
  IN  /\ \A b \in blocks : \E k \in project.start .. project.end : InBlock(k, b)
      /\ \A b \in blocks : /\ BlockStart(project.start, project.size, b) >= project.start
                          /\ BlockEnd(project.start, project.end, project.size, b) <= project.end
      /\ \A k \in project.start .. project.end : \A b, c \in blocks :
           InBlock(k, b) /\ InBlock(k, c) => b = c
      /\ \A k \in project.start .. project.end :
           (\E b \in blocks : InBlock(k, b)) <=> ~(k = project.end /\ LastKeyIsLeftOut)
=============================================================================
