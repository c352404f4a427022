-------------------------- MODULE WorkUnitSharesProofs -------------------------
(***************************************************************************)
(* Theorems about WorkUnitShares, for keys, blocks, shares and words of    *)
(* any size.                                                               *)
(***************************************************************************)
EXTENDS WorkUnitShares, TLAPS

\* The cursor stands at the end of the shares cut so far, and between the
\* ends of the range as long as the range has more than one key.
Cursor ==
  /\ first < last => first <= key /\ key <= last
  /\ item = 0 => key = first
  /\ pc = "done" => key >= last

\* Every key up to the cursor is in a share.
NoGap == item > 0 => \A k \in first .. key : \E i \in 0 .. item - 1 : InShare(k, i)

IInv == TypeOK /\ Cursor /\ NoGap /\ AvailableIsUnfinished

\* Each division leaves an integer.
LEMMA DivInt ==
  ASSUME NEW a \in Int, NEW b \in Nat \ {0}
  PROVE  a \div b \in Int
OBVIOUS

LEMMA StepOfKeys ==
  ASSUME TypeOK
  PROVE  Inc \in Nat
BY WordAssumption, SizesAssumption DEF TypeOK, Inc, TotalKeys

\* create_project and request_work hand the client whole keys.
LEMMA InitTypes ==
  ASSUME Init
  PROVE  TypeOK
<1> DEFINE N == NumBlocksOf(project.start, project.end, project.size)
<1>1. /\ project \in Projects /\ project.start \in Int /\ project.end \in Int
      /\ project.size \in Nat \ {0}
  <2>0. project \in Projects
    BY DEF Init
  <2>1. project \in [start : 0 .. MaxKey, end : 0 .. MaxKey, size : BlockSizes]
    BY <2>0 DEF Projects
  <2>2. project.start \in 0 .. MaxKey /\ project.end \in 0 .. MaxKey /\ project.size \in BlockSizes
    BY <2>1
  <2>3. project.size \in Nat \ {0}
    BY <2>2, SizesAssumption
  <2>4. project.start \in Int /\ project.end \in Int
    BY <2>2, MaxKeyAssumption
  <2> QED BY <2>0, <2>3, <2>4
<1>2. N \in Int
  BY <1>1, DivInt DEF NumBlocksOf
<1> HIDE DEF N
<1>3. PICK b \in 0 .. N : /\ first = BlockStart(project.start, project.size, b)
                          /\ last = BlockEnd(project.start, project.end, project.size, b)
  BY DEF Init, N
<1>4. b \in Int
  BY <1>2, <1>3
<1>5. first \in Int
  BY <1>1, <1>3, <1>4 DEF BlockStart
<1>6. last \in Int
  BY <1>1, <1>3, <1>4 DEF BlockEnd
<1>7. shareSize \in Nat \ {0} /\ shareSize \in ShareSizes
  BY SizesAssumption DEF Init
<1>8. completed \subseteq Nat
  <2>1. (last - first + shareSize - 1) \div shareSize - 1 \in Int
    BY <1>5, <1>6, <1>7, DivInt
  <2> QED BY <2>1 DEF Init, ShareIds
<1> QED BY <1>1, <1>5, <1>6, <1>7, <1>8 DEF Init, TypeOK

LEMMA TypeStep ==
  ASSUME TypeOK, [Next]_vars
  PROVE  TypeOK'
<1>1. CASE Share
  <2>1. NextKey \in Int /\ key \in Int
    BY <1>1, StepOfKeys DEF TypeOK, NextKey
  <2>2. item \in Nat /\ item' = item + 1 /\ item' - 1 = item
    BY <1>1 DEF Share, TypeOK
  <2>3. shares' \in [0 .. item -> [first : Int, last : Int]]
    <3>1. ASSUME NEW i \in 0 .. item, i # item
          PROVE  shares[i] \in [first : Int, last : Int]
      BY <2>2, <3>1 DEF TypeOK
    <3> QED BY <1>1, <2>1, <3>1 DEF Share, NewShare
  <2> QED BY <1>1, <2>1, <2>2, <2>3 DEF Share, TypeOK, unitVars
<1>2. CASE Finish
  BY <1>2 DEF Finish, TypeOK, unitVars
<1>3. CASE Done \/ UNCHANGED vars
  BY <1>3 DEF Done, TypeOK, vars, unitVars
<1> QED BY <1>1, <1>2, <1>3 DEF Next

\* The cursor never passes the last key: the last share is cut off there.
LEMMA CursorStep ==
  ASSUME TypeOK, Cursor, [Next]_vars
  PROVE  Cursor'
<1> USE DEF TypeOK, Cursor
<1>1. CASE Share
  BY <1>1, StepOfKeys DEF Share, NextKey, unitVars
<1>2. CASE Finish
  BY <1>2 DEF Finish, unitVars
<1>3. CASE Done \/ UNCHANGED vars
  BY <1>3 DEF Done, vars, unitVars
<1> QED BY <1>1, <1>2, <1>3 DEF Next

\* A new share starts at the key where the one before it ended.
LEMMA NoGapStep ==
  ASSUME TypeOK, Cursor, NoGap, [Next]_vars
  PROVE  NoGap'
<1>1. CASE Share
  <2>1. /\ key \in Int /\ first \in Int /\ NextKey \in Int /\ item \in Nat
        /\ item' = item + 1 /\ key' = NextKey /\ first' = first
    BY <1>1, StepOfKeys DEF Share, NextKey, TypeOK, unitVars
  <2>2. shares' = [i \in 0 .. item |-> IF i = item THEN [first |-> key, last |-> NextKey]
                                                   ELSE shares[i]]
    BY <1>1 DEF Share, NewShare
  <2>3. \A i \in 0 .. item - 1 : shares'[i] = shares[i]
    BY <2>1, <2>2
  <2>4. shares'[item].first = key /\ shares'[item].last = NextKey
    BY <2>1, <2>2
  <2>5. ASSUME NEW k \in first .. NextKey
        PROVE  \E i \in 0 .. item : shares'[i].first <= k /\ k <= shares'[i].last
    <3>1. CASE k >= key
      BY <2>1, <2>4, <2>5, <3>1
    <3>2. CASE k < key
      <4>1. item > 0
        BY <2>1, <2>5, <3>2 DEF Cursor
      <4>2. PICK i \in 0 .. item - 1 : InShare(k, i)
        BY <2>1, <2>5, <3>2, <4>1 DEF NoGap
      <4>3. i \in 0 .. item /\ shares'[i] = shares[i]
        BY <2>1, <2>3, <4>2
      <4> QED BY <4>2, <4>3 DEF InShare
    <3> QED BY <2>1, <2>5, <3>1, <3>2
  <2> QED BY <2>1, <2>5 DEF NoGap, InShare
<1>2. CASE Finish \/ Done \/ UNCHANGED vars
  BY <1>2 DEF Finish, Done, vars, unitVars, NoGap, InShare
<1> QED BY <1>1, <1>2 DEF Next

\* A share is made available exactly when it is numbered and not finished.
LEMMA AvailableStep ==
  ASSUME TypeOK, AvailableIsUnfinished, [Next]_vars
  PROVE  AvailableIsUnfinished'
<1> USE DEF TypeOK, AvailableIsUnfinished
<1>1. CASE Share
  <2>1. item \in Nat /\ item' = item + 1 /\ completed' = completed
    BY <1>1 DEF Share, unitVars
  <2>2. (0 .. item' - 1) \ completed' = ((0 .. item - 1) \ completed) \cup ({item} \ completed)
    BY <2>1
  <2>3. available' = available \cup ({item} \ completed)
    BY <1>1 DEF Share
  <2> QED BY <2>2, <2>3
<1>2. CASE Finish \/ Done \/ UNCHANGED vars
  BY <1>2 DEF Finish, Done, vars, unitVars
<1> QED BY <1>1, <1>2 DEF Next

-----------------------------------------------------------------------------
THEOREM Invariance == Spec => []IInv
<1>1. Init => IInv
  <2> SUFFICES ASSUME Init PROVE IInv
    OBVIOUS
  <2>1. TypeOK
    BY InitTypes
  <2>2. Cursor
    BY <2>1 DEF Init, Cursor, TypeOK
  <2>3. NoGap /\ AvailableIsUnfinished
    BY DEF Init, NoGap, AvailableIsUnfinished
  <2> QED BY <2>1, <2>2, <2>3 DEF IInv
<1>2. IInv /\ [Next]_vars => IInv'
  BY TypeStep, CursorStep, NoGapStep, AvailableStep DEF IInv
<1> QED BY <1>1, <1>2, PTL DEF Spec

\* When init has run, every key of a range with two keys or more is in a
\* share: the client searches the whole of such a range before it reports it.
THEOREM RangeIsSharedThm == Spec => []RangeIsShared
<1>1. IInv => RangeIsShared
  <2> SUFFICES ASSUME IInv, pc = "done", first < last
               PROVE  \A k \in first .. last : \E i \in 0 .. item - 1 : InShare(k, i)
    BY DEF RangeIsShared
  <2>1. key = last /\ item > 0
    BY DEF IInv, TypeOK, Cursor
  <2> QED BY <2>1 DEF IInv, NoGap
<1> QED BY <1>1, Invariance, PTL

\* The work that is left is exactly the shares that are not finished.
THEOREM AvailableIsUnfinishedThm == Spec => []AvailableIsUnfinished
BY Invariance, PTL DEF IInv

-----------------------------------------------------------------------------
(* Numbers of shares *)

\* A block is not longer than a word can say: a block has at most 2^56 keys
\* (make_project.py), and a word 64 bits.
BlocksFit == \A size \in BlockSizes : size <= Word

LEMMA Distribute ==
  ASSUME NEW i \in Int, NEW n \in Int
  PROVE  /\ i * n \in Int
         /\ (i + 1) * n = i * n + n
OBVIOUS

\* Rounding up.
LEMMA Quotient ==
  ASSUME NEW a \in Nat, NEW n \in Nat \ {0}, NEW m \in Nat, a <= m * n
  PROVE  (a + n - 1) \div n <= m
<1> DEFINE q == (a + n - 1) \div n
<1>1. q \in Int /\ q * n <= a + n - 1
  OBVIOUS
<1> HIDE DEF q
<1>2. SUFFICES ASSUME q >= m + 1 PROVE FALSE
  BY <1>1 DEF q
<1>3. q * n >= (m + 1) * n
  BY <1>1, <1>2
<1>4. (m + 1) * n = m * n + n
  BY Distribute
<1> QED BY <1>1, <1>3, <1>4

\* The cursor after n shares.
After(n) == IF first + n * shareSize > last THEN last ELSE first + n * shareSize

Multiples ==
  /\ first < last => last - first < Word
  /\ first < last => key = After(item)
  /\ first >= last => item = 0
  /\ completed \subseteq ShareIds(first, last, shareSize)

\* The range of a block is shorter than the block's size.
LEMMA RangeFits ==
  ASSUME BlocksFit, Init
  PROVE  Multiples
<1>1. TypeOK
  BY InitTypes
<1>2. shareSize \in Nat \ {0} /\ first \in Int /\ last \in Int
  BY <1>1, SizesAssumption DEF TypeOK
<1>3. PICK b \in 0 .. NumBlocksOf(project.start, project.end, project.size) :
         /\ first = BlockStart(project.start, project.size, b)
         /\ last = BlockEnd(project.start, project.end, project.size, b)
  BY DEF Init
<1>4. /\ project.start \in Int /\ project.end \in Int
      /\ project.size \in Nat \ {0} /\ project.size \in BlockSizes
  <2>1. project \in [start : 0 .. MaxKey, end : 0 .. MaxKey, size : BlockSizes]
    BY <1>1 DEF TypeOK, Projects
  <2>2. project.start \in 0 .. MaxKey /\ project.end \in 0 .. MaxKey /\ project.size \in BlockSizes
    BY <2>1
  <2>3. project.size \in Nat \ {0}
    BY <2>2, SizesAssumption
  <2> QED BY <2>2, <2>3, MaxKeyAssumption
<1>5. last - first < project.size
  <2>1. (b + 1) * project.size = b * project.size + project.size /\ b * project.size \in Int
    BY <1>4, Distribute
  <2>2. last <= project.start + (b + 1) * project.size - 1
    BY <1>3, <1>4, <2>1 DEF BlockEnd
  <2> QED BY <1>3, <1>4, <1>2, <2>1, <2>2 DEF BlockStart
<1>6. first < last => last - first < Word
  BY <1>2, <1>4, <1>5, WordAssumption DEF BlocksFit
<1>7. 0 * shareSize = 0
  BY <1>2
<1> QED BY <1>2, <1>6, <1>7 DEF Init, Multiples, After

LEMMA MultiplesStep ==
  ASSUME TypeOK, Cursor, Multiples, NumbersAreStable, [Next]_vars
  PROVE  Multiples' /\ NumbersAreStable'
<1>1. CASE Share
  <2>1. /\ first \in Int /\ last \in Int /\ item \in Nat /\ shareSize \in Nat \ {0}
        /\ first < last /\ key = After(item) /\ key < last
    BY <1>1, SizesAssumption DEF TypeOK, Cursor, Multiples, Share
  <2>2. TotalKeys = last - first
    BY <2>1, WordAssumption DEF TotalKeys, Multiples
  <2>3. item * shareSize \in Int /\ (item + 1) * shareSize = item * shareSize + shareSize
        /\ item * shareSize >= 0
    BY <2>1, Distribute
  <2>4. key = first + item * shareSize
    BY <2>1, <2>3 DEF After
  <2>5. NextKey = After(item + 1)
    BY <2>1, <2>2, <2>3, <2>4 DEF NextKey, Inc, After
  <2>6. /\ item' = item + 1 /\ key' = NextKey /\ UNCHANGED unitVars
        /\ shares' = [i \in 0 .. item |-> IF i = item THEN [first |-> key, last |-> NextKey]
                                                      ELSE shares[i]]
    BY <1>1 DEF Share, NewShare
  <2>7. Multiples'
    BY <2>1, <2>5, <2>6 DEF Multiples, After, unitVars
  <2>8. ASSUME NEW i \in 0 .. item
        PROVE  shares'[i] = [first |-> first + i * shareSize,
                             last  |-> IF first + (i + 1) * shareSize > last THEN last
                                       ELSE first + (i + 1) * shareSize]
    <3>1. CASE i = item
      BY <2>4, <2>5, <2>6, <3>1 DEF After
    <3>2. CASE i # item
      <4>1. i \in 0 .. item - 1
        BY <2>1, <3>2
      <4>2. shares'[i] = shares[i]
        BY <2>6, <3>2
      <4> QED BY <4>1, <4>2 DEF NumbersAreStable
    <3> QED BY <3>1, <3>2
  <2>9. item' - 1 = item
    BY <2>1, <2>6
  <2>10. NumbersAreStable'
    BY <2>6, <2>8, <2>9 DEF NumbersAreStable, unitVars
  <2> QED BY <2>7, <2>10
<1>2. CASE Finish \/ Done \/ UNCHANGED vars
  BY <1>2 DEF Finish, Done, vars, unitVars, Multiples, NumbersAreStable, After
<1> QED BY <1>1, <1>2 DEF Next

LEMMA MultiplesHold == BlocksFit => (Spec => [](Multiples /\ NumbersAreStable))
<1> SUFFICES ASSUME BlocksFit PROVE Spec => [](Multiples /\ NumbersAreStable)
  OBVIOUS
<1>1. Init => Multiples /\ NumbersAreStable
  BY RangeFits DEF Init, NumbersAreStable
<1>2. IInv /\ Multiples /\ NumbersAreStable /\ [Next]_vars => (Multiples /\ NumbersAreStable)'
  BY MultiplesStep DEF IInv
<1> QED BY <1>1, <1>2, Invariance, PTL DEF Spec

\* Whatever was finished before a restart, share number i holds the same keys
\* again, in blocks of any length that a word can say.
THEOREM NumbersAreStableThm == BlocksFit => (Spec => []NumbersAreStable)
BY MultiplesHold, PTL

\* init makes every share that was finished before: no number on disk is lost.
THEOREM CompletedAreSharesThm == BlocksFit => (Spec => []CompletedAreShares)
<1> SUFFICES ASSUME BlocksFit PROVE Spec => []CompletedAreShares
  OBVIOUS
<1>1. IInv /\ Multiples => CompletedAreShares
  <2> SUFFICES ASSUME IInv, Multiples, pc = "done"
               PROVE  completed \subseteq 0 .. item - 1
    BY DEF CompletedAreShares
  <2>1. first \in Int /\ last \in Int /\ item \in Nat /\ shareSize \in Nat \ {0}
    BY SizesAssumption DEF IInv, TypeOK
  <2>2. CASE first >= last
    BY <2>1, <2>2 DEF Multiples, ShareIds
  <2>3. CASE first < last
    <3>1. After(item) >= last
      BY <2>3 DEF IInv, Cursor, Multiples
    <3>2. item * shareSize \in Nat
      BY <2>1
    <3>3. last - first <= item * shareSize /\ last - first \in Nat
      BY <2>1, <2>3, <3>1, <3>2 DEF After
    <3>4. (last - first + shareSize - 1) \div shareSize <= item
      BY <2>1, <3>3, Quotient
    <3>5. (last - first + shareSize - 1) \div shareSize \in Int
      BY <2>1, DivInt
    <3> QED BY <2>1, <2>3, <3>4, <3>5 DEF Multiples, ShareIds
  <2> QED BY <2>1, <2>2, <2>3
<1>2. Spec => [](Multiples /\ NumbersAreStable)
  BY MultiplesHold
<1> QED BY <1>1, <1>2, Invariance, PTL

-----------------------------------------------------------------------------
(* Blocks *)

LEMMA DivMod ==
  ASSUME NEW a \in Nat, NEW n \in Nat \ {0}
  PROVE  /\ a \div n \in Nat /\ a % n \in Nat /\ a % n < n
         /\ a = (a \div n) * n + (a % n)
OBVIOUS

LEMMA Monotone ==
  ASSUME NEW i \in Int, NEW j \in Int, NEW n \in Nat, i <= j
  PROVE  i * n <= j * n /\ i * n \in Int /\ j * n \in Int
OBVIOUS

\* The number of blocks: the last one begins before the last key of a
\* keyspace with two keys or more, and the one after it does not.
LEMMA BlockCount ==
  ASSUME NEW s \in Int, NEW e \in Int, NEW n \in Nat \ {0}, s <= e
  PROVE  LET N == NumBlocksOf(s, e, n)
         IN  /\ N \in Nat \ {0}
             /\ e - s <= N * n
             /\ s < e => (N - 1) * n < e - s
             /\ s = e => N = 1
<1> DEFINE all == (e - s + n - 1) \div n
<1>1. /\ e - s + n - 1 \in Nat
      /\ all \in Nat /\ (e - s + n - 1) % n \in Nat /\ (e - s + n - 1) % n < n
      /\ e - s + n - 1 = all * n + ((e - s + n - 1) % n)
  <2>1. e - s + n - 1 \in Nat
    OBVIOUS
  <2> QED BY <2>1, DivMod
<1>2. all * n \in Int /\ (all - 1) * n = all * n - n
  BY <1>1
<1> HIDE DEF all
<1>3. e - s <= all * n /\ all * n <= e - s + n - 1
  BY <1>1, <1>2
<1>4. CASE s = e
  <2>1. all = 0
    <3>1. SUFFICES ASSUME 1 <= all PROVE FALSE
      BY <1>1
    <3>2. 1 * n <= all * n
      BY <1>1, <3>1, Monotone
    <3> QED BY <1>2, <1>3, <1>4, <3>2
  <2>2. NumBlocksOf(s, e, n) = 1
    BY <2>1 DEF NumBlocksOf, all
  <2> QED BY <1>4, <2>2
<1>5. CASE s < e
  <2>1. all # 0
    BY <1>3, <1>5
  <2>2. NumBlocksOf(s, e, n) = all
    BY <2>1 DEF NumBlocksOf, all
  <2> QED BY <1>1, <1>2, <1>3, <1>5, <2>1, <2>2
<1> QED BY <1>4, <1>5

\* A key is in a block if its distance from the first key is.
LEMMA InBlockIs ==
  ASSUME NEW s \in Int, NEW e \in Int, NEW n \in Nat \ {0}, NEW k \in Int, k <= e,
         NEW b \in Nat
  PROVE  /\ b * n \in Int
         /\ BlockStart(s, n, b) <= k /\ k <= BlockEnd(s, e, n, b)
              <=> b * n <= k - s /\ k - s < b * n + n
<1>1. (b + 1) * n = b * n + n /\ b * n \in Int
  BY Distribute
<1> QED BY <1>1 DEF BlockStart, BlockEnd

\* The server's blocks cut the keyspace of any project, of any size: every
\* key is in one block and every block has keys, but for the last key where
\* the keys before it fill the blocks exactly, which is in none.
THEOREM BlocksCoverKeyspaceThm == Spec => []BlocksCoverKeyspace
<1>1. TypeOK => BlocksCoverKeyspace
  <2> SUFFICES ASSUME TypeOK PROVE BlocksCoverKeyspace
    OBVIOUS
  <2> DEFINE s == project.start
             e == project.end
             n == project.size
             N == NumBlocksOf(s, e, n)
             In(k, b) == b * n <= k - s /\ k - s < b * n + n
  <2>1. s \in Int /\ e \in Int /\ n \in Nat \ {0} /\ s <= e
    <3>1. project \in [start : 0 .. MaxKey, end : 0 .. MaxKey, size : BlockSizes] /\ s <= e
      BY DEF TypeOK, Projects
    <3>2. s \in 0 .. MaxKey /\ e \in 0 .. MaxKey /\ n \in BlockSizes
      BY <3>1
    <3>3. n \in Nat \ {0}
      BY <3>2, SizesAssumption
    <3> QED BY <3>1, <3>2, <3>3, MaxKeyAssumption
  <2>2. /\ N \in Nat \ {0} /\ e - s <= N * n /\ N * n \in Int /\ (N - 1) * n \in Int
        /\ s < e => (N - 1) * n < e - s
        /\ s = e => N = 1
    <3>1. N \in Nat \ {0} /\ e - s <= N * n /\ (s < e => (N - 1) * n < e - s) /\ (s = e => N = 1)
      BY <2>1, BlockCount
    <3> QED BY <2>1, <3>1
  <2>3. \A k \in s .. e : \A b \in 0 .. N - 1 :
          /\ b * n \in Int
          /\ InBlock(k, b) <=> In(k, b)
    <3> SUFFICES ASSUME NEW k \in s .. e, NEW b \in 0 .. N - 1
                 PROVE  b * n \in Int /\ (InBlock(k, b) <=> In(k, b))
      OBVIOUS
    <3>1. k \in Int /\ k <= e /\ b \in Nat
      <4> HIDE DEF s, e, N
      <4> QED BY <2>1, <2>2
    <3>2. /\ b * n \in Int
          /\ BlockStart(s, n, b) <= k /\ k <= BlockEnd(s, e, n, b) <=> In(k, b)
      <4> HIDE DEF s, e, n
      <4> QED BY <2>1, <3>1, InBlockIs
    <3> QED BY <3>2 DEF InBlock
  <2>4. ASSUME NEW b \in 0 .. N - 1
        PROVE  /\ BlockStart(s, n, b) >= s
               /\ BlockEnd(s, e, n, b) <= e
               /\ \E k \in s .. e : InBlock(k, b)
    <3> HIDE DEF s, e, n, N, In
    <3>1. b \in Nat /\ b * n <= (N - 1) * n /\ 0 <= b * n /\ b * n \in Int
      <4>1. b \in Int /\ N - 1 \in Int /\ 0 <= b /\ b <= N - 1
        BY <2>2
      <4>2. 0 * n <= b * n
        BY <2>1, <4>1, Monotone
      <4> QED BY <2>1, <4>1, <4>2, Monotone
    <3>2. BlockStart(s, n, b) >= s
      BY <2>1, <3>1 DEF BlockStart
    <3>3. (b + 1) * n = b * n + n
      BY <2>1, <3>1, Distribute
    <3>4. BlockEnd(s, e, n, b) <= e
      BY <2>1, <3>1, <3>3 DEF BlockEnd
    <3>5. s + b * n \in s .. e
      <4>1. CASE s = e
        <5>1. b = 0
          BY <2>2, <4>1
        <5>2. b * n = 0
          BY <2>1, <5>1
        <5> QED BY <2>1, <4>1, <5>2
      <4>2. CASE s < e
        BY <2>1, <2>2, <3>1, <4>2
      <4> QED BY <2>1, <4>1, <4>2
    <3>6. InBlock(s + b * n, b)
      BY <2>1, <2>3, <3>1, <3>5 DEF In
    <3> QED BY <3>2, <3>4, <3>5, <3>6
  <2>5. ASSUME NEW k \in s .. e, NEW b \in 0 .. N - 1, NEW c \in 0 .. N - 1,
               In(k, b), In(k, c), b < c
        PROVE  FALSE
    <3> HIDE DEF s, e, n, N
    <3>1. b + 1 \in Int /\ c \in Int /\ b + 1 <= c /\ b \in Int
      BY <2>2, <2>5
    <3>2. (b + 1) * n <= c * n /\ c * n \in Int
      BY <2>1, <3>1, Monotone
    <3>3. (b + 1) * n = b * n + n /\ b * n \in Int
      BY <2>1, <3>1, Distribute
    <3> QED BY <2>1, <2>5, <3>2, <3>3
  <2>6. ASSUME NEW k \in s .. e, NEW b \in 0 .. N - 1, NEW c \in 0 .. N - 1,
               InBlock(k, b), InBlock(k, c)
        PROVE  b = c
    <3>1. In(k, b) /\ In(k, c)
      BY <2>3, <2>6
    <3>2. ~(b < c) /\ ~(c < b)
      BY <2>5, <3>1
    <3> QED BY <2>2, <3>2
  <2>7. ASSUME NEW k \in s .. e, ~(k = e /\ LastKeyIsLeftOut)
        PROVE  \E b \in 0 .. N - 1 : InBlock(k, b)
    <3> DEFINE q == (k - s) \div n
               r == (k - s) % n
    <3>1. q \in Nat /\ r \in Nat /\ r < n /\ k - s = q * n + r /\ q * n \in Int
      <4>1. k - s \in Nat
        BY <2>1
      <4>2. q \in Nat /\ r \in Nat /\ r < n /\ k - s = q * n + r
        BY <2>1, <4>1, DivMod
      <4> QED BY <2>1, <4>2
    <3>2. k = e /\ s < e => r > 0
      BY <2>1, <2>7, <3>1 DEF LastKeyIsLeftOut
    <3> HIDE DEF s, e, n, N, q, r, In
    <3>3. q <= N - 1
      <4>1. CASE s = e
        <5>1. q * n = 0
          BY <2>1, <3>1, <4>1
        <5>2. q = 0
          <6>1. SUFFICES ASSUME 1 <= q PROVE FALSE
            BY <3>1
          <6>2. 1 * n <= q * n
            BY <2>1, <3>1, <6>1, Monotone
          <6> QED BY <2>1, <5>1, <6>2
        <5> QED BY <2>2, <4>1, <5>2
      <4>2. CASE s < e
        <5>1. SUFFICES ASSUME N <= q PROVE FALSE
          BY <2>2, <3>1
        <5>2. N * n <= q * n
          BY <2>1, <2>2, <3>1, <5>1, Monotone
        <5> QED BY <2>1, <2>2, <3>1, <3>2, <4>2, <5>2
      <4> QED BY <2>1, <4>1, <4>2
    <3>4. q \in 0 .. N - 1 /\ In(k, q)
      BY <2>1, <2>2, <3>1, <3>3 DEF In
    <3> QED BY <2>3, <3>4
  <2>8. ASSUME LastKeyIsLeftOut, NEW b \in 0 .. N - 1, In(e, b)
        PROVE  FALSE
    <3> DEFINE q == (e - s) \div n
    <3>1. q \in Nat /\ e - s = q * n /\ q * n \in Int /\ s < e
      <4>1. e - s \in Nat
        BY <2>1
      <4>2. (e - s) % n = 0 /\ s < e
        BY <2>8 DEF LastKeyIsLeftOut
      <4>3. q \in Nat /\ e - s = q * n + ((e - s) % n)
        BY <2>1, <4>1, DivMod
      <4> QED BY <2>1, <4>2, <4>3
    <3> HIDE DEF s, e, n, N, q
    <3>2. b \in Int /\ b <= N - 1 /\ b * n \in Int
      BY <2>1, <2>2
    <3>3. N <= q
      <4>1. SUFFICES ASSUME q <= N - 1 PROVE FALSE
        BY <2>2, <3>1
      <4>2. q * n <= (N - 1) * n
        BY <2>1, <2>2, <3>1, <4>1, Monotone
      <4> QED BY <2>1, <2>2, <3>1, <4>2
    <3>4. (b + 1) * n <= q * n /\ (b + 1) * n = b * n + n
      BY <2>1, <2>2, <3>1, <3>2, <3>3, Monotone, Distribute
    <3> QED BY <2>1, <2>8, <3>1, <3>2, <3>4
  <2>9. \A k \in s .. e :
          (\E b \in 0 .. N - 1 : InBlock(k, b)) <=> ~(k = e /\ LastKeyIsLeftOut)
    BY <2>3, <2>7, <2>8
  <2> QED BY <2>4, <2>6, <2>9 DEF BlocksCoverKeyspace
<1> QED BY <1>1, Invariance, PTL DEF IInv

=============================================================================
