--------------------------- MODULE BruteForceWorkUnit --------------------------
(***************************************************************************)
(* A work unit in the client's memory                                      *)
(* (parcrypt_lib/brute_force_work_unit.cpp): a value with the three sets   *)
(* of item numbers the class keeps and whether it knows the private key.   *)
(* The operators are the class's methods; a unit has items 0 .. n - 1,     *)
(* which WorkUnitShares says how to cut from its range.                    *)
(***************************************************************************)
EXTENDS Integers, FiniteSets

\* create (nothing finished) and load (the finished items and the key are
\* read from disk); in both, init makes the rest available.
Restored(n, finished, foundKey) ==
  [available |-> (0 .. n - 1) \ finished, outstanding |-> {},
   completed |-> finished, key |-> foundKey]

Created(n) == Restored(n, {}, FALSE)

\* The part of a unit that save writes.
Saved(wu) == [completed |-> wu.completed, key |-> wu.key]

Done(wu) == wu.available = {}

\* The items get_work may hand out.
Free(wu) == wu.available \ wu.outstanding

\* Mutant of NextItem: items counted from one.
NextItemFromOne(wu) == 1 + CHOOSE i \in Free(wu) : \A j \in Free(wu) : i <= j

\* get_work: the lowest free item (_available_work is an ordered map).
NextItem(wu) == CHOOSE i \in Free(wu) : \A j \in Free(wu) : i <= j

\* Mutant of Taken: the item handed out is not remembered.
TakenUnmarked(wu, i) == wu

Taken(wu, i) == [wu EXCEPT !.outstanding = @ \cup {i}]

\* available_work: a finished item leaves _available_work but stays in
\* _outstanding_work, so the difference can be too small and below zero.
AvailableWork(wu) ==
  IF Done(wu) THEN 0 ELSE Cardinality(wu.available) - Cardinality(wu.outstanding)

\* Mutants of Reported: an aborted item counted as finished, and a key kept
\* only from the last item reported.
ReportedAborted(wu, i, status, foundKey) ==
  [wu EXCEPT !.available = @ \ {i}, !.completed = @ \cup {i}, !.key = @ \/ foundKey]

ReportedLastKey(wu, i, status, foundKey) ==
  IF status = "completed"
  THEN [wu EXCEPT !.available = @ \ {i}, !.completed = @ \cup {i}, !.key = foundKey]
  ELSE [wu EXCEPT !.outstanding = @ \ {i}]

\* report_work for an item in state "completed" or "aborted".
Reported(wu, i, status, foundKey) ==
  IF i \notin wu.outstanding THEN wu
  ELSE IF status = "completed"
       THEN [wu EXCEPT !.available = @ \ {i}, !.completed = @ \cup {i}, !.key = @ \/ foundKey]
       ELSE [wu EXCEPT !.outstanding = @ \ {i}]
=============================================================================
