----------------------------- MODULE MCBruteForceDB ----------------------------
(***************************************************************************)
(* Small instances of BruteForceDB for TLC.                                *)
(***************************************************************************)
EXTENDS BruteForceDB, TLC

\* Handlers and unit ids are interchangeable: nothing compares or orders them.
Symmetry == Permutations(Handlers) \cup Permutations(Units)
\* No block holds the key: the whole keyspace has to be searched.
NoKey == -1
=============================================================================
