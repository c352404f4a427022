-------------------------------- MODULE KeySpace -------------------------------
(***************************************************************************)
(* How the server cuts a project's keyspace into blocks                    *)
(* (server/BruteForceDB.py).  Python integers do not overflow.  Both ends  *)
(* of a range are keys of it: make_project.py's presets run from 2^i to    *)
(* 2^(i+1) - 1, and the device searches up to and with its end key.        *)
(***************************************************************************)
EXTENDS Integers

\* Mutant of NumBlocksOf: the block that is not full is not counted.
NumFullBlocks(start, end, size) ==
  LET n == (end - start) \div size
  IN  IF n = 0 THEN 1 ELSE n

\* num_blocks: one for every started size keys of end - start, at least one.
NumBlocksOf(start, end, size) ==
  LET n == (end - start + size - 1) \div size
  IN  IF n = 0 THEN 1 ELSE n

\* The key range request_work answers with for block b.
BlockStart(start, size, b) == start + b * size

BlockEnd(start, end, size, b) ==
  LET last == start + (b + 1) * size - 1
  IN  IF last > end THEN end ELSE last
=============================================================================
