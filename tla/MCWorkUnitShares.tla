---------------------------- MODULE MCWorkUnitShares ---------------------------
(***************************************************************************)
(* Keyspaces of up to MaxKey + 1 keys for TLC, with words of three bits:   *)
(* blocks of up to 2^3 keys fit a word, as blocks of up to 2^56 keys       *)
(* (make_project.py:191) fit 64 bits.                                      *)
(***************************************************************************)
EXTENDS WorkUnitShares
=============================================================================
