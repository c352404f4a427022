------------------------------ MODULE MCHashDevice -----------------------------
(***************************************************************************)
(* Items of up to MaxKey keys on a device of a few points, for TLC.        *)
(***************************************************************************)
EXTENDS HashDevice
=============================================================================
