--------------------------- MODULE MCServerProjects ---------------------------
(***************************************************************************)
(* Two projects, one of them called "name", and two requests at a time.    *)
(***************************************************************************)
EXTENDS ServerProjects, TLC

CONSTANTS other, h1, h2

ProjectNames == {Literal, other}
Threads == {h1, h2}
Symmetry == Permutations(Threads)
=============================================================================
