--------------------------- MODULE MCEventWatcher ---------------------------
(***************************************************************************)
(* Small instances of EventWatcher: three commits.                         *)
(***************************************************************************)
EXTENDS EventWatcher, TLC

CONSTANTS c1, c2, c3

ShaSymmetry == Permutations(Shas)
=============================================================================
