------------------------------ MODULE MCDedup -------------------------------
(***************************************************************************)
(* Small instances of Dedup: three callers (Ids = 1..MaxRows), two commits.*)
(***************************************************************************)
EXTENDS Dedup, TLC

CONSTANTS k1, k2

KeySymmetry == Permutations(Keys)
=============================================================================
