------------------------------ MODULE MCCards -------------------------------
(***************************************************************************)
(* Small instances of Cards: one card (cards share nothing but the API's   *)
(* settings), three requests, and the timeout and retries of the settings. *)
(***************************************************************************)
EXTENDS Cards, TLC

CONSTANTS c1, r1, r2, r3

RequestSymmetry == Permutations(Requests)
=============================================================================
