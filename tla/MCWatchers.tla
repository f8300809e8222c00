----------------------------- MODULE MCWatchers -----------------------------
(***************************************************************************)
(* Small instances of Watchers: two repositories, two heads.               *)
(***************************************************************************)
EXTENDS Watchers

CONSTANTS h1, h2, r1, r2, n1, s1, s2

TwoRepos == <<r1, r2>>
=============================================================================
