------------------------------- MODULE Domain -------------------------------
(***************************************************************************)
(* The values the components share: the (repo, sha) pairs of the commits   *)
(* and the ids Postgres gives to workflow rows.                            *)
(***************************************************************************)
EXTENDS Naturals

CONSTANTS
    Keys,      \* the (repo, sha) pairs
    NoKey,     \* no such pair: a payload without repo or sha
    MaxRows    \* bound on the workflow rows (a run needs one per job)

ASSUME DomainAssumption ==
    /\ MaxRows \in Nat
    /\ NoKey \notin Keys

\* workflows.id is a serial: 1, 2, ...
Ids == 1..MaxRows

\* No row.
NoId == 0
=============================================================================
