--------------------------- MODULE MCOrchestrator ---------------------------
(***************************************************************************)
(* Small instances of Orchestrator: the values of its constants.           *)
(***************************************************************************)
EXTENDS Orchestrator, TLC

CONSTANTS j1, j2, j3, k1, k2, w1, w2, p1, p2, s1

\* Every job is an event of the same commit.
Duplicates == [j \in Jobs |-> k1]

\* An event of one commit and two of another.
TwoCommits == [j \in Jobs |-> IF j = j3 THEN k2 ELSE k1]

\* Two events of one commit; the third job, a demo or one whose payload misses
\* a key, has none.
ThirdHasNoCommit == [j \in Jobs |-> IF j = j3 THEN NoKey ELSE k1]

\* Two pairs are one commit in two clones of its repository.
OneSha == [k \in Keys |-> s1]

OneProc == [w \in Workers |-> p1]
TwoProcs == (w1 :> p1) @@ (w2 :> p2)

\* Workers of one process are interchangeable, and so are two events of one
\* commit.
WorkerSymmetry ==
    {f @@ g : f \in Permutations({w1, w2}), g \in Permutations({j1, j2})}

\* So are processes with as many workers each.
ProcSymmetry ==
    {f \in Permutations(Workers \cup Procs) :
        \A w \in Workers : f[w] \in Workers /\ f[Host[w]] = Host[f[w]]}
=============================================================================
