--------------------------- MODULE WorkflowLedger ---------------------------
(***************************************************************************)
(* What the Postgres rows of commit workflows promise a reader of the      *)
(* dashboard, without workers, queues, claims, tasks or calls that fail:   *)
(* a row is worked on by one run that may abandon it, its audit trail only *)
(* grows and follows the pipeline's order, the work is saved before an     *)
(* approval is asked for, and a row ends once, interrupted only when its   *)
(* run is gone.  Orchestrator implements it (ImplementsLedger).            *)
(***************************************************************************)
EXTENDS Naturals, Sequences

CONSTANT Rows      \* the ids of the rows, given out in order

VARIABLES
    row,     \* row[i]: "absent", "running" or how it ended
    trail,   \* trail[i]: the events of its audit trail
    saved,   \* the rows whose work is in memory
    asked,   \* the rows with an approval card
    held     \* the rows a live run still works on

ledger == <<row, trail, saved, asked, held>>

\* The trail of a run that goes well, up to its end.
Milestones == <<"workflow_started", "summary_done", "social_done",
                "approval_sent">>

Init ==
    /\ row = [i \in Rows |-> "absent"]
    /\ trail = [i \in Rows |-> <<>>]
    /\ saved = {}
    /\ asked = {}
    /\ held = {}

\* The row of a new run; the run may be gone before it learns of it.
Begin(i) ==
    /\ row[i] = "absent"
    /\ \A n \in Rows : n < i => row[n] # "absent"
    /\ row' = [row EXCEPT ![i] = "running"]
    /\ trail' = [trail EXCEPT ![i] = <<Milestones[1]>>]
    /\ held' \in {held, held \cup {i}}
    /\ UNCHANGED <<saved, asked>>

\* A run works on row i, which has not ended.
Working(i) == i \in held /\ row[i] = "running"

\* The next milestone is noted; the last one needs the card.
Note(i) ==
    /\ Working(i)
    /\ Len(trail[i]) < Len(Milestones)
    /\ Len(trail[i]) + 1 = Len(Milestones) => i \in asked
    /\ trail' = [trail EXCEPT ![i] = Append(@, Milestones[Len(@) + 1])]
    /\ UNCHANGED <<row, saved, asked, held>>

\* The work is saved, once summary and social draft are there.
Save(i) ==
    /\ Working(i)
    /\ Len(trail[i]) = 3
    /\ saved' = saved \cup {i}
    /\ UNCHANGED <<row, trail, asked, held>>

Ask(i) ==
    /\ Working(i)
    /\ i \in saved
    /\ asked' = asked \cup {i}
    /\ UNCHANGED <<row, trail, saved, held>>

\* The row ends with its last entry; completed only after every milestone.
Conclude(i, end, event) ==
    /\ Working(i)
    /\ end = "completed" => trail[i] = Milestones
    /\ row' = [row EXCEPT ![i] = end]
    /\ trail' = [trail EXCEPT ![i] = Append(@, event)]
    /\ held' \in {held, held \ {i}}
    /\ UNCHANGED <<saved, asked>>

\* Runs end or die, and let go of their rows.
LetGo ==
    /\ held' \in SUBSET held
    /\ UNCHANGED <<row, trail, saved, asked>>

\* Running rows nobody works on are interrupted, and their trail says so.
Interrupt(S) ==
    /\ \A i \in S : row[i] = "running" /\ i \notin held
    /\ row' = [i \in Rows |-> IF i \in S THEN "interrupted" ELSE row[i]]
    /\ trail' = [i \in Rows |->
                   IF i \in S
                   THEN Append(trail[i], "workflow_interrupted_at_startup")
                   ELSE trail[i]]
    /\ UNCHANGED <<saved, asked, held>>

Next ==
    \/ \E i \in Rows :
         \/ Begin(i) \/ Note(i) \/ Save(i) \/ Ask(i)
         \/ Conclude(i, "completed", "workflow_completed")
         \/ Conclude(i, "failed", "workflow_failed")
    \/ LetGo
    \/ \E S \in SUBSET Rows : Interrupt(S)

Spec == Init /\ [][Next]_ledger
=============================================================================
