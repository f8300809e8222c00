--------------------------- MODULE WorkflowStore ----------------------------
(***************************************************************************)
(* The Postgres rows of a commit workflow (core/memory/models.py) and the  *)
(* session helpers that write them.  session_scope commits a whole block   *)
(* or rolls it back, so a helper is one atomic write; that it may instead  *)
(* fail, or commit and lose the reply, is in CommitPipeline.               *)
(*                                                                         *)
(* A workflow's tasks are indexed by their position in task_chain: each    *)
(* step inserts one Task.  The reaper reads created_at of running rows     *)
(* only, so an age is the ticks a row has been running, saturated one      *)
(* above the reaper's limit, where nothing tells two ages apart.           *)
(***************************************************************************)
EXTENDS Domain, Sequences

CONSTANTS
    MaxAge,    \* orphan_workflow_max_age_seconds, in ticks
    Shas,      \* the shas of the commits
    ShaOf      \* ShaOf[k]: the sha of the pair k; two clones share it

ASSUME StoreAssumption == MaxAge \in Nat /\ ShaOf \in [Keys -> Shas]

\* task_chain = ["summarize", "draft_social", "save", "request_approval"]
Steps == 1..4

VARIABLES
    nextId,      \* the serial of workflows.id
    status,      \* status[i]: Workflow.status
    wfKey,       \* wfKey[i]: the (repo, sha) in the row's first log entry
    logs,        \* logs[i]: the events of Workflow.logs
    age,         \* age[i]: ticks since Workflow.created_at, while running
    task,        \* task[i][n]: the status of the n-th Task of workflow i
    memories,    \* the workflows with a Memory row
    embedded,    \* those whose Memory row has its embedding_id
    vectors,     \* vectors[s]: the workflow whose content the document
                 \* commit:<s> has, NoId when there is no such document
    approvals,   \* the workflows with an Approval row
    delivered    \* those whose Approval row has its delivered_via

storeVars == <<nextId, status, wfKey, logs, age, task, memories, embedded,
               vectors, approvals, delivered>>

Terminal == {"completed", "failed", "interrupted"}
RowStatus == {"absent", "running"} \cup Terminal

Events == {"workflow_started", "summary_done", "social_done",
           "approval_sent", "workflow_completed", "workflow_failed",
           "workflow_interrupted_at_startup"}

StoreTypeOK ==
    /\ nextId \in 1..(MaxRows + 1)
    /\ status \in [Ids -> RowStatus]
    /\ wfKey \in [Ids -> Keys \cup {NoKey}]
    /\ logs \in [Ids -> Seq(Events)]
    /\ age \in [Ids -> 0..(MaxAge + 1)]
    /\ task \in [Ids -> [Steps -> RowStatus]]
    /\ memories \in SUBSET Ids
    /\ embedded \in SUBSET Ids
    /\ vectors \in [Shas -> Ids \cup {NoId}]
    /\ approvals \in SUBSET Ids
    /\ delivered \in SUBSET Ids

StoreInit ==
    /\ nextId = 1
    /\ status = [i \in Ids |-> "absent"]
    /\ wfKey = [i \in Ids |-> NoKey]
    /\ logs = [i \in Ids |-> <<>>]
    /\ age = [i \in Ids |-> 0]
    /\ task = [i \in Ids |-> [n \in Steps |-> "absent"]]
    /\ memories = {}
    /\ embedded = {}
    /\ vectors = [s \in Shas |-> NoId]
    /\ approvals = {}
    /\ delivered = {}

\* Faulty variant: an id is given out twice.
insert_reusing_id(k) ==
    /\ nextId \in Ids
    /\ status' = [status EXCEPT ![nextId] = "running"]
    /\ wfKey' = [wfKey EXCEPT ![nextId] = k]
    /\ logs' = [logs EXCEPT ![nextId] = <<"workflow_started">>]
    /\ UNCHANGED <<nextId, age, task, memories, embedded, vectors, approvals,
                   delivered>>

\* INSERT of a running Workflow for the pair k, with its first log entry.
insert_workflow(k) ==
    /\ nextId \in Ids
    /\ nextId' = nextId + 1
    /\ status' = [status EXCEPT ![nextId] = "running"]
    /\ wfKey' = [wfKey EXCEPT ![nextId] = k]
    /\ logs' = [logs EXCEPT ![nextId] = <<"workflow_started">>]
    /\ UNCHANGED <<age, task, memories, embedded, vectors, approvals, delivered>>

\* _create_task, _complete_task and _fail_task.
SetTask(i, n, s) ==
    /\ task' = [task EXCEPT ![i][n] = s]
    /\ UNCHANGED <<nextId, status, wfKey, logs, age, memories, embedded,
                   vectors, approvals, delivered>>

\* _append_log.
append_log(i, e) ==
    /\ logs' = [logs EXCEPT ![i] = Append(@, e)]
    /\ UNCHANGED <<nextId, status, wfKey, age, task, memories, embedded,
                   vectors, approvals, delivered>>

\* _fail_workflow and the last session of _run_pipeline_steps: the row is
\* overwritten whatever its status is.
end_workflow(i, s, e) ==
    /\ status' = [status EXCEPT ![i] = s]
    /\ logs' = [logs EXCEPT ![i] = Append(@, e)]
    /\ UNCHANGED <<nextId, wfKey, age, task, memories, embedded, vectors,
                   approvals, delivered>>

\* Faulty variant: the reaper selects by age alone.
OrphansOfAnyStatus == {i \in Ids : age[i] > MaxAge}

\* The rows reap_orphan_workflows selects: running, created before the cutoff.
Orphans == {i \in Ids : status[i] = "running" /\ age[i] > MaxAge}

\* Faulty variant: the reaper forgets the tasks.
reap_rows_only(S, seen) ==
    /\ status' = [i \in Ids |-> IF i \in S THEN "interrupted" ELSE status[i]]
    /\ UNCHANGED <<nextId, wfKey, logs, age, task, memories, embedded, vectors,
                   approvals, delivered>>

\* The commit of reap_orphan_workflows for the rows S it selected, whose logs
\* were `seen` then: the UPDATE of a workflow looks neither at its status nor
\* at its logs again, the UPDATE of its tasks takes the ones running now.
reap(S, seen) ==
    /\ status' = [i \in Ids |-> IF i \in S THEN "interrupted" ELSE status[i]]
    /\ logs' = [i \in Ids |->
                  IF i \in S
                  THEN Append(seen[i], "workflow_interrupted_at_startup")
                  ELSE logs[i]]
    /\ task' = [i \in Ids |-> [n \in Steps |->
                  IF i \in S /\ task[i][n] = "running"
                  THEN "interrupted" ELSE task[i][n]]]
    /\ UNCHANGED <<nextId, wfKey, age, memories, embedded, vectors, approvals,
                   delivered>>

\* One tick of the clock.
StoreTick ==
    /\ age' = [i \in Ids |->
                 IF status[i] = "running" /\ age[i] <= MaxAge
                 THEN age[i] + 1 ELSE age[i]]
    /\ UNCHANGED <<nextId, status, wfKey, logs, task, memories, embedded,
                   vectors, approvals, delivered>>
=============================================================================
