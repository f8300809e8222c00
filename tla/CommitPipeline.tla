--------------------------- MODULE CommitPipeline ---------------------------
(***************************************************************************)
(* run_commit_pipeline (workflows/commit_pipeline.py) as the workers of    *)
(* the orchestrator execute it: one action per awaited Redis, Postgres or  *)
(* LLM call, because the event loop, other processes and a crash can come  *)
(* between two of them and nowhere else.                                   *)
(*                                                                         *)
(* A call has three outcomes: it succeeds, it raises without effect        *)
(* (RedisError, DbError, LlmError), or it takes effect and the reply is    *)
(* lost (reply = "lost").  The last two happen only for the kinds of fault *)
(* in Faults.  An exception goes where the code's try blocks send it:      *)
(* Raised.                                                                 *)
(***************************************************************************)
EXTENDS RedisQueue, DedupStore, WorkflowStore

CONSTANTS
    Workers,   \* the worker tasks of all processes
    Procs,     \* the orchestrator processes
    Host,      \* Host[w]: the process worker w runs in
    Handled,   \* the commit_pipeline jobs
    Demos,     \* the demo_request jobs; no other type has a handler
    KeyOf,     \* KeyOf[j]: (repo, sha) of the payload, NoKey when one is missing
    NoJob,     \* no job in hand
    Faults     \* the kinds of fault that may happen

ASSUME PipelineAssumption ==
    /\ Host \in [Workers -> Procs]
    /\ Handled \in SUBSET Jobs
    /\ Demos \in SUBSET (Jobs \ Handled)
    /\ KeyOf \in [Jobs -> Keys \cup {NoKey}]
    /\ NoJob \notin Jobs
    /\ Faults \in SUBSET {"crash", "stop", "api", "redis", "db", "llm",
                          "vector"}

VARIABLES
    proc,    \* proc[p]: "down", "reaping", "up" or "stopping"
    pc,      \* pc[w]: the call worker w makes next
    step,    \* step[w]: the step of the pipeline it is in
    job,     \* job[w]: the job it holds
    wf,      \* wf[w]: the id of the row its run inserted
    fate,    \* fate[j]: history, what became of job j
    answer,  \* answer[j]: history, the workflow_id a skip returned
    winners, \* history: the workers whose win has not expired since
    current  \* history: the rows inserted on a win that has not expired since

workerVars == <<pc, step, job, wf>>
historyVars == <<fate, answer, winners, current>>
vars == <<queueVars, dedupVars, storeVars, workerVars, historyVars, proc>>

DbCalls == {"insert", "create_task", "save", "request", "delivered",
            "complete_task", "append_log", "fail_task", "fail_workflow",
            "finish"}
RedisCalls == {"acquire", "get", "attach"}
LlmCalls == {"summarize", "draft"}
InPipeline == DbCalls \cup RedisCalls \cup LlmCalls \cup {"index"}

\* Where the worker is once it runs workflow wf[w].
Running == InPipeline \ {"acquire", "get", "insert"}

PipelineTypeOK ==
    /\ proc \in [Procs -> {"down", "reaping", "up", "stopping"}]
    /\ pc \in [Workers -> InPipeline \cup
                 {"down", "idle", "demo", "fail_job", "dead", "stopped"}]
    /\ step \in [Workers -> Steps]
    /\ job \in [Workers -> Jobs \cup {NoJob}]
    /\ wf \in [Workers -> Ids \cup {NoId}]
    /\ fate \in [Jobs -> {"unsent", "open", "ran", "skipped", "lost",
                        "dropped"}]
    /\ answer \in [Jobs -> Ids \cup {NoId}]
    /\ winners \in SUBSET Workers
    /\ current \in SUBSET Ids

PipelineInit ==
    /\ proc = [p \in Procs |-> "down"]
    /\ pc = [w \in Workers |-> "down"]
    /\ step = [w \in Workers |-> 1]
    /\ job = [w \in Workers |-> NoJob]
    /\ wf = [w \in Workers |-> NoId]
    /\ fate = [j \in Jobs |-> "unsent"]
    /\ answer = [j \in Jobs |-> NoId]
    /\ winners = {}
    /\ current = {}

Key(w) == KeyOf[job[w]]

\* The call whose exception is caught by a step's except block, which fails
\* the task and the workflow before it raises again; every other exception
\* leaves run_commit_pipeline at once and reaches _run_job's except block.
InTry == {"summarize", "draft", "save", "request", "delivered",
          "complete_task", "append_log"}

\* Faulty variant: a failure to record the delivery is swallowed.
RaisedSwallowing(call) ==
    IF call = "delivered" THEN "complete_task"
    ELSE IF call \in InTry THEN "fail_task" ELSE "fail_job"

Raised(call) == IF call \in InTry THEN "fail_task" ELSE "fail_job"

\* Faulty variant: approval is asked for before the work is saved.
BodyApprovalFirst == <<"summarize", "draft", "request", "save">>

\* The first call of step n after its task row is there.
Body == <<"summarize", "draft", "save", "request">>

\* The log entry that ends step n; step 3 writes none.
Done == <<"summary_done", "social_done", "none", "approval_sent">>

Replies(kind) == IF kind \in Faults THEN {"ok", "lost"} ELSE {"ok"}

\* The call worker w is at takes effect; it goes on at `next` if it hears so.
Goto(w, reply, next) ==
    pc' = [pc EXCEPT ![w] = IF reply = "ok" THEN next ELSE Raised(pc[w])]

\* What _worker does when _run_job returns: the loop condition is only
\* looked at here.
LoopTop(w) == IF proc[Host[w]] = "stopping" THEN "stopped" ELSE "idle"

\* Worker w is done with its job and is back at the top of its loop.
Return(w, next) ==
    /\ pc' = [pc EXCEPT ![w] = next]
    /\ step' = [step EXCEPT ![w] = 1]
    /\ job' = [job EXCEPT ![w] = NoJob]
    /\ wf' = [wf EXCEPT ![w] = NoId]
    /\ winners' = winners \ {w}

-----------------------------------------------------------------------------
(* The claim.                                                              *)

\* dedup_acquire: SET NX wins.
AcquireWins(w, reply) ==
    /\ pc[w] = "acquire"
    /\ SetNxWins(Key(w))
    /\ Goto(w, reply, "insert")
    /\ winners' = IF reply = "ok" THEN winners \cup {w} ELSE winners
    /\ UNCHANGED <<queueVars, storeVars, step, job, wf, fate, answer, current, proc>>

\* dedup_acquire: SET NX loses, the existing value is read by a second call.
AcquireLoses(w) ==
    /\ pc[w] = "acquire"
    /\ SetNxLoses(Key(w))
    /\ Goto(w, "ok", "get")
    /\ UNCHANGED <<queueVars, storeVars, step, job, wf, historyVars, proc>>

\* dedup_acquire's GET and the idempotent skip: a workflow_id only if the
\* value is one; the key may have expired since SET NX lost.
Skip(w) ==
    /\ pc[w] = "get"
    /\ Return(w, LoopTop(w))
    /\ fate' = [fate EXCEPT ![job[w]] = "skipped"]
    /\ answer' = [answer EXCEPT ![job[w]] =
                    IF claim[Key(w)] \in Ids THEN claim[Key(w)] ELSE NoId]
    /\ UNCHANGED <<queueVars, dedupVars, storeVars, current, proc>>

\* INSERT of the workflow row.
Insert(w, reply) ==
    /\ pc[w] = "insert"
    /\ insert_workflow(Key(w))
    /\ Goto(w, reply, "attach")
    /\ wf' = [wf EXCEPT ![w] = IF reply = "ok" THEN nextId ELSE NoId]
    /\ current' = IF w \in winners THEN current \cup {nextId} ELSE current
    /\ UNCHANGED <<queueVars, dedupVars, step, job, fate, answer, winners, proc>>

\* Faulty variant: the newest row is attached, not the one w inserted.
AttachNewest(w, reply) ==
    /\ pc[w] = "attach"
    /\ attach_workflow_id(Key(w), nextId - 1)
    /\ Goto(w, reply, "create_task")
    /\ UNCHANGED <<queueVars, storeVars, step, job, wf, historyVars, proc>>

\* dedup_attach.
Attach(w, reply) ==
    /\ pc[w] = "attach"
    /\ attach_workflow_id(Key(w), wf[w])
    /\ Goto(w, reply, "create_task")
    /\ UNCHANGED <<queueVars, storeVars, step, job, wf, historyVars, proc>>

-----------------------------------------------------------------------------
(* The four steps.                                                         *)

\* What a call of step n leaves alone.
StoreOnly == UNCHANGED <<queueVars, dedupVars, job, wf, historyVars, proc>>

\* _create_task, outside the try block of its step.
CreateTask(w, reply) ==
    /\ pc[w] = "create_task"
    /\ SetTask(wf[w], step[w], "running")
    /\ Goto(w, reply, Body[step[w]])
    /\ UNCHANGED step /\ StoreOnly

\* EngineeringSummarizer().summarize and SocialDrafter().draft return.
LlmReturns(w) ==
    /\ pc[w] \in LlmCalls
    /\ Goto(w, "ok", "complete_task")
    /\ UNCHANGED <<storeVars, step>> /\ StoreOnly

\* Step 3: INSERT of the Memory row.
Save(w, reply) ==
    /\ pc[w] = "save"
    /\ memories' = memories \cup {wf[w]}
    /\ Goto(w, reply, "index")
    /\ UNCHANGED <<nextId, status, wfKey, logs, age, task, embedded, vectors,
                   approvals, delivered, step>>
    /\ StoreOnly

\* Worker w upserts the document of its commit: another clone's, or an earlier
\* run's, is overwritten.
Upserted(w) == [vectors EXCEPT ![ShaOf[Key(w)]] = wf[w]]

\* Faulty variant: the embedding_id is written before the upsert.
IndexIdFirst(w, written) ==
    /\ pc[w] = "index"
    /\ embedded' = IF written >= 1 THEN embedded \cup {wf[w]} ELSE embedded
    /\ vectors' = IF written = 2 THEN Upserted(w) ELSE vectors
    /\ Goto(w, "ok", "complete_task")
    /\ UNCHANGED <<nextId, status, wfKey, logs, age, task, memories, approvals,
                   delivered, step>>
    /\ StoreOnly

\* Both calls of Index, or the first, or none: a failing upsert leaves the
\* UPDATE out, a failing UPDATE does not undo the upsert.
Indexings ==
    {2} \cup (IF "vector" \in Faults THEN 0..1 ELSE {})
        \cup (IF "db" \in Faults THEN {1} ELSE {})

\* Step 3: the vector upsert, then the UPDATE of embedding_id.  `written` is
\* how many of the two took effect; an exception of either is swallowed.
Index(w, written) ==
    /\ pc[w] = "index"
    /\ vectors' = IF written >= 1 THEN Upserted(w) ELSE vectors
    /\ embedded' = IF written = 2 THEN embedded \cup {wf[w]} ELSE embedded
    /\ Goto(w, "ok", "complete_task")
    /\ UNCHANGED <<nextId, status, wfKey, logs, age, task, memories, approvals,
                   delivered, step>>
    /\ StoreOnly

\* Step 4: ApprovalGateway.send inserts the Approval row, ...
Request(w, reply) ==
    /\ pc[w] = "request"
    /\ approvals' = approvals \cup {wf[w]}
    /\ Goto(w, reply, "delivered")
    /\ UNCHANGED <<nextId, status, wfKey, logs, age, task, memories, embedded,
                   vectors, delivered, step>>
    /\ StoreOnly

\* ... notifies (best effort) and records delivered_via.
Deliver(w, reply) ==
    /\ pc[w] = "delivered"
    /\ delivered' = delivered \cup {wf[w]}
    /\ Goto(w, reply, "complete_task")
    /\ UNCHANGED <<nextId, status, wfKey, logs, age, task, memories, embedded,
                   vectors, approvals, step>>
    /\ StoreOnly

\* _complete_task; step 3 goes straight on to step 4.
CompleteTask(w, reply) ==
    /\ pc[w] = "complete_task"
    /\ SetTask(wf[w], step[w], "completed")
    /\ Goto(w, reply, IF step[w] = 3 THEN "create_task" ELSE "append_log")
    /\ step' = [step EXCEPT ![w] = IF reply = "ok" /\ @ = 3 THEN 4 ELSE @]
    /\ StoreOnly

\* _append_log at the end of steps 1, 2 and 4.
AppendLog(w, reply) ==
    /\ pc[w] = "append_log"
    /\ append_log(wf[w], Done[step[w]])
    /\ Goto(w, reply, IF step[w] = 4 THEN "finish" ELSE "create_task")
    /\ step' = [step EXCEPT ![w] = IF reply = "ok" /\ @ # 4 THEN @ + 1 ELSE @]
    /\ StoreOnly

\* The last session of _run_pipeline_steps, outside any try block, then the
\* return through _run_job.
Finish(w, reply) ==
    /\ pc[w] = "finish"
    /\ end_workflow(wf[w], "completed", "workflow_completed")
    /\ \/ /\ reply = "ok"
          /\ Return(w, LoopTop(w))
          /\ fate' = [fate EXCEPT ![job[w]] = "ran"]
       \/ /\ reply = "lost"
          /\ Goto(w, reply, "idle")
          /\ UNCHANGED <<step, job, wf, winners, fate>>
    /\ UNCHANGED <<queueVars, dedupVars, answer, current, proc>>

-----------------------------------------------------------------------------
(* The except blocks and the errors.                                       *)

\* _fail_task.
FailTask(w, reply) ==
    /\ pc[w] = "fail_task"
    /\ SetTask(wf[w], step[w], "failed")
    /\ Goto(w, reply, "fail_workflow")
    /\ UNCHANGED step /\ StoreOnly

\* _fail_workflow; whether it succeeds or not, an exception goes on.
FailWorkflow(w, reply) ==
    /\ pc[w] = "fail_workflow"
    /\ end_workflow(wf[w], "failed", "workflow_failed")
    /\ Goto(w, reply, "fail_job")
    /\ UNCHANGED step /\ StoreOnly

\* The call worker w is at raises and had no effect.
Raise(w, kind, calls) ==
    /\ kind \in Faults
    /\ pc[w] \in calls
    /\ Goto(w, "lost", "idle")
    /\ UNCHANGED <<queueVars, dedupVars, storeVars, step, job, wf, historyVars, proc>>

RedisError(w) == Raise(w, "redis", RedisCalls)
DbError(w) == Raise(w, "db", DbCalls)
\* _llm_call gave up after its retries, or the reply does not parse.
LlmError(w) == Raise(w, "llm", LlmCalls)

\* run_commit_pipeline, one call of it.
Pipeline(w) ==
    \/ \E reply \in Replies("redis") : AcquireWins(w, reply) \/ Attach(w, reply)
    \/ AcquireLoses(w) \/ Skip(w) \/ LlmReturns(w)
    \/ \E reply \in Replies("db") :
         \/ Insert(w, reply) \/ CreateTask(w, reply) \/ Save(w, reply)
         \/ Request(w, reply) \/ Deliver(w, reply) \/ CompleteTask(w, reply)
         \/ AppendLog(w, reply) \/ Finish(w, reply)
         \/ FailTask(w, reply) \/ FailWorkflow(w, reply)
    \/ \E written \in Indexings : Index(w, written)
    \/ RedisError(w) \/ DbError(w) \/ LlmError(w)
=============================================================================
