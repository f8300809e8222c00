---------------------------- MODULE Orchestrator ----------------------------
(***************************************************************************)
(* core/orchestrator/main.py: processes that start, reap orphans, run      *)
(* their workers, stop and crash, around the commit pipeline, the Redis    *)
(* queues and the Postgres rows.  Redis and Postgres outlive a process;    *)
(* what a worker holds does not.                                           *)
(***************************************************************************)
EXTENDS CommitPipeline

\* Each process starts as many workers as its settings say.
ASSUME WorkersAssumption == IsFiniteSet(Workers)

VARIABLES
    api,      \* api[p]: the API task of p has not ended with an exception
    reaped,   \* reaped[p]: the rows p's reaper selected and has not committed
    seen      \* seen[p]: the logs it read with them

allVars == <<vars, api, reaped, seen>>
procVars == <<proc, api, reaped, seen>>

SeenTypeOK == seen \in [Procs -> [Ids -> Seq(Events)]]

\* The types of the Redis lists and claims, the Postgres rows, the workers and
\* the processes; a claim is there exactly while it has time to live.
TypeOK ==
    /\ QueueTypeOK
    /\ DedupTypeOK
    /\ StoreTypeOK
    /\ PipelineTypeOK
    /\ api \in [Procs -> BOOLEAN]
    /\ reaped \in [Procs -> SUBSET Ids]
    /\ SeenTypeOK

NoLogs == [i \in Ids |-> <<>>]

Init ==
    /\ QueueInit
    /\ DedupInit
    /\ StoreInit
    /\ PipelineInit
    /\ api = [p \in Procs |-> TRUE]
    /\ reaped = [p \in Procs |-> {}]
    /\ seen = [p \in Procs |-> NoLogs]

-----------------------------------------------------------------------------
(* Producers.                                                              *)

Send(j, q) ==
    /\ fate[j] = "unsent"
    /\ enqueue(j, q)
    /\ fate' = [fate EXCEPT ![j] = "open"]
    /\ UNCHANGED <<dedupVars, storeVars, workerVars, answer, winners, current, procVars>>

\* EventWatcher._emit_commit: a commit was seen in a watched repository.
EmitCommit(j) ==
    /\ \E p \in Procs : proc[p] = "up"
    /\ j \in Handled /\ KeyOf[j] # NoKey
    /\ Send(j, "NORMAL")

\* enqueue_manual, behind POST /trigger: any type, any payload.
EnqueueManual(j) ==
    /\ \E p \in Procs : proc[p] = "up" /\ api[p]
    /\ Send(j, "HIGH")

-----------------------------------------------------------------------------
(* _worker and _run_job.                                                   *)

\* dequeue returns j, and _run_job runs up to its first await: the lookup
\* of the handler and _require_keys.
Dequeue(w, j) ==
    /\ pc[w] = "idle"
    /\ dequeue(j)
    /\ job' = [job EXCEPT ![w] = j]
    /\ pc' = [pc EXCEPT ![w] = IF j \in Handled /\ KeyOf[j] # NoKey
                               THEN "acquire"
                               ELSE IF j \in Demos THEN "demo" ELSE "fail_job"]
    /\ UNCHANGED <<dedupVars, storeVars, step, wf, historyVars, procVars>>

\* The handler of a demo_request returns or raises; DemoForge has the calls it
\* makes on the way, none of which touches a commit's claim or rows.
DemoReturns(w) ==
    /\ pc[w] = "demo"
    /\ Return(w, LoopTop(w))
    /\ fate' = [fate EXCEPT ![job[w]] = "ran"]
    /\ UNCHANGED <<queueVars, dedupVars, storeVars, answer, current, procVars>>

DemoRaises(w) ==
    /\ pc[w] = "demo"
    /\ pc' = [pc EXCEPT ![w] = "fail_job"]
    /\ UNCHANGED <<queueVars, dedupVars, storeVars, step, job, wf, historyVars, procVars>>

\* BLPOP popped j and the reply was lost: worker_dequeue_error, the worker
\* sleeps and loops.
DequeueLost(w, j) ==
    /\ "redis" \in Faults
    /\ pc[w] = "idle"
    /\ dequeue(j)
    /\ pc' = [pc EXCEPT ![w] = LoopTop(w)]
    /\ fate' = [fate EXCEPT ![j] = "lost"]
    /\ UNCHANGED <<dedupVars, storeVars, step, job, wf, answer, winners, current, procVars>>

\* Faulty variant: BLPOP without a timeout returns only with a job.
LeaveLoopOnJob(w) ==
    /\ pc[w] = "idle"
    /\ LoopTop(w) = "stopped"
    /\ queues[Served] # <<>>
    /\ pc' = [pc EXCEPT ![w] = "stopped"]
    /\ UNCHANGED <<queueVars, dedupVars, storeVars, step, job, wf, historyVars, procVars>>

\* BLPOP times out or raises, and the loop condition is FALSE.
LeaveLoop(w) ==
    /\ pc[w] = "idle"
    /\ LoopTop(w) = "stopped"
    /\ pc' = [pc EXCEPT ![w] = "stopped"]
    /\ UNCHANGED <<queueVars, dedupVars, storeVars, step, job, wf, historyVars, procVars>>

\* q.fail in _run_job.  Nothing catches an exception of it: the worker's
\* task ends.
FailJob(w, reply) ==
    /\ pc[w] = "fail_job"
    /\ fail(job[w], TRUE)
    /\ Return(w, IF reply = "ok" THEN LoopTop(w) ELSE "dead")
    /\ UNCHANGED <<dedupVars, storeVars, fate, answer, current, procVars>>

FailJobError(w) ==
    /\ "redis" \in Faults
    /\ pc[w] = "fail_job"
    /\ fail(job[w], FALSE)
    /\ Return(w, "dead")
    /\ fate' = [fate EXCEPT ![job[w]] = "lost"]
    /\ UNCHANGED <<dedupVars, storeVars, answer, current, procVars>>

-----------------------------------------------------------------------------
(* Processes.                                                              *)

\* Faulty variant: the reaper also runs while the workers do.
StartAnyTime(p) ==
    /\ proc[p] \in {"down", "up"}
    /\ proc' = [proc EXCEPT ![p] = "reaping"]
    /\ reaped' = [reaped EXCEPT ![p] = Orphans]
    /\ seen' = [seen EXCEPT ![p] = [i \in Ids |-> IF i \in Orphans THEN logs[i] ELSE <<>>]]
    /\ UNCHANGED <<queueVars, dedupVars, storeVars, workerVars, historyVars, api>>

\* start: both pings answer, and the reaper's SELECT.
Start(p) ==
    /\ proc[p] = "down"
    /\ proc' = [proc EXCEPT ![p] = "reaping"]
    /\ reaped' = [reaped EXCEPT ![p] = Orphans]
    /\ seen' = [seen EXCEPT ![p] = [i \in Ids |-> IF i \in Orphans THEN logs[i] ELSE <<>>]]
    /\ UNCHANGED <<queueVars, dedupVars, storeVars, workerVars, historyVars, api>>

\* The reaper commits, the workers and the API start.
Boot(p) ==
    /\ proc[p] = "reaping"
    /\ reap(reaped[p], seen[p])
    /\ proc' = [proc EXCEPT ![p] = "up"]
    /\ reaped' = [reaped EXCEPT ![p] = {}]
    /\ seen' = [seen EXCEPT ![p] = NoLogs]
    /\ api' = [api EXCEPT ![p] = TRUE]
    /\ pc' = [w \in Workers |-> IF Host[w] = p THEN "idle" ELSE pc[w]]
    /\ UNCHANGED <<queueVars, dedupVars, step, job, wf, historyVars>>

\* The reaper's commit raises, with or without effect: start raises and the
\* process exits.
BootFails(p) ==
    /\ "db" \in Faults
    /\ proc[p] = "reaping"
    /\ \/ reap(reaped[p], seen[p])
       \/ UNCHANGED storeVars
    /\ proc' = [proc EXCEPT ![p] = "down"]
    /\ reaped' = [reaped EXCEPT ![p] = {}]
    /\ seen' = [seen EXCEPT ![p] = NoLogs]
    /\ UNCHANGED <<queueVars, dedupVars, workerVars, historyVars, api>>

\* The process is gone, and with it what its workers held: those jobs' fate.
Dies(p, end) ==
    /\ LET gone == {w \in Workers : Host[w] = p}
       IN  /\ fate' = [j \in Jobs |->
                         IF \E w \in gone : job[w] = j THEN end ELSE fate[j]]
           /\ pc' = [w \in Workers |-> IF w \in gone THEN "down" ELSE pc[w]]
           /\ step' = [w \in Workers |-> IF w \in gone THEN 1 ELSE step[w]]
           /\ job' = [w \in Workers |-> IF w \in gone THEN NoJob ELSE job[w]]
           /\ wf' = [w \in Workers |-> IF w \in gone THEN NoId ELSE wf[w]]
           /\ winners' = winners \ gone
    /\ proc' = [proc EXCEPT ![p] = "down"]
    /\ reaped' = [reaped EXCEPT ![p] = {}]
    /\ seen' = [seen EXCEPT ![p] = NoLogs]
    /\ UNCHANGED <<queueVars, dedupVars, storeVars, answer, current, api>>

\* SIGKILL, power loss, the supervisor's kill timeout.
Crash(p) ==
    /\ "crash" \in Faults
    /\ proc[p] # "down"
    /\ Dies(p, "lost")

\* stop: _stop is set, the watcher and the API are told to stop, and the
\* workers are awaited.
Stop(p) ==
    /\ "stop" \in Faults
    /\ proc[p] = "up"
    /\ api[p]
    /\ proc' = [proc EXCEPT ![p] = "stopping"]
    /\ UNCHANGED <<queueVars, dedupVars, storeVars, workerVars, historyVars, api, reaped, seen>>

\* stop, when the API task has ended with an exception: awaiting the task
\* raises it again, stop ends there, and asyncio.run cancels the workers.
StopRaises(p) ==
    /\ "stop" \in Faults
    /\ proc[p] = "up"
    /\ ~api[p]
    /\ Dies(p, "lost")

\* Faulty variant: the process exits without awaiting its workers.
ExitAtOnce(p) ==
    /\ proc[p] = "stopping"
    /\ Dies(p, "dropped")

\* gather returns and the process exits.
Exit(p) ==
    /\ proc[p] = "stopping"
    /\ \A w \in Workers : Host[w] = p => pc[w] \in {"stopped", "dead"}
    /\ Dies(p, "dropped")

\* _serve_api raises (_validate_bind_safety, or the server itself).
ApiFails(p) ==
    /\ "api" \in Faults
    /\ proc[p] = "up"
    /\ api[p]
    /\ api' = [api EXCEPT ![p] = FALSE]
    /\ UNCHANGED <<queueVars, dedupVars, storeVars, workerVars, historyVars, proc, reaped, seen>>

\* Time passes.
Tick ==
    /\ DedupTick
    /\ StoreTick
    /\ <<ttl, age>>' # <<ttl, age>>
    /\ winners' = {w \in winners : claim'[Key(w)] # NoClaim}
    /\ current' = {i \in current : claim'[wfKey[i]] # NoClaim}
    /\ UNCHANGED <<queueVars, workerVars, fate, answer, procVars>>

-----------------------------------------------------------------------------
PipelineStep(w) == Pipeline(w) /\ UNCHANGED <<api, reaped, seen>>

WorkerStep(w) ==
    \/ PipelineStep(w) \/ DemoReturns(w) \/ DemoRaises(w)
    \/ \E reply \in Replies("redis") : FailJob(w, reply)
    \/ FailJobError(w)
    \/ LeaveLoop(w)

Next ==
    \/ \E j \in Jobs : EmitCommit(j) \/ EnqueueManual(j)
    \/ \E w \in Workers :
         \/ WorkerStep(w)
         \/ \E j \in Jobs : Dequeue(w, j) \/ DequeueLost(w, j)
    \/ \E p \in Procs :
         \/ Start(p) \/ Boot(p) \/ BootFails(p) \/ Crash(p)
         \/ Stop(p) \/ StopRaises(p) \/ Exit(p) \/ ApiFails(p)
    \/ Tick

Spec == Init /\ [][Next]_allVars
\* The event loop runs every task that can go on; a call of Redis, Postgres
\* or the LLM returns or raises (the LLM call has a timeout); the supervisor
\* restarts a process that is down.  BLPOP and the start-up are the calls
\* that are retried for ever: an outage may not hit each of their attempts.
Fairness ==
    /\ \A w \in Workers : WF_allVars(WorkerStep(w))
    /\ \A w \in Workers : SF_allVars(\E j \in Jobs : Dequeue(w, j))
    /\ \A p \in Procs : WF_allVars(Start(p)) /\ SF_allVars(Boot(p)) /\ WF_allVars(Exit(p))

FairSpec == Spec /\ Fairness

-----------------------------------------------------------------------------
(* Safety.                                                                 *)

\* A commit gets one row for each lifetime of its claim: a second row is
\* inserted only on a win after the first row's claim has expired, whichever
\* workers and processes race, crash or lose replies between SET NX, the
\* INSERT and the attach.
OneRowPerClaim ==
    \A a, b \in current : a # b => wfKey[a] # wfKey[b]

\* A claim that carries an id carries the id of a row of its own commit, also
\* when a claim expired and was won again before a slow owner attached.
ClaimNamesItsRow ==
    \A k \in Keys :
        claim[k] \in Ids => status[claim[k]] # "absent" /\ wfKey[claim[k]] = k

\* The workflow_id run_commit_pipeline returned from an idempotent skip is a row of the same commit.
SkipNamesSameCommit ==
    \A j \in Jobs :
        answer[j] \in Ids =>
            status[answer[j]] # "absent" /\ wfKey[answer[j]] = KeyOf[j]

\* Two workers never run the same row: run_commit_pipeline keeps the id its
\* own INSERT returned, and q.fail does not hand a job on.
OneRunnerPerRow ==
    \A v, w \in Workers : v # w /\ wf[v] \in Ids => wf[v] # wf[w]

(* The inductive invariant behind the four.                                *)

\* Ids are given out in order.
RowsAreSerial == \A i \in Ids : status[i] # "absent" <=> i < nextId

\* A worker that is busy holds a job, in the pipeline one with a key; a row
\* it runs was inserted for that job's commit.
BusyWorkers ==
    \A w \in Workers :
        /\ pc[w] \in InPipeline \cup {"demo", "fail_job"} => job[w] \in Jobs
        /\ pc[w] \in InPipeline => Key(w) \in Keys
        /\ pc[w] \in Running => wf[w] \in Ids
        /\ pc[w] = "append_log" => step[w] # 3
        /\ wf[w] \in Ids =>
             job[w] \in Jobs /\ status[wf[w]] # "absent" /\ wfKey[wf[w]] = Key(w)

\* A worker without work holds nothing; it is down exactly when its process
\* is not running workers.
IdleWorkers ==
    \A w \in Workers :
        /\ pc[w] \in {"down", "idle", "dead", "stopped"} =>
             job[w] = NoJob /\ wf[w] = NoId
        /\ pc[w] = "down" <=> proc[Host[w]] \in {"down", "reaping"}

\* What a reaper selected are rows.
ReapedAreRows == \A p \in Procs : \A i \in reaped[p] : status[i] # "absent"

\* A win that has not expired: its commit is claimed, no other worker has
\* one for it, and before its INSERT there is no row for it.
WinsAreFresh ==
    /\ \A i \in current :
         /\ status[i] # "absent"
         /\ wfKey[i] \in Keys
         /\ claim[wfKey[i]] # NoClaim
    /\ \A w \in winners :
         /\ pc[w] \in InPipeline \cup {"fail_job"}
         /\ Key(w) \in Keys
         /\ claim[Key(w)] # NoClaim
         /\ \A v \in winners : v # w => Key(v) # Key(w)
         /\ pc[w] \in {"acquire", "get", "insert"} =>
              pc[w] = "insert" /\ \A i \in current : wfKey[i] # Key(w)

\* What every step of main.py, run_commit_pipeline and dedup.py preserves: the
\* four properties above and the parts they need to be inductive.
IInv ==
    /\ TypeOK
    /\ RowsAreSerial
    /\ BusyWorkers
    /\ IdleWorkers
    /\ ReapedAreRows
    /\ WinsAreFresh
    /\ OneRowPerClaim
    /\ ClaimNamesItsRow
    /\ SkipNamesSameCommit
    /\ OneRunnerPerRow

\* The number of workers that have job j in hand.
Hands(j) == Cardinality({w \in Workers : job[w] = j})

\* The number of places job j is in.
Places(j) ==
    Copies(j, queues["HIGH"]) + Copies(j, queues["NORMAL"])
      + Copies(j, queues["FAILED"]) + Hands(j)

\* A job that was sent, did not return and was not lost is in exactly one
\* place: a list, or one worker's hand.  No other job is anywhere.  BLPOP,
\* _run_job and q.fail neither copy a job nor drop one, and a crash or a stop
\* takes exactly the jobs its process had in hand.
JobConservation ==
    \A j \in Jobs : Places(j) = IF fate[j] = "open" THEN 1 ELSE 0

\* A workflow _run_pipeline_steps marks completed did everything: four
\* completed tasks, the memory row, the approval with its delivery recorded,
\* and the whole audit trail, whichever call raised or lost its reply before.
CompletedIsComplete ==
    \A i \in Ids : status[i] = "completed" =>
        /\ \A n \in Steps : task[i][n] = "completed"
        /\ i \in memories \cap approvals \cap delivered
        /\ logs[i] = <<"workflow_started", "summary_done", "social_done",
                       "approval_sent", "workflow_completed">>

\* A workflow that ended has no task that still shows as running: the steps
\* complete or fail their task before the row, and reap_orphan_workflows
\* takes the tasks of a row along.
TerminalIsQuiet ==
    \A i \in Ids : status[i] \in Terminal =>
        \A n \in Steps : task[i][n] # "running"

\* The embedding_id of step 3 never dangles: its row and the document
\* commit:<sha> are there, whichever of the two writes failed, and whichever
\* clone or later run overwrote the document, it has a saved summary of that sha.
EmbeddingExists ==
    \A i \in embedded :
        LET document == vectors[ShaOf[wfKey[i]]]
        IN  /\ {i, document} \subseteq memories
            /\ ShaOf[wfKey[document]] = ShaOf[wfKey[i]]

\* A stop drops no job, however it falls between BLPOP, the pipeline's calls and
\* q.fail: Orchestrator.stop waits for the workers, each finishes the job it has.
NothingLost == \A j \in Jobs : fate[j] # "dropped"

(* What a step may never do.                                               *)

\* RUNTIME_INVARIANTS I2: a row's status goes from running to completed,
\* failed or interrupted once, though neither _fail_workflow nor the last
\* session nor the reaper looks at the status it overwrites.
StatusTransitions ==
    [][\A i \in Ids : status'[i] # status[i] =>
          \/ status[i] = "absent" /\ status'[i] = "running"
          \/ status[i] = "running" /\ status'[i] \in Terminal]_allVars

\* RUNTIME_INVARIANTS I4, the FAILED list of q.fail: a dead-lettered job stays where the operator can inspect it, and is
\* never run again.
NoSilentRetry ==
    [][\A j \in Jobs : Copies(j, queues["FAILED"]) > 0 =>
          /\ Copies(j, queues'["FAILED"]) > 0
          /\ \A w \in Workers : job'[w] # j]_allVars

-----------------------------------------------------------------------------
(* What the processes keep of the rows while reapers take orphans only,    *)
(* the invariant behind CompletedIsComplete, TerminalIsQuiet and           *)
(* ImplementsLedger.                                                       *)

\* The rows some worker still has.
Held == {wf[w] : w \in Workers} \cap Ids

\* What reap_orphan_workflows takes to be an orphan is one: no worker of any
\* process has it.
ReapersTakeOrphans ==
    \A p \in Procs : proc[p] = "reaping" => reaped[p] \cap Held = {}

\* So it is if there is one orchestrator process, which reaps before its
\* workers start,
OneProcess == \A p, q \in Procs : p = q

\* and so it is, of any number of processes, if no run has its row for longer
\* than orphan_workflow_max_age_seconds.
RunsEndInTime == \A i \in Held : age[i] <= MaxAge

\* The audit trail of a run that has logged n milestones.
Trail(n) ==
    CASE n = 1 -> <<"workflow_started">>
      [] n = 2 -> <<"workflow_started", "summary_done">>
      [] n = 3 -> <<"workflow_started", "summary_done", "social_done">>
      [] n = 4 -> <<"workflow_started", "summary_done", "social_done",
                    "approval_sent">>

\* How many worker w has logged; step 3 logs none.
Logged(w) == IF pc[w] = "finish" THEN 4 ELSE IF step[w] = 4 THEN 3 ELSE step[w]

\* The calls of a run to which nothing has happened.
GoingWell == Running \ {"fail_task", "fail_workflow"}

\* Each call belongs to its step.
StepOfCall(w) ==
    /\ pc[w] \in {"attach", "summarize"} => step[w] = 1
    /\ pc[w] = "draft" => step[w] = 2
    /\ pc[w] \in {"save", "index"} => step[w] = 3
    /\ pc[w] \in {"request", "delivered", "finish"} => step[w] = 4

\* What the row and the tasks of a worker's run are at each call: the row is
\* running until the last session or _fail_workflow commits, and of the tasks
\* only that of the step may be running.
RowInStep(w) ==
    LET tasks == task[wf[w]]
    IN  /\ status[wf[w]] = "running"
        /\ \A n \in Steps : n # step[w] => tasks[n] # "running"
        /\ pc[w] = "fail_workflow" => tasks[step[w]] # "running"
        /\ pc[w] \in GoingWell => \A n \in 1..(step[w] - 1) : tasks[n] = "completed"
        /\ pc[w] \in {"append_log", "finish"} => tasks[step[w]] = "completed"

\* What a run to which nothing has happened has written so far.
WorkInStep(w) ==
    /\ logs[wf[w]] = Trail(Logged(w))
    /\ step[w] = 4 \/ (step[w] = 3 /\ pc[w] = "complete_task") => wf[w] \in memories
    /\ step[w] = 4 /\ pc[w] \in {"delivered", "complete_task", "append_log", "finish"}
         => wf[w] \in approvals
    /\ step[w] = 4 /\ pc[w] \in {"complete_task", "append_log", "finish"}
         => wf[w] \in delivered

RunOK(w) ==
    /\ pc[w] \notin Running \cup {"fail_job"} => step[w] = 1 /\ wf[w] = NoId
    /\ StepOfCall(w)
    /\ pc[w] \in Running => RowInStep(w)
    /\ pc[w] \in GoingWell => WorkInStep(w)

\* A row that was not inserted has no task.
NoEarlyTask ==
    \A i \in Ids : status[i] = "absent" => \A n \in Steps : task[i][n] # "running"

\* What a reaper selected is as it was, or the reaper of another process that
\* selected it too has committed.
ReapedAsSeen ==
    \A p \in Procs : proc[p] = "reaping" =>
        \A i \in reaped[p] :
           \/ status[i] = "running" /\ logs[i] = seen[p][i]
           \/ /\ status[i] = "interrupted"
              /\ logs[i] = Append(seen[p][i], "workflow_interrupted_at_startup")

RowIInv ==
    /\ \A w \in Workers : RunOK(w)
    /\ NoEarlyTask
    /\ ReapedAsSeen
    /\ TerminalIsQuiet
    /\ CompletedIsComplete

\* The invariant behind EmbeddingExists, for any number of processes: only a
\* row that is there is embedded, a document is of a saved row of its sha, and
\* step 3 saves before it indexes.
VectorIInv ==
    /\ EmbeddingExists
    /\ \A i \in embedded : status[i] # "absent" /\ wfKey[i] \in Keys
    /\ \A s \in Shas : vectors[s] # NoId =>
          /\ vectors[s] \in memories
          /\ status[vectors[s]] # "absent" /\ ShaOf[wfKey[vectors[s]]] = s
    /\ \A w \in Workers : pc[w] = "index" => wf[w] \in memories

-----------------------------------------------------------------------------
Ledger == INSTANCE WorkflowLedger WITH
    Rows <- Ids, row <- status, trail <- logs, saved <- memories,
    asked <- approvals, held <- Held

\* One process, or several whose reapers take orphans only, keep the promises of
\* the ledger whatever fails, crashes or is stopped between two calls:
\* run_commit_pipeline's sessions never overwrite an end or lose an entry, and
\* reap_orphan_workflows, which looks at a row's status and logs only when it
\* selects it, takes only rows no worker has.
ImplementsLedger == Ledger!Spec

(* Liveness.                                                               *)

\* Every job that is sent is run, skipped, dead-lettered or lost in a crash:
\* _worker serves both lists and no job waits on another's claim.
EveryJobSettles ==
    \A j \in Jobs : fate[j] = "open" ~>
        (fate[j] # "open" \/ Copies(j, queues["FAILED"]) > 0)

\* A process that is told to stop comes down: BLPOP's timeout lets an idle
\* _worker see _stop, and a busy one finishes its job.
StopTerminates ==
    \A p \in Procs : proc[p] = "stopping" ~> proc[p] = "down"

-----------------------------------------------------------------------------
(* What the documents say and the code does not do.                        *)

\* RECOVERY_MODEL: a previous failed workflow does not block a new run.
FailedDoesNotBlock ==
    [][\A j \in Jobs :
          fate[j] = "open" /\ fate'[j] = "skipped" /\ answer'[j] \in Ids
            => status[answer'[j]] # "failed"]_allVars
=============================================================================
