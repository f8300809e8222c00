------------------------- MODULE OrchestratorProofs -------------------------
(***************************************************************************)
(* IInv is an inductive invariant of Orchestrator, for any sets of jobs,   *)
(* workers, processes and commits, any TTL and any combination of faults.  *)
(*                                                                         *)
(* The steps fall into four groups.  A RunnerStep moves one worker along   *)
(* the pipeline and touches its own row; a QuietStep inserts nothing, wins *)
(* nothing and at most takes work away from workers; Dequeue gives a       *)
(* worker a job; AcquireWins, Insert and Attach, the three calls between   *)
(* which a duplicate could slip in, are proved one by one.                 *)
(*                                                                         *)
(* On it rest three more: a job is in one place, a list or a hand          *)
(* (JobConservation, by counting), a dead-lettered job is never run again, *)
(* and what step 3 embeds is in the vector store (VectorIInv).             *)
(***************************************************************************)
EXTENDS Orchestrator, TLAPS, FiniteSetTheorems

\* A reaper that holds nothing has read no logs.
LEMMA NoLogsType == NoLogs \in [Ids -> Seq(Events)]
BY DEF NoLogs

\* Before the first process starts nothing is queued, claimed or stored.
LEMMA InitOK == Init => IInv
<1> SUFFICES ASSUME Init PROVE IInv
  OBVIOUS
<1> USE DomainAssumption, DedupAssumption, StoreAssumption, PipelineAssumption
        DEF Init, QueueInit, DedupInit, StoreInit, PipelineInit
<1>1. QueueTypeOK /\ DedupTypeOK
  BY DEF QueueTypeOK, DedupTypeOK, QueueName
<1>2. StoreTypeOK
  BY DEF StoreTypeOK, RowStatus, Ids, Steps
<1>3. PipelineTypeOK
  BY DEF PipelineTypeOK, Steps, NoId, InPipeline
<1>4. TypeOK
  BY <1>1, <1>2, <1>3, NoLogsType DEF TypeOK, SeenTypeOK
<1>5. RowsAreSerial /\ OneRowPerClaim /\ ClaimNamesItsRow
  BY DEF RowsAreSerial, OneRowPerClaim, ClaimNamesItsRow, Ids
<1>6. SkipNamesSameCommit /\ OneRunnerPerRow
  BY DEF SkipNamesSameCommit, OneRunnerPerRow, Ids, NoId
<1>7. BusyWorkers /\ WinsAreFresh
  BY DEF BusyWorkers, WinsAreFresh, InPipeline, Running, DbCalls, RedisCalls,
         LlmCalls, Ids, NoId
<1>8. IdleWorkers /\ ReapedAreRows
  BY DEF IdleWorkers, ReapedAreRows
<1> QED
  BY <1>4, <1>5, <1>6, <1>7, <1>8 DEF IInv

-----------------------------------------------------------------------------
\* Where a call of a running workflow sends its worker.
LEMMA GotoRunner ==
    ASSUME PipelineTypeOK, NEW w \in Workers, pc[w] \in Running,
           NEW reply, NEW next \in Running \cup {"fail_job"},
           Goto(w, reply, next)
    PROVE  /\ pc' \in [Workers -> InPipeline \cup
                         {"down", "idle", "demo", "fail_job", "dead", "stopped"}]
           /\ \A v \in Workers : v # w => pc'[v] = pc[v]
           /\ pc'[w] \in Running \cup {"fail_job"}
           /\ pc'[w] = "append_log" => next = "append_log"
BY DEF PipelineTypeOK, Goto, Raised, Running, InPipeline, DbCalls

\* A step of worker w that runs a row.
RunnerStep(w) ==
    /\ UNCHANGED <<nextId, wfKey, winners, current, job, wf, claim, answer,
                   proc, reaped>>
    /\ pc[w] \in InPipeline
    /\ \A i \in Ids : status'[i] = "absent" <=> status[i] = "absent"
    /\ \A v \in Workers : v # w => pc'[v] = pc[v] /\ step'[v] = step[v]
    /\ pc'[w] \in InPipeline \cup {"fail_job"}
    /\ pc'[w] \in Running => pc[w] \in Running
    /\ pc'[w] \in {"acquire", "get", "insert"} => pc[w] = "acquire"
    /\ pc'[w] = "append_log" => step'[w] # 3

\* A step of a worker inside run_commit_pipeline that inserts no row and
\* wins no claim keeps the invariant.
LEMMA RunnerStepOK ==
    ASSUME IInv, TypeOK', NEW w \in Workers, RunnerStep(w)
    PROVE  IInv'
<1> USE DEF IInv, RunnerStep
<1>1. RowsAreSerial' /\ OneRowPerClaim' /\ ClaimNamesItsRow' /\ SkipNamesSameCommit'
  BY DEF RowsAreSerial, OneRowPerClaim, ClaimNamesItsRow, SkipNamesSameCommit, TypeOK, PipelineTypeOK, DedupTypeOK
<1>2. OneRunnerPerRow'
  BY DEF OneRunnerPerRow
<1>3. BusyWorkers'
  BY DEF BusyWorkers, Key, InPipeline, Running
<1>4. WinsAreFresh'
  <2>1. \A i \in current : status'[i] # "absent"
    BY DEF WinsAreFresh, TypeOK, PipelineTypeOK
  <2>2. w \in winners => pc'[w] \notin {"acquire", "get", "insert"}
    BY DEF WinsAreFresh
  <2> QED
    BY <2>1, <2>2 DEF WinsAreFresh, Key, TypeOK, PipelineTypeOK
<1>5. IdleWorkers'
  BY DEF IdleWorkers, InPipeline, DbCalls, RedisCalls, LlmCalls
<1>6. ReapedAreRows'
  BY DEF ReapedAreRows, TypeOK
<1> QED
  BY <1>1, <1>2, <1>3, <1>4, <1>5, <1>6
-----------------------------------------------------------------------------
\* _create_task, _complete_task and _fail_task write a task's status only.
LEMMA SetTaskType ==
    ASSUME StoreTypeOK, NEW i \in Ids, NEW n \in Steps, NEW s \in RowStatus,
           SetTask(i, n, s)
    PROVE  StoreTypeOK' /\ UNCHANGED <<nextId, wfKey, status>>
BY DEF StoreTypeOK, SetTask

\* _fail_workflow and the final session end a row and remove none.
LEMMA EndWorkflowType ==
    ASSUME StoreTypeOK, NEW i \in Ids, NEW s \in Terminal, NEW e \in Events,
           end_workflow(i, s, e), status[i] # "absent"
    PROVE  /\ StoreTypeOK'
           /\ UNCHANGED <<nextId, wfKey>>
           /\ \A k \in Ids : status'[k] = "absent" <=> status[k] = "absent"
BY DEF StoreTypeOK, end_workflow, RowStatus, Terminal

\* The calls of the four steps of _run_pipeline_steps and of their except
\* blocks keep the invariant, when they succeed and when the reply is lost.
LEMMA RunnerActionsOK ==
    ASSUME IInv, NEW w \in Workers, NEW reply, UNCHANGED <<api, reaped, seen>>,
           \/ CreateTask(w, reply) \/ LlmReturns(w) \/ Save(w, reply)
           \/ \E n \in 0..2 : Index(w, n)
           \/ Request(w, reply) \/ Deliver(w, reply)
           \/ CompleteTask(w, reply) \/ AppendLog(w, reply)
           \/ FailTask(w, reply) \/ FailWorkflow(w, reply)
    PROVE  IInv'
<1> DEFINE Calls == InPipeline \cup {"fail_job"}
<1>1. /\ pc[w] \in Running
      /\ wf[w] \in Ids
      /\ step[w] \in Steps
      /\ Key(w) \in Keys
      /\ status[wf[w]] # "absent"
  <2>1. pc[w] \in Running
    BY DEF CreateTask, LlmReturns, Save, Index, Request, Deliver, CompleteTask,
           AppendLog, FailTask, FailWorkflow, Running, InPipeline, DbCalls,
           RedisCalls, LlmCalls
  <2> QED
    BY <2>1 DEF IInv, BusyWorkers, TypeOK, PipelineTypeOK, Running
<1>2. UNCHANGED <<queueVars, dedupVars, job, wf, historyVars, proc>>
  BY DEF CreateTask, LlmReturns, Save, Index, Request, Deliver, CompleteTask,
         AppendLog, FailTask, FailWorkflow, StoreOnly
<1>3. /\ StoreTypeOK'
      /\ UNCHANGED <<nextId, wfKey>>
      /\ \A i \in Ids : status'[i] = "absent" <=> status[i] = "absent"
  <2> USE <1>1 DEF IInv, TypeOK
  <2>1. CASE CreateTask(w, reply) \/ CompleteTask(w, reply) \/ FailTask(w, reply)
    BY <2>1, SetTaskType
       DEF CreateTask, CompleteTask, FailTask, RowStatus, Terminal
  <2>2. CASE FailWorkflow(w, reply)
    BY <2>2, EndWorkflowType DEF FailWorkflow, Terminal, Events
  <2>3. CASE LlmReturns(w)
    BY <2>3 DEF LlmReturns, storeVars, StoreTypeOK
  <2>4. CASE Save(w, reply) \/ Request(w, reply) \/ Deliver(w, reply)
    BY <2>4 DEF Save, Request, Deliver, StoreTypeOK
  <2>5. CASE \E n \in 0..2 : Index(w, n)
    <3>1. wf[w] \in Ids /\ Key(w) \in Keys
      BY <2>5 DEF Index, BusyWorkers, Running, InPipeline
    <3>2. Upserted(w) \in [Shas -> Ids \cup {NoId}]
      BY <3>1, StoreAssumption DEF Upserted, StoreTypeOK
    <3> QED
      BY <2>5, <3>1, <3>2 DEF Index, StoreTypeOK
  <2>6. CASE AppendLog(w, reply)
    <3>1. Done[step[w]] \in Events
      BY <2>6 DEF AppendLog, BusyWorkers, Done, Events, Steps
    <3> QED
      BY <2>6, <3>1 DEF AppendLog, append_log, StoreTypeOK
  <2> QED
    BY <2>1, <2>2, <2>3, <2>4, <2>5, <2>6
<1>4. /\ pc' \in [Workers -> InPipeline \cup
                     {"down", "idle", "demo", "fail_job", "dead", "stopped"}]
      /\ \A v \in Workers : v # w => pc'[v] = pc[v]
      /\ pc'[w] \in Running \cup {"fail_job"}
      /\ step' \in [Workers -> Steps]
      /\ \A v \in Workers : v # w => step'[v] = step[v]
      /\ pc'[w] = "append_log" => step'[w] # 3
  <2>0. PipelineTypeOK
    BY DEF IInv, TypeOK
  <2>1. CASE UNCHANGED step /\ ~CompleteTask(w, reply) /\ ~AppendLog(w, reply)
    <3> DEFINE Onward == (Running \cup {"fail_job"}) \ {"append_log"}
    <3>1. \E next \in Onward : Goto(w, reply, next) \/ Goto(w, "ok", next)
      <4>1. CASE CreateTask(w, reply)
        <5>1. Body[step[w]] \in Onward
          BY <1>1 DEF Body, Steps, Running, InPipeline, DbCalls, RedisCalls, LlmCalls
        <5> QED
          BY <4>1, <5>1 DEF CreateTask
      <4>2. {"complete_task", "index", "delivered", "fail_workflow", "fail_job"}
              \in SUBSET Onward
        BY DEF Running, InPipeline, DbCalls, RedisCalls, LlmCalls
      <4> HIDE DEF Onward
      <4> QED
        BY <2>1, <4>1, <4>2 DEF LlmReturns, Save, Index, Request, Deliver,
           FailTask, FailWorkflow
    <3> QED
      BY <1>1, <2>0, <2>1, <3>1, GotoRunner DEF PipelineTypeOK
  <2>2. CASE CompleteTask(w, reply)
    <3>1. \E next \in {"create_task", "append_log"} :
             /\ Goto(w, reply, next)
             /\ next = "append_log" => step[w] # 3
      BY <2>2 DEF CompleteTask
    <3>2. {"create_task", "append_log"} \in SUBSET (Running \cup {"fail_job"})
      BY DEF Running, InPipeline, DbCalls, RedisCalls, LlmCalls
    <3>3. /\ step' \in [Workers -> Steps]
          /\ \A v \in Workers : v # w => step'[v] = step[v]
          /\ step[w] # 3 => step'[w] = step[w]
      BY <2>0, <2>2 DEF CompleteTask, PipelineTypeOK, Steps
    <3> QED
      BY <1>1, <2>0, <3>1, <3>2, <3>3, GotoRunner
  <2>3. CASE AppendLog(w, reply)
    <3>1. \E next \in {"create_task", "finish"} : Goto(w, reply, next)
      BY <2>3 DEF AppendLog
    <3>2. {"create_task", "finish"} \in SUBSET (Running \cup {"fail_job"})
      BY DEF Running, InPipeline, DbCalls, RedisCalls, LlmCalls
    <3>3. /\ step' \in [Workers -> Steps]
          /\ \A v \in Workers : v # w => step'[v] = step[v]
      BY <1>1, <2>0, <2>3 DEF AppendLog, PipelineTypeOK, Steps
    <3> QED
      BY <1>1, <2>0, <3>1, <3>2, <3>3, GotoRunner
  <2> QED
    BY <2>1, <2>2, <2>3 DEF CreateTask, LlmReturns, Save, Index, Request,
       Deliver, FailTask, FailWorkflow
<1>5. TypeOK'
  BY <1>2, <1>3, <1>4
     DEF IInv, TypeOK, SeenTypeOK, QueueTypeOK, DedupTypeOK, PipelineTypeOK,
         queueVars, dedupVars, historyVars
<1>6. RunnerStep(w)
  BY <1>1, <1>2, <1>3, <1>4
     DEF RunnerStep, Running, historyVars, dedupVars
<1> QED
  BY <1>5, <1>6, RunnerStepOK
\* A call that raises without effect, and a SET NX that loses.
LEMMA RaiseOK ==
    ASSUME IInv, NEW w \in Workers, UNCHANGED <<api, reaped, seen>>,
           RedisError(w) \/ DbError(w) \/ LlmError(w) \/ AcquireLoses(w)
    PROVE  IInv'
<1>1. /\ pc[w] \in InPipeline
      /\ PipelineTypeOK
      /\ UNCHANGED <<queueVars, storeVars, step, job, wf, historyVars, proc, dedupVars>>
      /\ \/ pc' = [pc EXCEPT ![w] = Raised(pc[w])]
         \/ pc[w] = "acquire" /\ pc' = [pc EXCEPT ![w] = "get"]
  BY DEF RedisError, DbError, LlmError, Raise, AcquireLoses, SetNxLoses, Goto,
         InPipeline, RedisCalls, IInv, TypeOK
<1>2. pc' \in [Workers -> InPipeline \cup
                  {"down", "idle", "demo", "fail_job", "dead", "stopped"}]
  BY <1>1 DEF PipelineTypeOK, Raised, InPipeline, DbCalls, RedisCalls
<1>3. TypeOK'
  BY <1>1, <1>2
     DEF IInv, TypeOK, SeenTypeOK, QueueTypeOK, DedupTypeOK, StoreTypeOK, PipelineTypeOK,
         queueVars, dedupVars, storeVars, historyVars
<1>4. RunnerStep(w)
  <2>1. /\ \A v \in Workers : v # w => pc'[v] = pc[v]
        /\ pc'[w] = Raised(pc[w]) \/ (pc[w] = "acquire" /\ pc'[w] = "get")
    BY <1>1 DEF PipelineTypeOK
  <2>2. Raised(pc[w]) = "fail_job" \/ (Raised(pc[w]) = "fail_task" /\ pc[w] \in Running)
    BY <1>1 DEF Raised, InTry, Running, InPipeline, DbCalls, RedisCalls, LlmCalls
  <2>3. "get" \notin Running /\ {"get", "fail_task"} \in SUBSET InPipeline
    BY DEF Running, InPipeline, DbCalls, RedisCalls
  <2>4. "fail_job" \notin Running
    BY DEF Running, InPipeline, DbCalls, RedisCalls, LlmCalls
  <2> QED
    BY <1>1, <2>1, <2>2, <2>3, <2>4 DEF RunnerStep, storeVars, dedupVars, historyVars
<1> QED
  BY <1>3, <1>4, RunnerStepOK

-----------------------------------------------------------------------------
Quiet == {"down", "idle", "dead", "stopped"}

\* A claim stays as it is or ends, and a win that remains is of a claim that
\* remains.
ClaimsOnlyEnd ==
    /\ \A k \in Keys : claim'[k] \in {claim[k], NoClaim}
    /\ winners' \in SUBSET winners
    /\ current' \in SUBSET current
    /\ \A i \in current' : claim'[wfKey[i]] # NoClaim
    /\ \A v \in winners' : claim'[Key(v)] # NoClaim

\* A step that leaves Redis' claims alone and wins none.
LEMMA ClaimsKept ==
    ASSUME IInv, UNCHANGED claim, winners' \in SUBSET winners,
           current' \in SUBSET current
    PROVE  ClaimsOnlyEnd
BY DEF IInv, WinsAreFresh, ClaimsOnlyEnd

\* A worker without work has no win.
LEMMA QuietWorkers ==
    ASSUME IInv, NEW w \in Workers, pc[w] \in Quiet
    PROVE  w \notin winners
<1>1. Quiet \cap (InPipeline \cup {"fail_job"}) = {}
  BY DEF Quiet, InPipeline, DbCalls, RedisCalls, LlmCalls
<1> QED
  BY <1>1 DEF IInv, WinsAreFresh

\* A step that inserts no row, wins no claim and gives no worker work: each
\* worker goes on as it is, or is out of work.
QuietStep ==
    /\ UNCHANGED <<nextId, wfKey>>
    /\ \A i \in Ids : status'[i] = "absent" <=> status[i] = "absent"
    /\ ClaimsOnlyEnd
    /\ \A v \in Workers :
         \/ /\ pc'[v] = pc[v] /\ step'[v] = step[v] /\ job'[v] = job[v]
            /\ wf'[v] = wf[v]
         \/ /\ pc'[v] \in Quiet /\ v \notin winners'
            /\ wf'[v] = NoId /\ job'[v] = NoJob
    /\ \A v \in Workers :
         pc'[v] = "down" <=> proc'[Host[v]] \in {"down", "reaping"}
    /\ \A p \in Procs : \A i \in reaped'[p] : status[i] # "absent"

\* A quiet step keeps the invariant.
LEMMA QuietStepOK ==
    ASSUME IInv, TypeOK', QuietStep, SkipNamesSameCommit'
    PROVE  IInv'
<1> USE DEF IInv, QuietStep, ClaimsOnlyEnd
<1>1. RowsAreSerial' /\ OneRowPerClaim'
  BY DEF RowsAreSerial, OneRowPerClaim
<1>2. ClaimNamesItsRow'
  BY DedupAssumption DEF ClaimNamesItsRow, TypeOK, DedupTypeOK
<1>3. OneRunnerPerRow'
  BY DEF OneRunnerPerRow, NoId, Ids
<1>4. BusyWorkers'
  <2>1. Quiet \cap (InPipeline \cup {"demo", "fail_job"}) = {}
    BY DEF Quiet, InPipeline, DbCalls, RedisCalls, LlmCalls
  <2>2. NoId \notin Ids
    BY DEF NoId, Ids
  <2> QED
    BY <2>1, <2>2 DEF BusyWorkers, Key, Running, Quiet
<1>5. WinsAreFresh'
  BY DEF WinsAreFresh, Key, TypeOK, PipelineTypeOK
<1>6. IdleWorkers'
  BY DEF IdleWorkers
<1>7. ReapedAreRows'
  BY DEF ReapedAreRows, TypeOK
<1> QED
  BY <1>1, <1>2, <1>3, <1>4, <1>5, <1>6, <1>7

\* Only a skip writes an answer.
LEMMA AnswersKept ==
    ASSUME IInv, UNCHANGED <<answer, wfKey>>,
           \A i \in Ids : status'[i] = "absent" <=> status[i] = "absent"
    PROVE  SkipNamesSameCommit'
BY DEF IInv, SkipNamesSameCommit

\* enqueue, dequeue and fail of redis_queue.py keep lists of jobs.
LEMMA QueueTypes ==
    ASSUME QueueTypeOK, NEW j \in Jobs,
           \/ \E q \in QueueName : enqueue(j, q)
           \/ dequeue(j)
           \/ \E b \in BOOLEAN : fail(j, b)
    PROVE  QueueTypeOK'
<1>1. CASE \E q \in QueueName : enqueue(j, q)
  BY <1>1 DEF QueueTypeOK, enqueue
<1>2. CASE dequeue(j)
  BY <1>2 DEF QueueTypeOK, dequeue, Served, QueueName
<1>3. CASE \E b \in BOOLEAN : fail(j, b)
  BY <1>3 DEF QueueTypeOK, fail, QueueName
<1> QED
  BY <1>1, <1>2, <1>3

\* What Return does to the worker and leaves to the others.
LEMMA ReturnQuiet ==
    ASSUME PipelineTypeOK, NEW w \in Workers, NEW next \in Quiet, Return(w, next)
    PROVE  /\ pc' \in [Workers -> InPipeline \cup
                          {"down", "idle", "demo", "fail_job", "dead", "stopped"}]
           /\ step' \in [Workers -> Steps]
           /\ job' \in [Workers -> Jobs \cup {NoJob}]
           /\ wf' \in [Workers -> Ids \cup {NoId}]
           /\ winners' \in SUBSET winners /\ w \notin winners'
           /\ pc'[w] = next /\ wf'[w] = NoId /\ job'[w] = NoJob
           /\ \A v \in Workers : v # w =>
                /\ pc'[v] = pc[v] /\ step'[v] = step[v] /\ job'[v] = job[v]
                /\ wf'[v] = wf[v]
BY DEF PipelineTypeOK, Return, Quiet, Steps

\* _run_job's return leaves the worker idle, or out of its loop.
LEMMA LoopTopQuiet == \A w : LoopTop(w) \in Quiet \ {"down"}
BY DEF LoopTop, Quiet

\* A worker that returns is up, and so is its process.
LEMMA ReturnStays ==
    ASSUME IInv, NEW w \in Workers, NEW next \in Quiet \ {"down"},
           Return(w, next), pc[w] # "down", UNCHANGED proc
    PROVE  \A v \in Workers :
             pc'[v] = "down" <=> proc'[Host[v]] \in {"down", "reaping"}
BY DEF IInv, IdleWorkers, Return, TypeOK, PipelineTypeOK

\* The idempotent skip of run_commit_pipeline keeps the invariant: the id it
\* returns is the claim's, and the claim names a row of its own commit.
LEMMA SkipOK ==
    ASSUME IInv, NEW w \in Workers, UNCHANGED <<api, reaped, seen>>, Skip(w)
    PROVE  IInv'
<1>1. /\ PipelineTypeOK /\ DedupTypeOK
      /\ job[w] \in Jobs /\ Key(w) \in Keys
  BY DEF IInv, TypeOK, BusyWorkers, Skip, InPipeline, RedisCalls
<1>2. /\ fate' \in [Jobs -> {"unsent", "open", "ran", "skipped", "lost", "dropped"}]
      /\ answer' \in [Jobs -> Ids \cup {NoId}]
  BY <1>1 DEF PipelineTypeOK, Skip
<1>3. TypeOK'
  BY <1>1, <1>2, ReturnQuiet, LoopTopQuiet
     DEF Skip, IInv, TypeOK, SeenTypeOK, QueueTypeOK, DedupTypeOK, StoreTypeOK,
         PipelineTypeOK, queueVars, dedupVars, storeVars
<1>4. QuietStep
  BY <1>1, ReturnQuiet, ReturnStays, LoopTopQuiet, ClaimsKept
     DEF QuietStep, Skip, storeVars, dedupVars, IInv, ReapedAreRows
<1>5. SkipNamesSameCommit'
  BY <1>1 DEF SkipNamesSameCommit, ClaimNamesItsRow, Skip, IInv, Key,
     storeVars, PipelineTypeOK, Ids, NoId
<1> QED
  BY <1>3, <1>4, <1>5, QuietStepOK

\* The last session of _run_pipeline_steps keeps the invariant, also when its
\* commit took effect and the reply was lost.
LEMMA FinishOK ==
    ASSUME IInv, NEW w \in Workers, NEW reply \in {"ok", "lost"},
           UNCHANGED <<api, reaped, seen>>, Finish(w, reply)
    PROVE  IInv'
<1>1. /\ PipelineTypeOK /\ StoreTypeOK
      /\ wf[w] \in Ids /\ status[wf[w]] # "absent" /\ job[w] \in Jobs
      /\ pc[w] \in InPipeline
  BY DEF IInv, TypeOK, BusyWorkers, Finish, Running, InPipeline, DbCalls
<1>2. /\ StoreTypeOK'
      /\ UNCHANGED <<nextId, wfKey>>
      /\ \A i \in Ids : status'[i] = "absent" <=> status[i] = "absent"
  BY <1>1, EndWorkflowType DEF Finish, Terminal, Events
<1>3. SkipNamesSameCommit'
  BY <1>2, AnswersKept DEF Finish
<1>4. CASE reply = "ok"
  <2>1. /\ Return(w, LoopTop(w))
        /\ fate' = [fate EXCEPT ![job[w]] = "ran"]
    BY <1>4 DEF Finish
  <2>2. TypeOK'
    BY <1>1, <1>2, <2>1, ReturnQuiet, LoopTopQuiet
       DEF Finish, IInv, TypeOK, SeenTypeOK, QueueTypeOK, DedupTypeOK, PipelineTypeOK,
           queueVars, dedupVars
  <2>3. QuietStep
    BY <1>1, <1>2, <2>1, ReturnQuiet, ReturnStays, LoopTopQuiet, ClaimsKept
       DEF QuietStep, Finish, dedupVars, IInv, ReapedAreRows
  <2> QED
    BY <1>3, <2>2, <2>3, QuietStepOK
<1>5. CASE reply = "lost"
  <2>1. /\ pc' = [pc EXCEPT ![w] = "fail_job"]
        /\ UNCHANGED <<step, job, wf, winners, fate>>
    BY <1>5 DEF Finish, Goto, Raised, InTry
  <2>2. TypeOK'
    BY <1>1, <1>2, <2>1
       DEF Finish, IInv, TypeOK, SeenTypeOK, QueueTypeOK, DedupTypeOK, PipelineTypeOK,
           queueVars, dedupVars
  <2>3. "fail_job" \notin Running
    BY DEF Running, InPipeline, DbCalls, RedisCalls, LlmCalls
  <2>4. RunnerStep(w)
    BY <1>1, <1>2, <2>1, <2>3 DEF RunnerStep, Finish, dedupVars, PipelineTypeOK
  <2> QED
    BY <2>2, <2>4, RunnerStepOK
<1> QED
  BY <1>4, <1>5
-----------------------------------------------------------------------------
\* SET with EX: the key has a value and its whole life before it.
LEMMA SetExType ==
    ASSUME DedupTypeOK, NEW k \in Keys, NEW v \in Ids \cup {PENDING}, SetEx(k, v)
    PROVE  DedupTypeOK'
BY DedupAssumption DEF DedupTypeOK, SetEx

\* A won SET NX of dedup.acquire keeps the invariant: nobody else's win of
\* the commit was left, or its claim would have been there.
LEMMA AcquireWinsOK ==
    ASSUME IInv, NEW w \in Workers, NEW reply \in {"ok", "lost"},
           UNCHANGED <<api, reaped, seen>>, AcquireWins(w, reply)
    PROVE  IInv'
<1>1. /\ PipelineTypeOK /\ DedupTypeOK
      /\ job[w] \in Jobs /\ Key(w) \in Keys /\ pc[w] = "acquire"
      /\ claim[Key(w)] = NoClaim
  BY DEF IInv, TypeOK, BusyWorkers, AcquireWins, SetNxWins, InPipeline, RedisCalls
<1>2. /\ DedupTypeOK'
      /\ \A k \in Keys : claim'[k] = IF k = Key(w) THEN PENDING ELSE claim[k]
      /\ PENDING \notin Ids /\ PENDING # NoClaim
  BY <1>1, SetExType, DedupAssumption DEF AcquireWins, SetNxWins, SetEx, DedupTypeOK
<1>3. /\ \A v \in Workers : v # w => pc'[v] = pc[v]
      /\ \/ pc'[w] = "insert" /\ winners' = winners \cup {w}
         \/ pc'[w] = "fail_job" /\ winners' = winners
      /\ pc' \in [Workers -> InPipeline \cup
                     {"down", "idle", "demo", "fail_job", "dead", "stopped"}]
  BY <1>1 DEF AcquireWins, Goto, Raised, InTry, PipelineTypeOK, InPipeline, DbCalls
<1>4. UNCHANGED <<queueVars, storeVars, step, job, wf, fate, answer, current, proc>>
  BY DEF AcquireWins
<1>5. TypeOK'
  BY <1>1, <1>2, <1>3, <1>4
     DEF IInv, TypeOK, SeenTypeOK, QueueTypeOK, StoreTypeOK, PipelineTypeOK,
         queueVars, storeVars
<1>6. /\ RowsAreSerial' /\ OneRowPerClaim' /\ OneRunnerPerRow'
      /\ SkipNamesSameCommit' /\ ClaimNamesItsRow'
  BY <1>2, <1>4 DEF IInv, RowsAreSerial, OneRowPerClaim, OneRunnerPerRow,
     SkipNamesSameCommit, ClaimNamesItsRow, storeVars
<1>7. BusyWorkers'
  <2>1. {"insert", "fail_job"} \cap Running = {}
    BY DEF Running, InPipeline, DbCalls, RedisCalls, LlmCalls
  <2> QED
    BY <1>1, <1>3, <1>4, <2>1 DEF IInv, BusyWorkers, Key, storeVars
<1>8. WinsAreFresh'
  <2>1. /\ \A i \in current : wfKey[i] \in Keys /\ wfKey[i] # Key(w)
        /\ \A v \in winners : Key(v) \in Keys /\ Key(v) # Key(w) /\ v # w
    BY <1>1 DEF IInv, WinsAreFresh
  <2>2. \A v \in Workers : Key(v)' = Key(v)
    BY <1>4 DEF Key
  <2>3. "insert" \in InPipeline
    BY DEF InPipeline, DbCalls
  <2> QED
    BY <1>1, <1>2, <1>3, <1>4, <2>1, <2>2, <2>3
       DEF IInv, WinsAreFresh, storeVars, PipelineTypeOK
<1>9. IdleWorkers' /\ ReapedAreRows'
  BY <1>1, <1>3, <1>4 DEF IInv, IdleWorkers, ReapedAreRows, storeVars
<1> QED
  BY <1>5, <1>6, <1>7, <1>8, <1>9 DEF IInv

\* dedup.attach_workflow_id keeps the invariant: the worker attaches the row
\* it inserted for its own commit, however late.
LEMMA AttachOK ==
    ASSUME IInv, NEW w \in Workers, NEW reply, UNCHANGED <<api, reaped, seen>>,
           Attach(w, reply)
    PROVE  IInv'
<1>1. /\ PipelineTypeOK /\ DedupTypeOK
      /\ wf[w] \in Ids /\ Key(w) \in Keys /\ pc[w] = "attach"
      /\ status[wf[w]] # "absent" /\ wfKey[wf[w]] = Key(w)
      /\ pc[w] \in Running
  BY DEF IInv, TypeOK, BusyWorkers, Attach, Running, InPipeline, RedisCalls
<1>2. /\ DedupTypeOK'
      /\ \A k \in Keys : claim'[k] = IF k = Key(w) THEN wf[w] ELSE claim[k]
  BY <1>1, SetExType DEF Attach, attach_workflow_id, SetEx, DedupTypeOK
<1>3. /\ pc' \in [Workers -> InPipeline \cup
                     {"down", "idle", "demo", "fail_job", "dead", "stopped"}]
      /\ \A v \in Workers : v # w => pc'[v] = pc[v]
      /\ pc'[w] \in {"create_task", "fail_job"}
  BY <1>1 DEF Attach, Goto, Raised, InTry, PipelineTypeOK, InPipeline, DbCalls
<1>4. UNCHANGED <<queueVars, storeVars, step, job, wf, historyVars, proc>>
  BY DEF Attach
<1>5. TypeOK'
  BY <1>1, <1>2, <1>3, <1>4
     DEF IInv, TypeOK, SeenTypeOK, QueueTypeOK, StoreTypeOK, PipelineTypeOK,
         queueVars, storeVars, historyVars
<1>6. ClaimNamesItsRow'
  BY <1>1, <1>2, <1>4 DEF IInv, ClaimNamesItsRow, storeVars
<1>7. /\ RowsAreSerial' /\ OneRowPerClaim' /\ OneRunnerPerRow' /\ SkipNamesSameCommit'
  BY <1>4 DEF IInv, RowsAreSerial, OneRowPerClaim, OneRunnerPerRow,
     SkipNamesSameCommit, storeVars, historyVars
<1>8. BusyWorkers' /\ WinsAreFresh'
  <2>1. BusyWorkers'
    BY <1>1, <1>3, <1>4 DEF IInv, BusyWorkers, Key, storeVars, Running
  <2>2. \A k \in Keys : claim[k] # NoClaim => claim'[k] # NoClaim
    BY <1>1, <1>2, DedupAssumption
  <2>3. {"create_task", "fail_job"} \in SUBSET (InPipeline \cup {"fail_job"})
    BY DEF InPipeline, DbCalls
  <2>4. WinsAreFresh'
    BY <1>3, <1>4, <2>2, <2>3
       DEF IInv, WinsAreFresh, Key, storeVars, historyVars, TypeOK, PipelineTypeOK
  <2> QED
    BY <2>1, <2>4
<1>9. IdleWorkers' /\ ReapedAreRows'
  BY <1>1, <1>3, <1>4 DEF IInv, IdleWorkers, ReapedAreRows, storeVars
<1> QED
  BY <1>5, <1>6, <1>7, <1>8, <1>9 DEF IInv

\* The INSERT of the workflow row keeps the invariant: the id is new, and on
\* a win that has not expired the commit had no row yet.
LEMMA InsertOK ==
    ASSUME IInv, NEW w \in Workers, NEW reply \in {"ok", "lost"},
           UNCHANGED <<api, reaped, seen>>, Insert(w, reply)
    PROVE  IInv'
<1>1. /\ PipelineTypeOK /\ StoreTypeOK /\ nextId \in Ids
      /\ job[w] \in Jobs /\ Key(w) \in Keys /\ pc[w] = "insert"
      /\ status[nextId] = "absent"
  BY DEF IInv, TypeOK, BusyWorkers, RowsAreSerial, Insert, insert_workflow,
         InPipeline, DbCalls, Ids
<1>2. /\ StoreTypeOK'
      /\ nextId' = nextId + 1
      /\ \A i \in Ids : i # nextId => status'[i] = status[i] /\ wfKey'[i] = wfKey[i]
      /\ status'[nextId] = "running" /\ wfKey'[nextId] = Key(w)
  <2>1. nextId + 1 \in 1..(MaxRows + 1)
    BY <1>1, DomainAssumption DEF Ids
  <2>2. <<"workflow_started">> \in Seq(Events)
    BY DEF Events
  <2> QED
    BY <1>1, <2>1, <2>2 DEF Insert, insert_workflow, StoreTypeOK, RowStatus
<1>3. /\ wf' \in [Workers -> Ids \cup {NoId}]
      /\ current' \in SUBSET Ids
      /\ pc' \in [Workers -> InPipeline \cup
                     {"down", "idle", "demo", "fail_job", "dead", "stopped"}]
      /\ \A v \in Workers : v # w => pc'[v] = pc[v] /\ wf'[v] = wf[v]
      /\ \/ pc'[w] = "attach" /\ wf'[w] = nextId
         \/ pc'[w] = "fail_job" /\ wf'[w] = NoId
      /\ current' = IF w \in winners THEN current \cup {nextId} ELSE current
  BY <1>1 DEF Insert, Goto, Raised, InTry, PipelineTypeOK, InPipeline, DbCalls,
     RedisCalls
<1>4. UNCHANGED <<queueVars, dedupVars, step, job, fate, answer, winners, proc>>
  BY DEF Insert
<1>5. TypeOK'
  BY <1>1, <1>2, <1>3, <1>4
     DEF IInv, TypeOK, SeenTypeOK, QueueTypeOK, DedupTypeOK, PipelineTypeOK,
         queueVars, dedupVars
<1>6. RowsAreSerial'
  BY <1>1, <1>2 DEF IInv, RowsAreSerial, Ids, StoreTypeOK
<1>7. \A i \in Ids : status[i] # "absent" => i # nextId
  BY <1>1
<1>8. ClaimNamesItsRow' /\ SkipNamesSameCommit'
  BY <1>2, <1>4, <1>7 DEF IInv, ClaimNamesItsRow, SkipNamesSameCommit, dedupVars
<1>9. OneRowPerClaim'
  BY <1>1, <1>2, <1>3, <1>7
     DEF IInv, OneRowPerClaim, WinsAreFresh, TypeOK, PipelineTypeOK
<1>10. \A v \in Workers : wf[v] \in Ids => wf[v] # nextId
  BY <1>7 DEF IInv, BusyWorkers
<1>11. NoId \notin Ids
  BY DEF NoId, Ids
<1>12. OneRunnerPerRow'
  BY <1>3, <1>10, <1>11 DEF IInv, OneRunnerPerRow
<1>13. BusyWorkers'
  <2>1. "fail_job" \notin Running
    BY DEF Running, InPipeline, DbCalls, RedisCalls, LlmCalls
  <2> QED
    BY <1>1, <1>2, <1>3, <1>4, <1>7, <1>10, <1>11, <2>1 DEF IInv, BusyWorkers, Key, Running
<1>14. WinsAreFresh'
  <2>1. \A v \in Workers : Key(v)' = Key(v)
    BY <1>4 DEF Key
  <2>2. /\ pc'[w] \in InPipeline \cup {"fail_job"}
        /\ pc'[w] \notin {"acquire", "get", "insert"}
    BY <1>3 DEF InPipeline, RedisCalls
  <2>3. \A i \in current :
          status'[i] # "absent" /\ wfKey'[i] = wfKey[i] /\ claim'[wfKey[i]] # NoClaim
    BY <1>1, <1>2, <1>4, <1>7
       DEF IInv, WinsAreFresh, TypeOK, PipelineTypeOK, dedupVars
  <2>4. w \in winners =>
          claim'[Key(w)] # NoClaim /\ \A v \in winners : v # w => Key(v) # Key(w)
    BY <1>4 DEF IInv, WinsAreFresh, dedupVars
  <2> QED
    BY <1>1, <1>2, <1>3, <1>4, <2>1, <2>2, <2>3, <2>4
       DEF IInv, WinsAreFresh, TypeOK, PipelineTypeOK, dedupVars
<1>15. IdleWorkers' /\ ReapedAreRows'
  BY <1>1, <1>2, <1>3, <1>4 DEF IInv, IdleWorkers, ReapedAreRows, TypeOK
<1> QED
  BY <1>5, <1>6, <1>8, <1>9, <1>12, <1>13, <1>14, <1>15 DEF IInv
-----------------------------------------------------------------------------
(* The worker loop, the producers, the processes and the clock.            *)

\* A worker that takes a job from BLPOP starts without a row and a win.
LEMMA DequeueOK ==
    ASSUME IInv, NEW w \in Workers, NEW j \in Jobs, Dequeue(w, j)
    PROVE  IInv'
<1>1. /\ PipelineTypeOK
      /\ QueueTypeOK'
  BY QueueTypes DEF IInv, TypeOK, Dequeue
<1>2. /\ pc' \in [Workers -> InPipeline \cup
                     {"down", "idle", "demo", "fail_job", "dead", "stopped"}]
      /\ job' \in [Workers -> Jobs \cup {NoJob}]
      /\ \A v \in Workers : v # w => pc'[v] = pc[v] /\ job'[v] = job[v]
      /\ \/ pc'[w] \in {"demo", "fail_job"}
         \/ pc'[w] = "acquire" /\ KeyOf[j] \in Keys
      /\ job'[w] = j
      /\ pc[w] = "idle"
  BY <1>1, PipelineAssumption
     DEF Dequeue, PipelineTypeOK, InPipeline, RedisCalls
<1>3. UNCHANGED <<dedupVars, storeVars, step, wf, historyVars, procVars>>
  BY DEF Dequeue
<1>4. TypeOK'
  BY <1>1, <1>2, <1>3
     DEF IInv, TypeOK, SeenTypeOK, DedupTypeOK, StoreTypeOK, PipelineTypeOK, dedupVars,
         storeVars, historyVars, procVars
<1>5. wf[w] = NoId /\ NoId \notin Ids
  BY <1>2 DEF IInv, IdleWorkers, NoId, Ids
<1>6. /\ RowsAreSerial' /\ OneRowPerClaim' /\ OneRunnerPerRow'
      /\ SkipNamesSameCommit' /\ ClaimNamesItsRow'
  BY <1>3 DEF IInv, RowsAreSerial, OneRowPerClaim, OneRunnerPerRow,
     SkipNamesSameCommit, ClaimNamesItsRow, storeVars, dedupVars, historyVars
<1>7. BusyWorkers'
  <2>1. /\ {"acquire", "demo", "fail_job"} \cap Running = {}
        /\ {"demo", "fail_job"} \cap InPipeline = {}
    BY DEF Running, InPipeline, DbCalls, RedisCalls, LlmCalls
  <2> QED
    BY <1>2, <1>3, <1>5, <2>1 DEF IInv, BusyWorkers, Key, storeVars
<1>8. WinsAreFresh'
  <2>1. w \notin winners
    BY <1>2, QuietWorkers DEF Quiet
  <2> QED
    BY <1>2, <1>3, <2>1 DEF IInv, WinsAreFresh, Key, TypeOK, PipelineTypeOK,
       storeVars, dedupVars, historyVars
<1>9. IdleWorkers' /\ ReapedAreRows'
  BY <1>2, <1>3 DEF IInv, IdleWorkers, ReapedAreRows, storeVars, procVars
<1> QED
  BY <1>4, <1>6, <1>7, <1>8, <1>9 DEF IInv

\* A demo_request that is over leaves claims and rows as they are.
LEMMA DemoOK ==
    ASSUME IInv, NEW w \in Workers, DemoReturns(w) \/ DemoRaises(w)
    PROVE  IInv'
<1>1. /\ PipelineTypeOK /\ pc[w] = "demo" /\ job[w] \in Jobs
      /\ UNCHANGED <<queueVars, dedupVars, storeVars, answer, current, procVars>>
  BY DEF IInv, TypeOK, BusyWorkers, DemoReturns, DemoRaises, historyVars
<1>2. CASE DemoReturns(w)
  <2>1. /\ Return(w, LoopTop(w))
        /\ fate' \in [Jobs -> {"unsent", "open", "ran", "skipped", "lost", "dropped"}]
    BY <1>1, <1>2 DEF DemoReturns, PipelineTypeOK
  <2>2. TypeOK'
    BY <1>1, <2>1, ReturnQuiet, LoopTopQuiet
       DEF IInv, TypeOK, SeenTypeOK, QueueTypeOK, DedupTypeOK, StoreTypeOK,
           PipelineTypeOK, queueVars, dedupVars, storeVars, procVars
  <2>3. QuietStep
    BY <1>1, <2>1, ReturnQuiet, ReturnStays, LoopTopQuiet, ClaimsKept
       DEF QuietStep, storeVars, dedupVars, procVars, IInv, ReapedAreRows
  <2>4. SkipNamesSameCommit'
    BY <1>1, AnswersKept DEF storeVars
  <2> QED
    BY <2>2, <2>3, <2>4, QuietStepOK
<1>3. CASE DemoRaises(w)
  <2>1. /\ pc' = [pc EXCEPT ![w] = "fail_job"]
        /\ UNCHANGED <<step, job, wf, historyVars>>
    BY <1>3 DEF DemoRaises
  <2>2. TypeOK'
    BY <1>1, <2>1
       DEF IInv, TypeOK, SeenTypeOK, QueueTypeOK, DedupTypeOK, StoreTypeOK,
           PipelineTypeOK, queueVars, dedupVars, storeVars, procVars, historyVars
  <2>3. {"demo", "fail_job"} \cap InPipeline = {}
    BY DEF InPipeline, DbCalls, RedisCalls, LlmCalls
  <2>4. w \notin winners
    BY <1>1, <2>3 DEF IInv, WinsAreFresh
  <2> QED
    BY <1>1, <2>1, <2>2, <2>3, <2>4
       DEF IInv, RowsAreSerial, BusyWorkers, IdleWorkers, ReapedAreRows, WinsAreFresh,
           OneRowPerClaim, ClaimNamesItsRow, SkipNamesSameCommit, OneRunnerPerRow, Key,
           Running, PipelineTypeOK, storeVars, dedupVars, procVars, historyVars
<1> QED
  BY <1>2, <1>3

\* q.fail in _run_job, when it dead-letters the job and when it raises and
\* ends the worker, keeps the invariant.
LEMMA FailJobOK ==
    ASSUME IInv, NEW w \in Workers,
           FailJobError(w) \/ \E reply \in {"ok", "lost"} : FailJob(w, reply)
    PROVE  IInv'
<1>1. /\ PipelineTypeOK /\ QueueTypeOK
      /\ pc[w] = "fail_job" /\ job[w] \in Jobs
      /\ UNCHANGED <<dedupVars, storeVars, answer, current, procVars>>
  BY DEF IInv, TypeOK, BusyWorkers, FailJob, FailJobError
<1>2. \E next \in Quiet \ {"down"} : Return(w, next)
  BY LoopTopQuiet DEF FailJob, FailJobError, Quiet
<1>3. QueueTypeOK' /\ fate' \in [Jobs -> {"unsent", "open", "ran", "skipped", "lost", "dropped"}]
  BY <1>1, QueueTypes DEF FailJob, FailJobError, PipelineTypeOK
<1>4. TypeOK'
  BY <1>1, <1>2, <1>3, ReturnQuiet
     DEF IInv, TypeOK, SeenTypeOK, DedupTypeOK, StoreTypeOK, PipelineTypeOK,
         dedupVars, storeVars, procVars
<1>5. QuietStep
  BY <1>1, <1>2, ReturnQuiet, ReturnStays, ClaimsKept
     DEF QuietStep, storeVars, dedupVars, procVars, IInv, ReapedAreRows
<1>6. SkipNamesSameCommit'
  BY <1>1, AnswersKept DEF storeVars
<1> QED
  BY <1>4, <1>5, <1>6, QuietStepOK

\* BLPOP popped a job nobody gets, or the worker leaves its loop.
LEMMA LoopOK ==
    ASSUME IInv, NEW w \in Workers,
           LeaveLoop(w) \/ \E j \in Jobs : DequeueLost(w, j)
    PROVE  IInv'
<1>1. /\ PipelineTypeOK /\ QueueTypeOK
      /\ pc[w] = "idle" /\ job[w] = NoJob /\ wf[w] = NoId
      /\ pc' = [pc EXCEPT ![w] = LoopTop(w)]
      /\ UNCHANGED <<dedupVars, storeVars, step, job, wf, answer, winners, current, procVars>>
  BY DEF IInv, TypeOK, IdleWorkers, LeaveLoop, DequeueLost, historyVars
<1>2. QueueTypeOK' /\ fate' \in [Jobs -> {"unsent", "open", "ran", "skipped", "lost", "dropped"}]
  <2>1. CASE LeaveLoop(w)
    BY <1>1, <2>1 DEF LeaveLoop, queueVars, historyVars, QueueTypeOK, PipelineTypeOK
  <2>2. CASE \E j \in Jobs : DequeueLost(w, j)
    BY <1>1, <2>2, QueueTypes DEF DequeueLost, PipelineTypeOK
  <2> QED
    BY <2>1, <2>2
<1>3. TypeOK'
  BY <1>1, <1>2, LoopTopQuiet
     DEF IInv, TypeOK, SeenTypeOK, DedupTypeOK, StoreTypeOK, PipelineTypeOK,
         dedupVars, storeVars, procVars, Quiet
<1>4. QuietStep
  <2>1. ClaimsOnlyEnd /\ w \notin winners
    BY <1>1, ClaimsKept, QuietWorkers DEF dedupVars, Quiet
  <2> QED
    BY <1>1, <2>1, LoopTopQuiet
       DEF IInv, IdleWorkers, ReapedAreRows, QuietStep, storeVars, dedupVars,
         procVars, PipelineTypeOK
<1>5. SkipNamesSameCommit'
  BY <1>1, AnswersKept DEF storeVars
<1> QED
  BY <1>3, <1>4, <1>5, QuietStepOK

\* The EventWatcher and POST /trigger only push jobs.
LEMMA SendOK ==
    ASSUME IInv, NEW j \in Jobs, EmitCommit(j) \/ EnqueueManual(j)
    PROVE  IInv'
<1>1. \E q \in QueueName : Send(j, q)
  BY DEF EmitCommit, EnqueueManual, QueueName
<1>2. UNCHANGED <<dedupVars, storeVars, workerVars, answer, winners, current, procVars>>
  BY <1>1 DEF Send
<1>3. QueueTypeOK' /\ fate' \in [Jobs -> {"unsent", "open", "ran", "skipped", "lost", "dropped"}]
  BY <1>1, QueueTypes DEF IInv, TypeOK, PipelineTypeOK, Send
<1>4. TypeOK'
  BY <1>2, <1>3
     DEF IInv, TypeOK, SeenTypeOK, DedupTypeOK, StoreTypeOK, PipelineTypeOK, dedupVars,
         storeVars, workerVars, procVars
<1>5. QuietStep
  BY <1>2, ClaimsKept DEF QuietStep, storeVars, dedupVars, workerVars, procVars,
     IInv, IdleWorkers, ReapedAreRows
<1>6. SkipNamesSameCommit'
  BY <1>2, AnswersKept DEF storeVars
<1> QED
  BY <1>4, <1>5, <1>6, QuietStepOK

\* The commit of reap_orphan_workflows removes no row.
LEMMA ReapType ==
    ASSUME StoreTypeOK, NEW S \in SUBSET Ids, NEW L \in [Ids -> Seq(Events)],
           reap(S, L),
           \A i \in S : status[i] # "absent"
    PROVE  /\ StoreTypeOK'
           /\ UNCHANGED <<nextId, wfKey>>
           /\ \A i \in Ids : status'[i] = "absent" <=> status[i] = "absent"
BY DEF StoreTypeOK, reap, RowStatus, Terminal, Events
\* A step that touches neither rows nor claims nor workers.
LEMMA StartStopOK ==
    ASSUME IInv, NEW p \in Procs, Start(p) \/ Stop(p) \/ ApiFails(p)
    PROVE  IInv'
<1>1. UNCHANGED <<queueVars, dedupVars, storeVars, workerVars, historyVars>>
  BY DEF Start, Stop, ApiFails
<1>2. /\ proc' \in [Procs -> {"down", "reaping", "up", "stopping"}]
      /\ api' \in [Procs -> BOOLEAN]
      /\ reaped' \in [Procs -> SUBSET Ids]
      /\ SeenTypeOK'
      /\ \A q \in Procs : \A i \in reaped'[q] : status[i] # "absent"
      /\ \A q \in Procs : proc'[q] \in {"down", "reaping"} <=>
                             proc[q] \in {"down", "reaping"}
  <2>1. CASE Start(p)
    <3>1. Orphans \in SUBSET Ids /\ \A i \in Orphans : status[i] # "absent"
      BY DEF Orphans
    <3>2. [i \in Ids |-> IF i \in Orphans THEN logs[i] ELSE <<>>]
             \in [Ids -> Seq(Events)]
      BY DEF IInv, TypeOK, StoreTypeOK
    <3> QED
      BY <2>1, <3>1, <3>2 DEF IInv, TypeOK, SeenTypeOK, PipelineTypeOK, ReapedAreRows, Start
  <2>2. CASE Stop(p)
    BY <2>2 DEF IInv, TypeOK, SeenTypeOK, PipelineTypeOK, ReapedAreRows, Stop
  <2>3. CASE ApiFails(p)
    BY <2>3 DEF IInv, TypeOK, SeenTypeOK, PipelineTypeOK, ReapedAreRows, ApiFails
  <2> QED
    BY <2>1, <2>2, <2>3
<1>3. TypeOK'
  BY <1>1, <1>2
     DEF IInv, TypeOK, SeenTypeOK, QueueTypeOK, DedupTypeOK, StoreTypeOK, PipelineTypeOK,
         queueVars, dedupVars, storeVars, workerVars, historyVars
<1>4. QuietStep
  BY <1>1, <1>2, PipelineAssumption, ClaimsKept
     DEF QuietStep, storeVars, dedupVars, workerVars, historyVars, IInv, IdleWorkers
<1>5. SkipNamesSameCommit'
  BY <1>1, AnswersKept DEF storeVars, historyVars
<1> QED
  BY <1>3, <1>4, <1>5, QuietStepOK

\* The reaper's commit and the start of the workers, and a start that fails,
\* keep the invariant.
LEMMA BootOK ==
    ASSUME IInv, NEW p \in Procs, Boot(p) \/ BootFails(p)
    PROVE  IInv'
<1>1. /\ StoreTypeOK /\ PipelineTypeOK
      /\ reaped[p] \in SUBSET Ids
      /\ seen[p] \in [Ids -> Seq(Events)]
      /\ \A i \in reaped[p] : status[i] # "absent"
      /\ proc[p] = "reaping"
      /\ UNCHANGED <<queueVars, dedupVars, step, job, wf, historyVars>>
  BY DEF IInv, TypeOK, SeenTypeOK, ReapedAreRows, Boot, BootFails, workerVars
<1>2. /\ StoreTypeOK'
      /\ UNCHANGED <<nextId, wfKey>>
      /\ \A i \in Ids : status'[i] = "absent" <=> status[i] = "absent"
  <2>1. CASE reap(reaped[p], seen[p])
    BY <1>1, <2>1, ReapType
  <2>2. CASE UNCHANGED storeVars
    BY <1>1, <2>2 DEF storeVars, StoreTypeOK
  <2> QED
    BY <2>1, <2>2 DEF Boot, BootFails
<1>3. /\ proc' \in [Procs -> {"down", "reaping", "up", "stopping"}]
      /\ api' \in [Procs -> BOOLEAN]
      /\ reaped' = [reaped EXCEPT ![p] = {}]
      /\ SeenTypeOK'
      /\ \A q \in Procs : q # p => proc'[q] = proc[q]
  <2>1. /\ proc' = [proc EXCEPT ![p] = "up"] \/ proc' = [proc EXCEPT ![p] = "down"]
        /\ api' = api \/ api' = [api EXCEPT ![p] = TRUE]
        /\ reaped' = [reaped EXCEPT ![p] = {}]
        /\ seen' = [seen EXCEPT ![p] = NoLogs]
    BY DEF Boot, BootFails
  <2>2. /\ proc \in [Procs -> {"down", "reaping", "up", "stopping"}]
        /\ api \in [Procs -> BOOLEAN]
        /\ seen \in [Procs -> [Ids -> Seq(Events)]]
    BY DEF IInv, TypeOK, SeenTypeOK, PipelineTypeOK
  <2>3. SeenTypeOK'
    BY <2>1, <2>2, NoLogsType DEF SeenTypeOK
  <2>4. api' \in [Procs -> BOOLEAN]
    BY <2>1, <2>2, Zenon
  <2> QED
    BY <2>1, <2>2, <2>3, <2>4
<1>4. /\ pc' \in [Workers -> InPipeline \cup
                     {"down", "idle", "demo", "fail_job", "dead", "stopped"}]
      /\ \A w \in Workers : Host[w] # p => pc'[w] = pc[w]
      /\ \/ proc'[p] = "up" /\ \A w \in Workers : Host[w] = p => pc'[w] = "idle"
         \/ proc'[p] = "down" /\ pc' = pc
  BY <1>1 DEF PipelineTypeOK, Boot, BootFails, workerVars
<1>5. TypeOK'
  BY <1>1, <1>2, <1>3, <1>4
     DEF IInv, TypeOK, SeenTypeOK, QueueTypeOK, DedupTypeOK, PipelineTypeOK,
         queueVars, dedupVars, historyVars
<1>6. \A w \in Workers : Host[w] = p => pc[w] = "down" /\ wf[w] = NoId /\ job[w] = NoJob
  BY <1>1 DEF IInv, IdleWorkers
<1>7. QuietStep
  <2>1. \A v \in Workers :
         \/ /\ pc'[v] = pc[v] /\ step'[v] = step[v] /\ job'[v] = job[v]
            /\ wf'[v] = wf[v]
         \/ /\ pc'[v] \in Quiet /\ v \notin winners'
            /\ wf'[v] = NoId /\ job'[v] = NoJob
    BY <1>1, <1>4, <1>6, QuietWorkers DEF historyVars, Quiet
  <2>2. \A v \in Workers :
         pc'[v] = "down" <=> proc'[Host[v]] \in {"down", "reaping"}
    BY <1>3, <1>4, <1>6, PipelineAssumption DEF IInv, IdleWorkers
  <2>3. \A q \in Procs : \A i \in reaped'[q] : status[i] # "absent"
    BY <1>3 DEF IInv, TypeOK, ReapedAreRows
  <2> QED
    BY <1>1, <1>2, <2>1, <2>2, <2>3, ClaimsKept DEF QuietStep, dedupVars, historyVars
<1>8. SkipNamesSameCommit'
  BY <1>1, <1>2, AnswersKept DEF historyVars
<1> QED
  BY <1>5, <1>7, <1>8, QuietStepOK

\* A process that dies takes its workers' jobs along and touches nothing
\* that is stored.
LEMMA DiesOK ==
    ASSUME IInv, NEW p \in Procs, NEW end \in {"lost", "dropped"}, Dies(p, end)
    PROVE  IInv'
<1>1. UNCHANGED <<queueVars, dedupVars, storeVars, answer, current, api>>
  BY DEF Dies
<1>2. /\ fate' \in [Jobs -> {"unsent", "open", "ran", "skipped", "lost", "dropped"}]
      /\ pc' \in [Workers -> InPipeline \cup
                     {"down", "idle", "demo", "fail_job", "dead", "stopped"}]
      /\ step' \in [Workers -> Steps]
      /\ job' \in [Workers -> Jobs \cup {NoJob}]
      /\ wf' \in [Workers -> Ids \cup {NoId}]
      /\ winners' \in SUBSET winners
  BY DEF IInv, TypeOK, PipelineTypeOK, Dies, Steps
<1>3. /\ proc' \in [Procs -> {"down", "reaping", "up", "stopping"}]
      /\ proc'[p] = "down"
      /\ \A q \in Procs : q # p => proc'[q] = proc[q]
      /\ reaped' \in [Procs -> SUBSET Ids]
      /\ SeenTypeOK'
      /\ \A q \in Procs : \A i \in reaped'[q] : status[i] # "absent"
  BY NoLogsType DEF IInv, TypeOK, SeenTypeOK, PipelineTypeOK, ReapedAreRows, Dies
<1>4. \A v \in Workers :
         \/ /\ pc'[v] = pc[v] /\ step'[v] = step[v] /\ job'[v] = job[v]
            /\ wf'[v] = wf[v] /\ Host[v] # p
         \/ /\ pc'[v] = "down" /\ Host[v] = p /\ v \notin winners'
            /\ wf'[v] = NoId /\ job'[v] = NoJob
  BY DEF Dies
<1>5. TypeOK'
  BY <1>1, <1>2, <1>3
     DEF IInv, TypeOK, SeenTypeOK, QueueTypeOK, DedupTypeOK, StoreTypeOK, PipelineTypeOK,
         queueVars, dedupVars, storeVars
<1>6. QuietStep
  BY <1>1, <1>2, <1>3, <1>4, PipelineAssumption, ClaimsKept
     DEF QuietStep, Quiet, storeVars, dedupVars, IInv, IdleWorkers
<1>7. SkipNamesSameCommit'
  BY <1>1, AnswersKept DEF storeVars
<1> QED
  BY <1>5, <1>6, <1>7, QuietStepOK

\* Time passing ends claims, and with each claim the wins that rest on it.
LEMMA TickOK == IInv /\ Tick => IInv'
<1> SUFFICES ASSUME IInv, Tick PROVE IInv'
  OBVIOUS
<1>1. UNCHANGED <<queueVars, workerVars, fate, answer, procVars, nextId, status,
                  wfKey, logs, task, memories, embedded, vectors, approvals,
                  delivered>>
  BY DEF Tick, StoreTick
<1>2. DedupTypeOK' /\ \A k \in Keys : claim'[k] \in {claim[k], NoClaim}
  BY DedupAssumption DEF Tick, DedupTick, IInv, TypeOK, DedupTypeOK
<1>3. age' \in [Ids -> 0..(MaxAge + 1)]
  BY StoreAssumption DEF Tick, StoreTick, IInv, TypeOK, StoreTypeOK
<1>4. winners' \in SUBSET winners /\ current' \in SUBSET current
  BY DEF Tick
<1>5. TypeOK'
  BY <1>1, <1>2, <1>3, <1>4
     DEF IInv, TypeOK, SeenTypeOK, QueueTypeOK, StoreTypeOK, PipelineTypeOK,
         queueVars, workerVars, procVars
<1>6. ClaimsOnlyEnd
  BY <1>2, <1>4 DEF ClaimsOnlyEnd, Tick
<1>7. QuietStep
  BY <1>1, <1>6 DEF QuietStep, workerVars, procVars, IInv, IdleWorkers, ReapedAreRows
<1>8. SkipNamesSameCommit'
  BY <1>1, AnswersKept
<1> QED
  BY <1>5, <1>8, <1>7, QuietStepOK

-----------------------------------------------------------------------------
\* IInv is inductive.
LEMMA NextOK == IInv /\ [Next]_allVars => IInv'
<1> SUFFICES ASSUME IInv, [Next]_allVars PROVE IInv'
  OBVIOUS
<1>1. CASE UNCHANGED allVars
  <2>1. QuietStep /\ UNCHANGED <<answer, wfKey, status>>
    BY <1>1, ClaimsKept DEF allVars, vars, storeVars, dedupVars, workerVars,
       historyVars, QuietStep, IInv, IdleWorkers, ReapedAreRows
  <2>2. TypeOK'
    BY <1>1 DEF allVars, vars, storeVars, dedupVars, workerVars, historyVars,
       queueVars, IInv, TypeOK, SeenTypeOK, QueueTypeOK, DedupTypeOK, StoreTypeOK, PipelineTypeOK
  <2> QED
    BY <2>1, <2>2, AnswersKept, QuietStepOK
<1>2. ASSUME NEW w \in Workers, PipelineStep(w) PROVE IInv'
  <2>1. Indexings \in SUBSET (0..2)
    BY DEF Indexings
  <2> QED
    BY <1>2, <2>1, RunnerActionsOK, RaiseOK, SkipOK, FinishOK, AcquireWinsOK,
       AttachOK, InsertOK DEF PipelineStep, Pipeline, Replies
<1>3. ASSUME NEW w \in Workers, WorkerStep(w) PROVE IInv'
  BY <1>2, <1>3, DemoOK, FailJobOK, LoopOK DEF WorkerStep, Replies
<1>4. ASSUME NEW p \in Procs, Crash(p) \/ StopRaises(p) \/ Exit(p) PROVE IInv'
  BY <1>4, DiesOK DEF Crash, StopRaises, Exit
<1> QED
  BY <1>1, <1>3, <1>4, SendOK, DequeueOK, LoopOK, StartStopOK, BootOK, TickOK
     DEF Next

\* IInv holds in every state, for every number of workers, processes, jobs
\* and commits and every combination of crashes, stops and failing calls.
THEOREM Invariance == Spec => []IInv
BY InitOK, NextOK, PTL DEF Spec

\* TypeOK holds in every state.
THEOREM TypeCorrect == Spec => []TypeOK
<1>1. IInv => TypeOK
  BY DEF IInv
<1> QED
  BY <1>1, Invariance, PTL

\* OneRowPerClaim, the promise of the (repo, sha) guard of
\* run_commit_pipeline, for any number of workers and processes, with every
\* crash, lost reply and expiry in between.
THEOREM OneRowPerClaimHolds == Spec => []OneRowPerClaim
<1>1. IInv => OneRowPerClaim
  BY DEF IInv
<1> QED
  BY <1>1, Invariance, PTL

\* ClaimNamesItsRow: attach_workflow_id never publishes another commit's row.
THEOREM ClaimNamesItsRowHolds == Spec => []ClaimNamesItsRow
<1>1. IInv => ClaimNamesItsRow
  BY DEF IInv
<1> QED
  BY <1>1, Invariance, PTL

\* SkipNamesSameCommit: the workflow_id a duplicate event is answered with
\* is a row of that commit.
THEOREM SkipNamesSameCommitHolds == Spec => []SkipNamesSameCommit
<1>1. IInv => SkipNamesSameCommit
  BY DEF IInv
<1> QED
  BY <1>1, Invariance, PTL

\* OneRunnerPerRow: the workers of _worker never share a workflow row.
THEOREM OneRunnerPerRowHolds == Spec => []OneRunnerPerRow
<1>1. IInv => OneRunnerPerRow
  BY DEF IInv
<1> QED
  BY <1>1, Invariance, PTL

-----------------------------------------------------------------------------
(* The jobs: lists, hands and what moves between them.                     *)

\* A job has a number of copies in a list, none in an empty one.
LEMMA CopiesType ==
    ASSUME NEW j, NEW s \in Seq(Jobs)
    PROVE  /\ Copies(j, s) \in Nat
           /\ s = <<>> => Copies(j, s) = 0
           /\ Copies(j, s) > 0 <=> \E n \in DOMAIN s : s[n] = j
<1> DEFINE At == {n \in DOMAIN s : s[n] = j}
<1>1. IsFiniteSet(At)
  <2>1. DOMAIN s = 1..Len(s) /\ Len(s) \in Nat
    OBVIOUS
  <2>2. IsFiniteSet(DOMAIN s)
    BY <2>1, FS_Interval
  <2> QED
    BY <2>2, FS_Subset
<1>2. Cardinality(At) \in Nat /\ (Cardinality(At) = 0 <=> At = {})
  BY <1>1, FS_CardinalityType, FS_EmptySet
<1>3. s = <<>> => At = {}
  OBVIOUS
<1> QED
  BY <1>2, <1>3 DEF Copies

\* RPUSH adds one copy.
LEMMA CopiesAppend ==
    ASSUME NEW j, NEW s \in Seq(Jobs), NEW x \in Jobs
    PROVE  Copies(j, Append(s, x)) = Copies(j, s) + (IF x = j THEN 1 ELSE 0)
<1> DEFINE At == {n \in DOMAIN s : s[n] = j}
           More == {n \in DOMAIN Append(s, x) : Append(s, x)[n] = j}
<1>1. IsFiniteSet(At) /\ Cardinality(At) \in Nat
  <2>1. DOMAIN s = 1..Len(s) /\ Len(s) \in Nat
    OBVIOUS
  <2>2. IsFiniteSet(DOMAIN s)
    BY <2>1, FS_Interval
  <2> QED
    BY <2>2, FS_Subset, FS_CardinalityType
<1>2. Len(s) + 1 \notin At
  OBVIOUS
<1>3. CASE x = j
  <2>1. More = At \cup {Len(s) + 1}
    BY <1>3
  <2> QED
    BY <1>1, <1>2, <1>3, <2>1, FS_AddElement DEF Copies
<1>4. CASE x # j
  <2>1. More = At
    BY <1>4
  <2>2. Copies(j, Append(s, x)) = Cardinality(More) /\ Copies(j, s) = Cardinality(At)
    BY DEF Copies
  <2> HIDE DEF More, At
  <2> QED
    BY <1>1, <1>4, <2>1, <2>2
<1> QED
  BY <1>3, <1>4

\* BLPOP takes the copy at the head.
LEMMA CopiesTail ==
    ASSUME NEW j, NEW s \in Seq(Jobs), s # <<>>
    PROVE  Copies(j, s) = Copies(j, Tail(s)) + (IF Head(s) = j THEN 1 ELSE 0)
<1> DEFINE At == {n \in DOMAIN s : s[n] = j}
           Rest == {n \in DOMAIN Tail(s) : Tail(s)[n] = j}
           Later == At \ {1}
           Shift == [n \in Later |-> n - 1]
<1>1. IsFiniteSet(At) /\ Cardinality(At) \in Nat
  <2>1. DOMAIN s = 1..Len(s) /\ Len(s) \in Nat
    OBVIOUS
  <2>2. IsFiniteSet(DOMAIN s)
    BY <2>1, FS_Interval
  <2> QED
    BY <2>2, FS_Subset, FS_CardinalityType
<1>2. /\ IsFiniteSet(Later)
      /\ Cardinality(Later) \in Nat
      /\ Cardinality(At) = Cardinality(Later) + (IF 1 \in At THEN 1 ELSE 0)
  <2>1. /\ IsFiniteSet(At \ {1})
        /\ Cardinality(At \ {1}) = IF 1 \in At THEN Cardinality(At) - 1 ELSE Cardinality(At)
    <3> HIDE DEF At
    <3> QED BY <1>1, FS_RemoveElement
  <2>2. Cardinality(At \ {1}) \in Nat
    BY <2>1, FS_CardinalityType
  <2> HIDE DEF At
  <2> QED
    BY <1>1, <2>1, <2>2
<1>3. 1 \in At <=> Head(s) = j
  OBVIOUS
<1>4. Cardinality(Rest) = Cardinality(Later)
  <2>1. \A n \in Later : n - 1 \in Rest
    OBVIOUS
  <2>2. \A m \in Rest : m + 1 \in Later /\ (m + 1) - 1 = m
    OBVIOUS
  <2>3. \A m, n \in Later : m - 1 = n - 1 => m = n
    OBVIOUS
  <2> HIDE DEF Later, Rest
  <2>4. Shift \in Bijection(Later, Rest)
    <3>1. Shift \in [Later -> Rest]
      BY <2>1
    <3>2. \A m, n \in Later : Shift[m] = Shift[n] => m = n
      BY <2>3
    <3>3. \A m \in Rest : \E n \in Later : Shift[n] = m
      BY <2>2
    <3> QED
      BY <3>1, <3>2, <3>3 DEF Bijection, Injection, Surjection, IsInjective
  <2>5. ExistsBijection(Later, Rest)
    BY <2>4 DEF ExistsBijection
  <2> QED
    BY <1>2, <2>5, FS_Bijection
<1> QED
  BY <1>1, <1>2, <1>3, <1>4 DEF Copies

\* The hands a job is in can be counted: there are finitely many workers.
LEMMA HandsType ==
    ASSUME NEW j \in Jobs
    PROVE  /\ Hands(j) \in Nat
           /\ Hands(j) > 0 <=> \E w \in Workers : job[w] = j
<1> DEFINE Holders == {w \in Workers : job[w] = j}
<1>1. IsFiniteSet(Holders)
  BY WorkersAssumption, FS_Subset
<1>2. Cardinality(Holders) \in Nat /\ (Cardinality(Holders) = 0 <=> Holders = {})
  BY <1>1, FS_CardinalityType, FS_EmptySet
<1> QED
  BY <1>2 DEF Hands

\* A worker without a job that dequeues one adds a hand to it.
LEMMA HandsTake ==
    ASSUME NEW j \in Jobs, NEW w \in Workers, NEW x \in Jobs,
           \A v \in Workers : v # w => job'[v] = job[v],
           job'[w] = x, job[w] = NoJob
    PROVE  Hands(j)' = Hands(j) + (IF x = j THEN 1 ELSE 0)
<1> DEFINE Before == {v \in Workers : job[v] = j}
           After == {v \in Workers : job'[v] = j}
<1>1. IsFiniteSet(Before) /\ Cardinality(Before) \in Nat
  BY WorkersAssumption, FS_Subset, FS_CardinalityType
<1>2. NoJob # j
  BY PipelineAssumption
<1>3. CASE x = j
  <2>1. After = Before \cup {w} /\ w \notin Before
    BY <1>2, <1>3
  <2> QED
    BY <1>1, <1>3, <2>1, FS_AddElement DEF Hands
<1>4. CASE x # j
  <2>1. After = Before
    BY <1>2, <1>4
  <2> QED
    BY <1>1, <1>4, <2>1 DEF Hands
<1> QED
  BY <1>3, <1>4

\* A worker that returns from _run_job takes its hand off the job it had.
LEMMA HandsDrop ==
    ASSUME NEW j \in Jobs, NEW w \in Workers,
           \A v \in Workers : v # w => job'[v] = job[v],
           job'[w] = NoJob
    PROVE  Hands(j) = Hands(j)' + (IF job[w] = j THEN 1 ELSE 0)
<1> DEFINE Before == {v \in Workers : job[v] = j}
           After == {v \in Workers : job'[v] = j}
<1>1. IsFiniteSet(After) /\ Cardinality(After) \in Nat
  BY WorkersAssumption, FS_Subset, FS_CardinalityType
<1>2. NoJob # j
  BY PipelineAssumption
<1>3. CASE job[w] = j
  <2>1. Before = After \cup {w} /\ w \notin After
    BY <1>2, <1>3
  <2> QED
    BY <1>1, <1>3, <2>1, FS_AddElement DEF Hands
<1>4. CASE job[w] # j
  <2>1. After = Before
    BY <1>2, <1>4
  <2> QED
    BY <1>1, <1>4, <2>1 DEF Hands
<1> QED
  BY <1>3, <1>4

\* The copies of job j in the three lists.
Listed(j) ==
    Copies(j, queues["HIGH"]) + Copies(j, queues["NORMAL"])
      + Copies(j, queues["FAILED"])

\* The lists hold finitely many copies of a job.
LEMMA ListedType ==
    ASSUME QueueTypeOK, NEW j \in Jobs
    PROVE  /\ \A q \in QueueName : Copies(j, queues[q]) \in Nat
           /\ Listed(j) \in Nat
           /\ Listed(j) = 0 => \A q \in QueueName : Copies(j, queues[q]) = 0
<1>1. \A q \in QueueName : Copies(j, queues[q]) \in Nat
  BY CopiesType DEF QueueTypeOK
<1>2. QueueName = {"HIGH", "NORMAL", "FAILED"}
  BY DEF QueueName
<1> QED
  BY <1>1, <1>2 DEF Listed

\* RPUSH lists the job it pushes once more.
LEMMA EnqueueListed ==
    ASSUME QueueTypeOK, NEW x \in Jobs, NEW q \in QueueName, enqueue(x, q),
           NEW j \in Jobs
    PROVE  Listed(j)' = Listed(j) + (IF x = j THEN 1 ELSE 0)
<1>1. /\ queues'[q] = Append(queues[q], x)
      /\ \A r \in QueueName : r # q => queues'[r] = queues[r]
      /\ queues[q] \in Seq(Jobs)
  BY DEF QueueTypeOK, enqueue
<1>2. Copies(j, queues'[q]) = Copies(j, queues[q]) + (IF x = j THEN 1 ELSE 0)
  BY <1>1, CopiesAppend
<1>3. Listed(j)' = Copies(j, queues'["HIGH"]) + Copies(j, queues'["NORMAL"])
                     + Copies(j, queues'["FAILED"])
  BY DEF Listed, Copies
<1>4. q \in {"HIGH", "NORMAL", "FAILED"}
  BY DEF QueueName
<1>5. \A r \in {"HIGH", "NORMAL", "FAILED"} :
        /\ Copies(j, queues[r]) \in Nat
        /\ r # q => Copies(j, queues'[r]) = Copies(j, queues[r])
  BY <1>1, ListedType DEF QueueName
<1> QED
  <2>1. CASE q = "HIGH"
    BY <1>2, <1>3, <1>5, <2>1 DEF Listed
  <2>2. CASE q = "NORMAL"
    BY <1>2, <1>3, <1>5, <2>2 DEF Listed
  <2>3. CASE q = "FAILED"
    BY <1>2, <1>3, <1>5, <2>3 DEF Listed
  <2> QED
    BY <1>4, <2>1, <2>2, <2>3

\* BLPOP lists the job it pops once less, and pops none from FAILED.
LEMMA DequeueListed ==
    ASSUME QueueTypeOK, NEW x \in Jobs, dequeue(x), NEW j \in Jobs
    PROVE  /\ Listed(j) = Listed(j)' + (IF x = j THEN 1 ELSE 0)
           /\ Listed(j)' \in Nat
           /\ queues'["FAILED"] = queues["FAILED"]
<1>1. /\ Served \in {"HIGH", "NORMAL"}
      /\ queues[Served] \in Seq(Jobs) /\ queues[Served] # <<>>
      /\ Head(queues[Served]) = x
      /\ queues'[Served] = Tail(queues[Served])
      /\ \A r \in QueueName : r # Served => queues'[r] = queues[r]
  BY DEF QueueTypeOK, QueueName, dequeue, Served
<1>2. Copies(j, queues[Served]) = Copies(j, queues'[Served]) + (IF x = j THEN 1 ELSE 0)
  BY <1>1, CopiesTail
<1>3. Listed(j)' = Copies(j, queues'["HIGH"]) + Copies(j, queues'["NORMAL"])
                     + Copies(j, queues'["FAILED"])
  BY DEF Listed, Copies
<1>4. QueueTypeOK'
  BY QueueTypes
<1>5. /\ \A q \in QueueName : Copies(j, queues[q]) \in Nat
      /\ \A q \in QueueName : Copies(j, queues'[q]) \in Nat
  <2>1. \A q \in QueueName : queues[q] \in Seq(Jobs) /\ queues'[q] \in Seq(Jobs)
    BY <1>4 DEF QueueTypeOK
  <2> QED
    BY <2>1, CopiesType
<1>6. Listed(j)' \in Nat
  BY <1>3, <1>5 DEF QueueName
<1>7. Listed(j) = Listed(j)' + (IF x = j THEN 1 ELSE 0)
  <2>1. CASE Served = "HIGH"
    BY <1>1, <1>2, <1>3, <1>5, <2>1 DEF Listed, QueueName
  <2>2. CASE Served = "NORMAL"
    BY <1>1, <1>2, <1>3, <1>5, <2>2 DEF Listed, QueueName
  <2> QED
    BY <1>1, <2>1, <2>2
<1> QED
  BY <1>1, <1>6, <1>7 DEF QueueName

\* q.fail lists its job once more if the RPUSH reached Redis.
LEMMA FailListed ==
    ASSUME QueueTypeOK, NEW x \in Jobs, NEW pushed \in BOOLEAN, fail(x, pushed),
           NEW j \in Jobs
    PROVE  Listed(j)' = Listed(j) + (IF pushed /\ x = j THEN 1 ELSE 0)
<1>1. CASE pushed
  <2>1. queues' = [queues EXCEPT !["FAILED"] = Append(@, x)]
    BY <1>1 DEF fail
  <2>2. /\ queues'["FAILED"] = Append(queues["FAILED"], x)
        /\ queues'["HIGH"] = queues["HIGH"] /\ queues'["NORMAL"] = queues["NORMAL"]
        /\ queues["FAILED"] \in Seq(Jobs)
    BY <2>1 DEF QueueTypeOK, QueueName
  <2>3. Copies(j, queues'["FAILED"])
          = Copies(j, queues["FAILED"]) + (IF x = j THEN 1 ELSE 0)
    BY <2>2, CopiesAppend
  <2>4. Listed(j)' = Copies(j, queues'["HIGH"]) + Copies(j, queues'["NORMAL"])
                       + Copies(j, queues'["FAILED"])
    BY DEF Listed, Copies
  <2> QED
    BY <1>1, <2>2, <2>3, <2>4, ListedType DEF Listed, QueueName
<1>2. CASE ~pushed
  <2>1. queues' = queues
    BY <1>2 DEF fail
  <2> QED
    BY <1>2, <2>1, ListedType DEF Listed, Copies
<1> QED
  BY <1>1, <1>2

\* A step that moves no job and decides no job's fate.
LEMMA NothingMoves ==
    ASSUME JobConservation, UNCHANGED <<queues, job, fate>>
    PROVE  JobConservation'
BY DEF JobConservation, Places, Copies, Hands

\* The places of a job are the lists and the hands, and a job with a place is
\* in one only.
LEMMA PlacesAre ==
    ASSUME QueueTypeOK, JobConservation, NEW j \in Jobs
    PROVE  /\ Listed(j) \in Nat /\ Hands(j) \in Nat
           /\ Listed(j) + Hands(j) = IF fate[j] = "open" THEN 1 ELSE 0
           /\ \A w \in Workers : job[w] = j =>
                fate[j] = "open" /\ Listed(j) = 0 /\ Hands(j) = 1
<1>1. /\ Listed(j) \in Nat
      /\ \A q \in {"HIGH", "NORMAL", "FAILED"} : Copies(j, queues[q]) \in Nat
  BY ListedType DEF QueueName
<1>2. Hands(j) \in Nat /\ (Hands(j) > 0 <=> \E w \in Workers : job[w] = j)
  BY HandsType
<1>3. Listed(j) + Hands(j) = IF fate[j] = "open" THEN 1 ELSE 0
  BY <1>1, <1>2 DEF Listed, JobConservation, Places
<1> QED
  BY <1>1, <1>2, <1>3

\* What is left to show of a step: the places of each job after it.
LEMMA Conserved ==
    ASSUME \A j \in Jobs :
             Listed(j)' + Hands(j)' = IF fate'[j] = "open" THEN 1 ELSE 0
    PROVE  JobConservation'
BY DEF JobConservation, Places, Listed

\* A producer's RPUSH puts the job it sends in one place.
LEMMA SendConserves ==
    ASSUME IInv, JobConservation, NEW x \in Jobs, NEW q \in QueueName, Send(x, q)
    PROVE  JobConservation'
<1>1. /\ QueueTypeOK
      /\ enqueue(x, q) /\ UNCHANGED job
      /\ fate[x] = "unsent"
      /\ \A j \in Jobs : fate'[j] = IF j = x THEN "open" ELSE fate[j]
  BY DEF IInv, TypeOK, PipelineTypeOK, Send, workerVars
<1>2. ASSUME NEW j \in Jobs
      PROVE  Listed(j)' + Hands(j)' = IF fate'[j] = "open" THEN 1 ELSE 0
  <2>1. Hands(j)' = Hands(j)
    BY <1>1 DEF Hands
  <2>2. Listed(j)' = Listed(j) + (IF x = j THEN 1 ELSE 0)
    BY <1>1, EnqueueListed
  <2> QED
    BY <1>1, <2>1, <2>2, PlacesAre
<1> QED
  BY <1>2, Conserved

\* BLPOP moves a job from a list into the hand of a worker that has none, or
\* nowhere when the reply is lost.
LEMMA DequeueConserves ==
    ASSUME IInv, JobConservation, NEW w \in Workers, NEW x \in Jobs,
           Dequeue(w, x) \/ DequeueLost(w, x)
    PROVE  JobConservation'
<1>1. /\ QueueTypeOK /\ PipelineTypeOK
      /\ dequeue(x) /\ job[w] = NoJob
  BY DEF IInv, TypeOK, IdleWorkers, Dequeue, DequeueLost
<1>2. \A j \in Jobs : Listed(j) = Listed(j)' + (IF x = j THEN 1 ELSE 0) /\ Listed(j)' \in Nat
  BY <1>1, DequeueListed
<1>3. CASE Dequeue(w, x)
  <2>1. /\ job'[w] = x /\ \A v \in Workers : v # w => job'[v] = job[v]
        /\ fate' = fate
    BY <1>1, <1>3 DEF Dequeue, PipelineTypeOK, historyVars
  <2>2. ASSUME NEW j \in Jobs
        PROVE  Listed(j)' + Hands(j)' = IF fate'[j] = "open" THEN 1 ELSE 0
    <3>1. Hands(j)' = Hands(j) + (IF x = j THEN 1 ELSE 0)
      BY <1>1, <2>1, HandsTake
    <3> QED
      BY <1>1, <1>2, <2>1, <3>1, PlacesAre
  <2> QED
    BY <2>2, Conserved
<1>4. CASE DequeueLost(w, x)
  <2>1. /\ job' = job
        /\ \A j \in Jobs : fate'[j] = IF j = x THEN "lost" ELSE fate[j]
    BY <1>1, <1>4 DEF DequeueLost, PipelineTypeOK
  <2>2. ASSUME NEW j \in Jobs
        PROVE  Listed(j)' + Hands(j)' = IF fate'[j] = "open" THEN 1 ELSE 0
    <3>1. Hands(j)' = Hands(j)
      BY <2>1 DEF Hands
    <3>2. /\ Listed(j) \in Nat /\ Hands(j) \in Nat
          /\ Listed(j) + Hands(j) = IF fate[j] = "open" THEN 1 ELSE 0
      BY <1>1, PlacesAre
    <3>3. CASE j = x
      <4>1. Listed(j) = Listed(j)' + 1 /\ Listed(j)' \in Nat
        BY <1>2, <3>3
      <4>2. fate'[j] = "lost"
        BY <2>1, <3>3
      <4>3. Listed(j)' + Hands(j)' = 0
        BY <3>1, <3>2, <4>1
      <4> QED
        BY <4>2, <4>3
    <3>4. CASE j # x
      <4>1. Listed(j) = Listed(j)'
        BY <1>2, <3>4
      <4>2. fate'[j] = fate[j]
        BY <2>1, <3>4
      <4> QED
        BY <3>1, <3>2, <4>1, <4>2
    <3> QED
      BY <3>3, <3>4
  <2> QED
    BY <2>2, Conserved
<1> QED
  BY <1>3, <1>4

\* _run_job returns: the job leaves the worker's hand, run, skipped or lost.
LEMMA ReturnConserves ==
    ASSUME IInv, JobConservation, NEW w \in Workers, job[w] \in Jobs,
           NEW next, Return(w, next), UNCHANGED queues,
           NEW end \in {"ran", "skipped", "lost"},
           fate' = [fate EXCEPT ![job[w]] = end]
    PROVE  JobConservation'
<1>1. /\ QueueTypeOK
      /\ job'[w] = NoJob /\ \A v \in Workers : v # w => job'[v] = job[v]
      /\ \A j \in Jobs : fate'[j] = IF j = job[w] THEN end ELSE fate[j]
  BY DEF IInv, TypeOK, PipelineTypeOK, Return
<1>2. ASSUME NEW j \in Jobs
      PROVE  Listed(j)' + Hands(j)' = IF fate'[j] = "open" THEN 1 ELSE 0
  <2>1. Listed(j)' = Listed(j)
    BY DEF Listed, Copies
  <2>2. Hands(j) = Hands(j)' + (IF job[w] = j THEN 1 ELSE 0) /\ Hands(j)' \in Nat
    <3>1. IsFiniteSet({v \in Workers : job'[v] = j})
      BY WorkersAssumption, FS_Subset
    <3> QED
      BY <1>1, <3>1, HandsDrop, FS_CardinalityType DEF Hands
  <2> QED
    BY <1>1, <2>1, <2>2, PlacesAre
<1> QED
  BY <1>2, Conserved

\* q.fail moves the job from the worker's hand to the FAILED list.
LEMMA FailConserves ==
    ASSUME IInv, JobConservation, NEW w \in Workers, NEW reply, FailJob(w, reply)
    PROVE  JobConservation'
<1>1. /\ QueueTypeOK /\ job[w] \in Jobs
      /\ fail(job[w], TRUE) /\ UNCHANGED fate
      /\ job'[w] = NoJob /\ \A v \in Workers : v # w => job'[v] = job[v]
  BY DEF IInv, TypeOK, BusyWorkers, PipelineTypeOK, FailJob, Return
<1>2. ASSUME NEW j \in Jobs
      PROVE  Listed(j)' + Hands(j)' = IF fate'[j] = "open" THEN 1 ELSE 0
  <2>1. Listed(j)' = Listed(j) + (IF job[w] = j THEN 1 ELSE 0)
    BY <1>1, FailListed
  <2>2. Hands(j) = Hands(j)' + (IF job[w] = j THEN 1 ELSE 0) /\ Hands(j)' \in Nat
    <3>1. IsFiniteSet({v \in Workers : job'[v] = j})
      BY WorkersAssumption, FS_Subset
    <3> QED
      BY <1>1, <3>1, HandsDrop, FS_CardinalityType DEF Hands
  <2> QED
    BY <1>1, <2>1, <2>2, PlacesAre
<1> QED
  BY <1>2, Conserved

\* A process that is gone takes exactly the jobs in its workers' hands along.
LEMMA DiesConserves ==
    ASSUME IInv, JobConservation, NEW p \in Procs, NEW end \in {"lost", "dropped"},
           Dies(p, end)
    PROVE  JobConservation'
<1>1. /\ QueueTypeOK /\ UNCHANGED queues
      /\ \A v \in Workers : job'[v] = IF Host[v] = p THEN NoJob ELSE job[v]
      /\ \A j \in Jobs : fate'[j] = IF \E v \in Workers : Host[v] = p /\ job[v] = j
                                    THEN end ELSE fate[j]
  BY DEF IInv, TypeOK, Dies, queueVars
<1>2. ASSUME NEW j \in Jobs
      PROVE  Listed(j)' + Hands(j)' = IF fate'[j] = "open" THEN 1 ELSE 0
  <2> DEFINE Before == {v \in Workers : job[v] = j}
             After == {v \in Workers : job'[v] = j}
  <2>1. Listed(j)' = Listed(j)
    BY <1>1 DEF Listed, Copies
  <2>2. NoJob # j
    BY PipelineAssumption
  <2>3. CASE \A v \in Workers : Host[v] = p => job[v] # j
    <3>1. After = Before
      BY <1>1, <2>2, <2>3
    <3>2. Hands(j)' = Hands(j)
      BY <3>1 DEF Hands
    <3> QED
      BY <1>1, <2>1, <2>3, <3>2, PlacesAre
  <2>4. ASSUME NEW w \in Workers, Host[w] = p, job[w] = j
        PROVE  Listed(j)' + Hands(j)' = IF fate'[j] = "open" THEN 1 ELSE 0
    <3>1. Listed(j) = 0 /\ Hands(j) = 1
      BY <1>1, <2>4, PlacesAre
    <3>2. IsFiniteSet(Before) /\ IsFiniteSet(Before \ {w})
      BY WorkersAssumption, FS_Subset
    <3>3. Cardinality(Before \ {w}) = 0
      BY <2>4, <3>1, <3>2, FS_RemoveElement DEF Hands
    <3>4. Before \ {w} = {}
      BY <3>2, <3>3, FS_EmptySet
    <3>5. After = {}
      BY <1>1, <2>2, <2>4, <3>4
    <3>6. Hands(j)' = 0
      BY <3>5, FS_EmptySet DEF Hands
    <3> QED
      BY <1>1, <2>1, <2>4, <3>1, <3>6
  <2> QED
    BY <2>3, <2>4
<1> QED
  BY <1>2, Conserved

\* Every step keeps each job in its one place.
LEMMA NextConserves ==
    IInv /\ JobConservation /\ [Next]_allVars => JobConservation'
<1> SUFFICES ASSUME IInv, JobConservation, [Next]_allVars PROVE JobConservation'
  OBVIOUS
<1>1. ASSUME NEW w \in Workers, PipelineStep(w) PROVE JobConservation'
  <2>1. CASE Skip(w)
    <3>1. job[w] \in Jobs
      BY <2>1 DEF IInv, BusyWorkers, Skip, InPipeline, RedisCalls
    <3> QED
      BY <2>1, <3>1, ReturnConserves DEF Skip, queueVars
  <2>2. CASE \E reply \in {"ok", "lost"} : Finish(w, reply)
    <3>1. job[w] \in Jobs
      BY <2>2 DEF IInv, BusyWorkers, Finish, InPipeline, DbCalls
    <3> QED
      BY <2>2, <3>1, ReturnConserves, NothingMoves DEF Finish, queueVars
  <2>3. CASE /\ ~Skip(w)
             /\ \A reply \in {"ok", "lost"} : ~Finish(w, reply)
    <3>1. UNCHANGED <<queues, job, fate>>
      BY <1>1, <2>3 DEF PipelineStep, Pipeline, Replies, AcquireWins, AcquireLoses,
         Attach, Insert, LlmReturns, CreateTask, Save, Request, Deliver,
         CompleteTask, AppendLog, FailTask, FailWorkflow, Index, RedisError,
         DbError, LlmError, Raise, StoreOnly, queueVars, historyVars
    <3> QED
      BY <3>1, NothingMoves
  <2> QED
    BY <2>1, <2>2, <2>3
<1>2. ASSUME NEW w \in Workers, WorkerStep(w) PROVE JobConservation'
  <2>1. CASE DemoReturns(w) \/ FailJobError(w)
    <3>1. job[w] \in Jobs
      BY <2>1 DEF IInv, BusyWorkers, DemoReturns, FailJobError
    <3> QED
      BY <2>1, <3>1, ReturnConserves DEF DemoReturns, FailJobError, fail, queueVars
  <2>2. CASE DemoRaises(w) \/ LeaveLoop(w)
    BY <2>2, NothingMoves DEF DemoRaises, LeaveLoop, queueVars, historyVars
  <2> QED
    BY <1>1, <1>2, <2>1, <2>2, FailConserves DEF WorkerStep
<1>3. ASSUME NEW p \in Procs, Crash(p) \/ StopRaises(p) \/ Exit(p) PROVE JobConservation'
  BY <1>3, DiesConserves DEF Crash, StopRaises, Exit
<1>4. ASSUME NEW p \in Procs,
             Start(p) \/ Boot(p) \/ BootFails(p) \/ Stop(p) \/ ApiFails(p)
      PROVE  JobConservation'
  BY <1>4, NothingMoves DEF Start, Boot, BootFails, Stop, ApiFails, queueVars,
     workerVars, historyVars
<1>5. ASSUME NEW j \in Jobs, EmitCommit(j) \/ EnqueueManual(j) PROVE JobConservation'
  BY <1>5, SendConserves DEF EmitCommit, EnqueueManual, QueueName
<1>6. CASE Tick \/ UNCHANGED allVars
  BY <1>6, NothingMoves DEF Tick, allVars, vars, queueVars, workerVars, historyVars
<1> QED
  BY <1>2, <1>3, <1>4, <1>5, <1>6, DequeueConserves DEF Next

\* Before the first process starts no job has been sent and none is anywhere.
LEMMA InitConserves == Init => JobConservation
<1> SUFFICES ASSUME Init, NEW j \in Jobs
             PROVE  Places(j) = IF fate[j] = "open" THEN 1 ELSE 0
  BY DEF JobConservation
<1>1. /\ \A q \in {"HIGH", "NORMAL", "FAILED"} : queues[q] = <<>>
      /\ fate[j] = "unsent"
      /\ \A w \in Workers : job[w] # j
  BY PipelineAssumption DEF Init, QueueInit, PipelineInit, QueueName
<1>2. \A q \in {"HIGH", "NORMAL", "FAILED"} : Copies(j, queues[q]) = 0
  <2>1. <<>> \in Seq(Jobs)
    OBVIOUS
  <2> QED
    BY <1>1, <2>1, CopiesType
<1>3. Hands(j) = 0
  BY <1>1, HandsType
<1> QED
  BY <1>1, <1>2, <1>3 DEF Places

\* JobConservation, the promise of redis_queue.py and _run_job, for any number
\* of workers, processes and jobs: each job that is not over is in exactly one
\* list or one worker's hand, through every crash, stop and lost reply.
THEOREM JobConservationHolds == Spec => []JobConservation
<1>1. IInv /\ JobConservation /\ [Next]_allVars => IInv' /\ JobConservation'
  BY NextOK, NextConserves
<1>2. Init => IInv /\ JobConservation
  BY InitOK, InitConserves
<1> QED
  BY <1>1, <1>2, PTL DEF Spec

\* What a step does to the FAILED list: nothing, or q.fail's RPUSH.
LEMMA FailedGrows ==
    ASSUME IInv, [Next]_allVars
    PROVE  \/ queues'["FAILED"] = queues["FAILED"]
           \/ \E x \in Jobs : queues'["FAILED"] = Append(queues["FAILED"], x)
<1>0. QueueTypeOK
  BY DEF IInv, TypeOK
<1>1. ASSUME NEW w \in Workers, PipelineStep(w) PROVE queues' = queues
  BY <1>1 DEF PipelineStep, Pipeline, Replies, AcquireWins, AcquireLoses,
     Attach, Insert, Skip, Finish, LlmReturns, CreateTask, Save, Request, Deliver,
     CompleteTask, AppendLog, FailTask, FailWorkflow, Index, RedisError,
     DbError, LlmError, Raise, StoreOnly, queueVars
<1>2. ASSUME NEW w \in Workers, DemoReturns(w) \/ DemoRaises(w) \/ FailJobError(w)
                                  \/ LeaveLoop(w)
      PROVE  queues' = queues
  BY <1>2 DEF DemoReturns, DemoRaises, FailJobError, fail, LeaveLoop, queueVars
<1>3. ASSUME NEW w \in Workers, NEW reply, FailJob(w, reply)
      PROVE  \E x \in Jobs : queues'["FAILED"] = Append(queues["FAILED"], x)
  BY <1>0, <1>3 DEF FailJob, fail, IInv, BusyWorkers, QueueTypeOK, QueueName
<1>4. ASSUME NEW w \in Workers, NEW x \in Jobs, Dequeue(w, x) \/ DequeueLost(w, x)
      PROVE  queues'["FAILED"] = queues["FAILED"]
  BY <1>0, <1>4, DequeueListed DEF Dequeue, DequeueLost
<1>5. ASSUME NEW x \in Jobs, EmitCommit(x) \/ EnqueueManual(x)
      PROVE  queues'["FAILED"] = queues["FAILED"]
  BY <1>0, <1>5 DEF EmitCommit, EnqueueManual, Send, enqueue, QueueTypeOK, QueueName
<1>6. ASSUME NEW p \in Procs,
             \/ Start(p) \/ Boot(p) \/ BootFails(p) \/ Stop(p) \/ ApiFails(p)
             \/ Crash(p) \/ StopRaises(p) \/ Exit(p)
      PROVE  queues' = queues
  BY <1>6 DEF Start, Boot, BootFails, Stop, ApiFails, Crash, StopRaises, Exit,
     Dies, queueVars
<1>7. CASE Tick \/ UNCHANGED allVars
  BY <1>7 DEF Tick, allVars, vars, queueVars
<1> QED
  BY <1>1, <1>2, <1>3, <1>4, <1>5, <1>6, <1>7 DEF Next, WorkerStep

\* NoSilentRetry: a job q.fail put on the FAILED list stays there, and no
\* worker of _worker has it in hand again, for any number of processes.
THEOREM NoSilentRetryHolds == Spec => NoSilentRetry
<1>1. /\ IInv /\ IInv' /\ JobConservation /\ JobConservation' /\ [Next]_allVars
      => [\A j \in Jobs : Copies(j, queues["FAILED"]) > 0 =>
            /\ Copies(j, queues'["FAILED"]) > 0
            /\ \A w \in Workers : job'[w] # j]_allVars
  <2> SUFFICES ASSUME IInv, IInv', JobConservation, JobConservation', [Next]_allVars,
                      NEW j \in Jobs, Copies(j, queues["FAILED"]) > 0
               PROVE  /\ Copies(j, queues'["FAILED"]) > 0
                      /\ \A w \in Workers : job'[w] # j
    OBVIOUS
  <2>1. /\ QueueTypeOK /\ queues["FAILED"] \in Seq(Jobs)
        /\ Copies(j, queues["FAILED"]) \in Nat
    BY CopiesType DEF IInv, TypeOK, QueueTypeOK, QueueName
  <2>2. Copies(j, queues'["FAILED"]) > 0
    <3>1. CASE queues'["FAILED"] = queues["FAILED"]
      BY <3>1
    <3>2. ASSUME NEW x \in Jobs, queues'["FAILED"] = Append(queues["FAILED"], x)
          PROVE  Copies(j, queues'["FAILED"]) > 0
      BY <2>1, <3>2, CopiesAppend
    <3> QED
      BY <3>1, <3>2, FailedGrows
  <2>3. QueueTypeOK'
    BY DEF IInv, TypeOK
  <2>4. ASSUME NEW w \in Workers, job'[w] = j PROVE FALSE
    <3>1. \A q \in {"HIGH", "NORMAL", "FAILED"} : Copies(j, queues'[q]) \in Nat
      BY <2>3, CopiesType DEF QueueTypeOK, QueueName
    <3>2. Hands(j)' \in Nat /\ Hands(j)' > 0
      <4> DEFINE After == {v \in Workers : job'[v] = j}
      <4>1. IsFiniteSet(After) /\ After # {}
        BY <2>4, WorkersAssumption, FS_Subset
      <4>2. Cardinality(After) \in Nat /\ Cardinality(After) # 0
        BY <4>1, FS_CardinalityType, FS_EmptySet
      <4> QED
        BY <4>2 DEF Hands
    <3>3. Places(j)' = Copies(j, queues'["HIGH"]) + Copies(j, queues'["NORMAL"])
                         + Copies(j, queues'["FAILED"]) + Hands(j)'
      BY DEF Places, Copies
    <3>4. Places(j)' \in {0, 1}
      BY DEF JobConservation
    <3> QED
      BY <2>2, <3>1, <3>2, <3>3, <3>4
  <2> QED
    BY <2>2, <2>4
<1> QED
  BY <1>1, Invariance, JobConservationHolds, PTL DEF Spec, NoSilentRetry

\* NothingLost: when Orchestrator.stop has waited for its workers, none of
\* them has a job in hand, so the exit that follows drops none.
THEOREM NothingLostHolds == Spec => []NothingLost
<1>1. Init => NothingLost
  BY DEF Init, PipelineInit, NothingLost
<1>2. IInv /\ NothingLost /\ [Next]_allVars => NothingLost'
  <2> SUFFICES ASSUME IInv, NothingLost, [Next]_allVars PROVE NothingLost'
    OBVIOUS
  <2>0. PipelineTypeOK
    BY DEF IInv, TypeOK
  <2>1. ASSUME NEW w \in Workers, PipelineStep(w) PROVE NothingLost'
    <3>1. CASE Skip(w) \/ \E reply \in {"ok", "lost"} : Finish(w, reply)
      BY <2>0, <3>1 DEF Skip, Finish, NothingLost, PipelineTypeOK
    <3>2. CASE /\ ~Skip(w)
               /\ \A reply \in {"ok", "lost"} : ~Finish(w, reply)
      <4>1. UNCHANGED fate
        BY <2>1, <3>2 DEF PipelineStep, Pipeline, Replies, AcquireWins, AcquireLoses,
           Attach, Insert, LlmReturns, CreateTask, Save, Request, Deliver,
           CompleteTask, AppendLog, FailTask, FailWorkflow, Index, RedisError,
           DbError, LlmError, Raise, StoreOnly, historyVars
      <4> QED
        BY <4>1 DEF NothingLost
    <3> QED
      BY <3>1, <3>2
  <2>2. ASSUME NEW w \in Workers, WorkerStep(w) PROVE NothingLost'
    <3>1. CASE DemoReturns(w) \/ FailJobError(w)
      BY <2>0, <3>1 DEF DemoReturns, FailJobError, NothingLost, PipelineTypeOK
    <3>2. CASE DemoRaises(w) \/ LeaveLoop(w) \/ \E reply : FailJob(w, reply)
      BY <3>2 DEF DemoRaises, LeaveLoop, FailJob, NothingLost, historyVars
    <3> QED
      BY <2>1, <2>2, <3>1, <3>2 DEF WorkerStep
  <2>3. ASSUME NEW w \in Workers, NEW x \in Jobs, Dequeue(w, x) \/ DequeueLost(w, x)
        PROVE  NothingLost'
    BY <2>0, <2>3 DEF Dequeue, DequeueLost, NothingLost, PipelineTypeOK, historyVars
  <2>4. ASSUME NEW p \in Procs, Crash(p) \/ StopRaises(p) PROVE NothingLost'
    BY <2>4 DEF Crash, StopRaises, Dies, NothingLost
  <2>5. ASSUME NEW p \in Procs, Exit(p) PROVE NothingLost'
    <3>1. \A w \in Workers : Host[w] = p => job[w] = NoJob
      BY <2>5 DEF Exit, IInv, IdleWorkers
    <3>2. UNCHANGED fate
      BY <2>0, <2>5, <3>1, PipelineAssumption DEF Exit, Dies, PipelineTypeOK
    <3> QED
      BY <3>2 DEF NothingLost
  <2>6. ASSUME NEW p \in Procs,
               Start(p) \/ Boot(p) \/ BootFails(p) \/ Stop(p) \/ ApiFails(p)
        PROVE  NothingLost'
    BY <2>6 DEF Start, Boot, BootFails, Stop, ApiFails, historyVars, NothingLost
  <2>7. ASSUME NEW x \in Jobs, EmitCommit(x) \/ EnqueueManual(x) PROVE NothingLost'
    BY <2>0, <2>7 DEF EmitCommit, EnqueueManual, Send, NothingLost, PipelineTypeOK
  <2>8. CASE Tick \/ UNCHANGED allVars
    BY <2>8 DEF Tick, allVars, vars, historyVars, NothingLost
  <2> QED
    BY <2>2, <2>3, <2>4, <2>5, <2>6, <2>7, <2>8 DEF Next
<1> QED
  BY <1>1, <1>2, Invariance, PTL DEF Spec

-----------------------------------------------------------------------------
(* Step 3 and the vector store.                                            *)

\* A step that embeds nothing and removes nothing, and after which only a
\* worker that was there before is between the INSERT and the upsert of step 3.
LEMMA VectorsKept ==
    ASSUME VectorIInv, UNCHANGED <<embedded, vectors>>,
           memories \in SUBSET memories', StoreTypeOK,
           \A i \in Ids : status[i] # "absent" =>
             status'[i] # "absent" /\ wfKey'[i] = wfKey[i],
           \A v \in Workers : pc'[v] = "index" => pc[v] = "index" /\ wf'[v] = wf[v]
    PROVE  VectorIInv'
<1>0. /\ memories \in SUBSET Ids /\ embedded \in SUBSET Ids
      /\ vectors \in [Shas -> Ids \cup {NoId}]
  BY DEF StoreTypeOK
<1>1. ASSUME NEW i \in Ids, status[i] # "absent"
      PROVE  status'[i] # "absent" /\ ShaOf[wfKey'[i]] = ShaOf[wfKey[i]]
  BY <1>1
<1>2. \A s \in Shas : vectors'[s] # NoId =>
         /\ vectors'[s] \in memories'
         /\ status'[vectors'[s]] # "absent" /\ ShaOf[wfKey'[vectors'[s]]] = s
  BY <1>0, <1>1 DEF VectorIInv
<1>3. EmbeddingExists'
  <2> SUFFICES ASSUME NEW i \in embedded
               PROVE  LET document == vectors[ShaOf[wfKey'[i]]]
                      IN  /\ {i, document} \subseteq memories'
                          /\ ShaOf[wfKey'[document]] = ShaOf[wfKey'[i]]
    BY DEF EmbeddingExists
  <2> DEFINE document == vectors[ShaOf[wfKey[i]]]
  <2>1. /\ status[i] # "absent" /\ i \in memories /\ document \in memories
        /\ ShaOf[wfKey[document]] = ShaOf[wfKey[i]]
    BY DEF VectorIInv, EmbeddingExists
  <2>2. i \in Ids /\ document \in Ids
    BY <1>0, <2>1
  <2>3. ShaOf[wfKey'[i]] = ShaOf[wfKey[i]]
    BY <1>1, <2>1, <2>2
  <2>4. document = vectors[ShaOf[wfKey'[i]]]
    BY <2>3
  <2> HIDE DEF document
  <2>5. ShaOf[wfKey'[document]] = ShaOf[wfKey[document]]
    <3>1. ShaOf[wfKey[i]] \in Shas /\ document # NoId
      BY <2>2, StoreAssumption DEF VectorIInv, Ids, NoId
    <3>2. status[document] # "absent"
      BY <3>1 DEF VectorIInv, document
    <3> QED
      BY <1>1, <2>2, <3>2
  <2> QED
    BY <2>1, <2>3, <2>4, <2>5
<1>4. \A i \in embedded' : status'[i] # "absent" /\ wfKey'[i] \in Keys
  BY <1>0 DEF VectorIInv
<1>5. \A v \in Workers : pc'[v] = "index" => wf'[v] \in memories'
  BY DEF VectorIInv
<1> QED
  BY <1>2, <1>3, <1>4, <1>5 DEF VectorIInv

\* Step 3 saves the memory row, upserts its document and writes the
\* embedding_id, in this order; each of the three may fail or lose its reply.
LEMMA SaveAndIndexVectors ==
    ASSUME IInv, VectorIInv, NEW w \in Workers,
           (\E reply : Save(w, reply)) \/ (\E n \in 0..2 : Index(w, n))
    PROVE  VectorIInv'
<1>1. /\ PipelineTypeOK /\ StoreTypeOK
      /\ wf[w] \in Ids /\ Key(w) \in Keys
      /\ status[wf[w]] # "absent" /\ wfKey[wf[w]] = Key(w)
  BY DEF IInv, TypeOK, BusyWorkers, PipelineTypeOK, Save, Index, Running, InPipeline,
     DbCalls
<1>2. /\ UNCHANGED <<wf, status, wfKey>>
      /\ \A v \in Workers : v # w => pc'[v] = pc[v]
  BY <1>1 DEF Save, Index, StoreOnly, Goto, PipelineTypeOK
<1>3. CASE \E reply : Save(w, reply)
  <2>1. UNCHANGED <<embedded, vectors>> /\ memories' = memories \cup {wf[w]}
    BY <1>3 DEF Save
  <2> QED
    BY <1>1, <1>2, <2>1 DEF VectorIInv, EmbeddingExists
<1>4. CASE \E n \in 0..2 : Index(w, n)
  <2> DEFINE s == ShaOf[Key(w)]
  <2>1. /\ pc[w] = "index" /\ pc'[w] = "complete_task"
        /\ memories' = memories
        /\ vectors' = vectors \/ vectors' = [vectors EXCEPT ![s] = wf[w]]
        /\ embedded' = embedded
             \/ (embedded' = embedded \cup {wf[w]} /\ vectors' = [vectors EXCEPT ![s] = wf[w]])
    BY <1>1, <1>4 DEF Index, Goto, PipelineTypeOK, Upserted
  <2>2. /\ s \in Shas /\ s = ShaOf[wfKey[wf[w]]]
        /\ vectors \in [Shas -> Ids \cup {NoId}] /\ wf[w] \in memories
    BY <1>1, <2>1, StoreAssumption DEF StoreTypeOK, VectorIInv
  <2> HIDE DEF s
  <2>3. CASE vectors' = vectors
    BY <1>1, <1>2, <2>1, <2>2, <2>3 DEF VectorIInv, EmbeddingExists
  <2>4. CASE vectors' = [vectors EXCEPT ![s] = wf[w]]
    <3>1. ASSUME NEW x \in Shas PROVE vectors'[x] = IF x = s THEN wf[w] ELSE vectors[x]
      BY <2>2, <2>4
    <3>2. ASSUME NEW i \in embedded'
          PROVE  /\ i \in memories /\ status[i] # "absent" /\ wfKey[i] \in Keys
                 /\ ShaOf[wfKey[i]] \in Shas
      BY <1>1, <2>1, <2>2, StoreAssumption DEF VectorIInv, EmbeddingExists
    <3>3. ASSUME NEW i \in embedded'
          PROVE  /\ vectors'[ShaOf[wfKey[i]]] \in memories
                 /\ ShaOf[wfKey[vectors'[ShaOf[wfKey[i]]]]] = ShaOf[wfKey[i]]
      <4>1. CASE ShaOf[wfKey[i]] = s
        BY <2>2, <3>1, <3>2, <4>1
      <4>2. CASE ShaOf[wfKey[i]] # s
        <5>1. i \in embedded
          BY <2>1, <2>2, <4>2
        <5> QED
          BY <3>1, <3>2, <4>2, <5>1 DEF VectorIInv, EmbeddingExists
      <4> QED
        BY <4>1, <4>2
    <3>4. ASSUME NEW x \in Shas, vectors'[x] # NoId
          PROVE  /\ vectors'[x] \in memories
                 /\ status[vectors'[x]] # "absent" /\ ShaOf[wfKey[vectors'[x]]] = x
      BY <1>1, <2>2, <3>1, <3>4 DEF VectorIInv
    <3>5. \A v \in Workers : pc'[v] = "index" => wf[v] \in memories
      BY <1>2, <2>1 DEF VectorIInv
    <3>6. EmbeddingExists'
      BY <1>2, <2>1, <3>2, <3>3 DEF EmbeddingExists
    <3> QED
      BY <1>2, <2>1, <3>2, <3>4, <3>5, <3>6 DEF VectorIInv
  <2> QED
    BY <2>1, <2>3, <2>4
<1> QED
  BY <1>3, <1>4

\* Every step keeps the invariant behind EmbeddingExists.
LEMMA NextVectors == IInv /\ VectorIInv /\ [Next]_allVars => VectorIInv'
<1> SUFFICES ASSUME IInv, VectorIInv, [Next]_allVars PROVE VectorIInv'
  OBVIOUS
<1>0. PipelineTypeOK /\ StoreTypeOK
  BY DEF IInv, TypeOK
<1>1. StoreTypeOK
  BY <1>0
<1>2. ASSUME NEW w \in Workers, PipelineStep(w) PROVE VectorIInv'
  <2>1. CASE (\E reply : Save(w, reply)) \/ (\E n \in 0..2 : Index(w, n))
    BY <2>1, SaveAndIndexVectors
  <2>2. CASE Skip(w) \/ \E reply \in {"ok", "lost"} : Finish(w, reply)
    <3>1. \A v \in Workers : pc'[v] = "index" => pc[v] = "index" /\ wf'[v] = wf[v]
      BY <1>0, <2>2 DEF Skip, Finish, Return, LoopTop, Goto, Raised, PipelineTypeOK
    <3>2. /\ UNCHANGED <<embedded, memories, vectors, wfKey>>
          /\ \A i \in Ids : status[i] # "absent" => status'[i] # "absent"
      BY <1>0, <2>2 DEF Skip, Finish, end_workflow, StoreTypeOK, storeVars
    <3> QED
      BY <1>1, <3>1, <3>2, VectorsKept
  <2>3. CASE \E reply \in {"ok", "lost"} : Insert(w, reply)
    <3>1. \A v \in Workers : pc'[v] = "index" => pc[v] = "index" /\ wf'[v] = wf[v]
      BY <1>0, <2>3 DEF Insert, Goto, Raised, InTry, PipelineTypeOK
    <3>2. /\ UNCHANGED <<embedded, memories, vectors>>
          /\ \A i \in Ids : status[i] # "absent" =>
               status'[i] # "absent" /\ wfKey'[i] = wfKey[i]
      BY <1>0, <2>3 DEF Insert, insert_workflow, StoreTypeOK, IInv, RowsAreSerial, Ids
    <3> QED
      BY <1>1, <3>1, <3>2, VectorsKept
  <2>4. CASE \E reply \in {"ok", "lost"} :
               \/ Request(w, reply) \/ Deliver(w, reply) \/ CompleteTask(w, reply)
               \/ AppendLog(w, reply) \/ FailTask(w, reply) \/ FailWorkflow(w, reply)
               \/ CreateTask(w, reply)
    <3>1. \A v \in Workers : pc'[v] = "index" => pc[v] = "index"
      BY <1>0, <2>4 DEF Request, Deliver, CompleteTask, AppendLog, FailTask,
         FailWorkflow, CreateTask, Goto, Raised, Body, PipelineTypeOK, Steps
    <3>2. UNCHANGED wf
      BY <2>4 DEF Request, Deliver, CompleteTask, AppendLog, FailTask, FailWorkflow,
         CreateTask, StoreOnly
    <3>3. /\ UNCHANGED <<embedded, memories, vectors, wfKey>>
          /\ \A i \in Ids : status[i] # "absent" => status'[i] # "absent"
      BY <1>0, <2>4 DEF Request, Deliver, CompleteTask, AppendLog, FailTask,
         FailWorkflow, CreateTask, SetTask, append_log, end_workflow, StoreTypeOK
    <3> QED
      BY <1>1, <3>1, <3>2, <3>3, VectorsKept
  <2>5. CASE \/ RedisError(w) \/ DbError(w) \/ LlmError(w) \/ AcquireLoses(w)
             \/ LlmReturns(w)
             \/ \E reply \in {"ok", "lost"} : AcquireWins(w, reply) \/ Attach(w, reply)
    <3>1. \A v \in Workers : pc'[v] = "index" => pc[v] = "index"
      BY <1>0, <2>5 DEF RedisError, DbError, LlmError, Raise, AcquireLoses, LlmReturns,
         AcquireWins, Attach, Goto, Raised, PipelineTypeOK
    <3>2. UNCHANGED <<storeVars, wf>>
      BY <2>5 DEF RedisError, DbError, LlmError, Raise, AcquireLoses, LlmReturns,
         AcquireWins, Attach, StoreOnly
    <3> QED
      BY <1>1, <3>1, <3>2, VectorsKept DEF storeVars
  <2>6. Indexings \in SUBSET (0..2)
    BY DEF Indexings
  <2> QED
    BY <1>2, <2>1, <2>2, <2>3, <2>4, <2>5, <2>6 DEF PipelineStep, Pipeline, Replies
<1>3. ASSUME NEW w \in Workers, WorkerStep(w) PROVE VectorIInv'
  <2>1. CASE DemoReturns(w) \/ DemoRaises(w) \/ LeaveLoop(w) \/ FailJobError(w)
             \/ \E reply : FailJob(w, reply)
    <3>1. \A v \in Workers : pc'[v] = "index" => pc[v] = "index" /\ wf'[v] = wf[v]
      <4>1. CASE DemoRaises(w) \/ LeaveLoop(w)
        BY <1>0, <4>1 DEF DemoRaises, LeaveLoop, PipelineTypeOK
      <4>2. ASSUME NEW next \in {"idle", "stopped", "dead"}, Return(w, next)
            PROVE  \A v \in Workers :
                      pc'[v] = "index" => pc[v] = "index" /\ wf'[v] = wf[v]
        BY <1>0, <4>2 DEF Return, PipelineTypeOK
      <4>3. CASE DemoReturns(w) \/ FailJobError(w) \/ \E reply : FailJob(w, reply)
        BY <4>2, <4>3 DEF DemoReturns, FailJobError, FailJob, LoopTop
      <4> QED
        BY <2>1, <4>1, <4>3
    <3>2. UNCHANGED storeVars
      BY <2>1 DEF DemoReturns, DemoRaises, LeaveLoop, FailJobError, FailJob
    <3> QED
      BY <1>1, <3>1, <3>2, VectorsKept DEF storeVars
  <2> QED
    BY <1>2, <1>3, <2>1 DEF WorkerStep
<1>4. ASSUME NEW w \in Workers, NEW x \in Jobs, Dequeue(w, x) \/ DequeueLost(w, x)
      PROVE  VectorIInv'
  <2>1. \A v \in Workers : pc'[v] = "index" => pc[v] = "index" /\ wf'[v] = wf[v]
    BY <1>0, <1>4 DEF Dequeue, DequeueLost, LoopTop, PipelineTypeOK
  <2>2. UNCHANGED storeVars
    BY <1>4 DEF Dequeue, DequeueLost
  <2> QED
    BY <1>1, <2>1, <2>2, VectorsKept DEF storeVars
<1>5. ASSUME NEW p \in Procs,
             \/ Start(p) \/ Boot(p) \/ BootFails(p) \/ Stop(p) \/ ApiFails(p)
             \/ Crash(p) \/ StopRaises(p) \/ Exit(p)
      PROVE  VectorIInv'
  <2>1. \A v \in Workers : pc'[v] = "index" => pc[v] = "index" /\ wf'[v] = wf[v]
    BY <1>5 DEF Start, Boot, BootFails, Stop, ApiFails, Crash, StopRaises, Exit,
       Dies, workerVars
  <2>2. /\ UNCHANGED <<embedded, memories, vectors, wfKey>>
        /\ \A i \in Ids : status[i] # "absent" => status'[i] # "absent"
    BY <1>5 DEF Start, Boot, BootFails, Stop, ApiFails, Crash, StopRaises, Exit,
       Dies, reap, storeVars
  <2> QED
    BY <1>1, <2>1, <2>2, VectorsKept
<1>6. CASE \/ Tick \/ UNCHANGED allVars
           \/ \E x \in Jobs : EmitCommit(x) \/ EnqueueManual(x)
  <2>1. UNCHANGED <<workerVars, status, wfKey, memories, embedded, vectors>>
    BY <1>6 DEF Tick, StoreTick, EmitCommit, EnqueueManual, Send, allVars, vars, storeVars
  <2> QED
    BY <1>1, <2>1, VectorsKept DEF workerVars
<1> QED
  BY <1>3, <1>4, <1>5, <1>6 DEF Next

\* The pipeline's step 3 keeps VectorIInv, for any number of processes.
THEOREM VectorInvariance == Spec => []VectorIInv
<1>1. Init => VectorIInv
  BY DEF Init, StoreInit, PipelineInit, VectorIInv, EmbeddingExists
<1> QED
  BY <1>1, NextVectors, Invariance, PTL DEF Spec

\* EmbeddingExists, for any number of processes and any fault: the embedding_id
\* the pipeline's step 3 writes names a document that was upserted.
THEOREM EmbeddingExistsHolds == Spec => []EmbeddingExists
<1>1. VectorIInv => EmbeddingExists
  BY DEF VectorIInv
<1> QED
  BY <1>1, VectorInvariance, PTL
=============================================================================
