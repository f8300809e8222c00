---------------------------- MODULE LedgerProofs ----------------------------
(***************************************************************************)
(* While reapers take orphans only, whatever crashes, stops and fails, the *)
(* rows keep the promises of WorkflowLedger: RowIInv, added to IInv and    *)
(* VectorIInv, is inductive, and every step is a step of the ledger.       *)
(*                                                                         *)
(* One process takes orphans only because it reaps before its workers      *)
(* start; any number of processes do if no run has its row for longer than *)
(* orphan_workflow_max_age_seconds.  Otherwise a reaper takes a row that a *)
(* worker of another process has, and none of this holds.                  *)
(***************************************************************************)
EXTENDS OrchestratorProofs

\* The sets of calls, spelled out: where a call is in the pipeline's code.
LEMMA RunningCalls ==
    /\ Running = {"create_task", "save", "request", "delivered", "complete_task",
                  "append_log", "fail_task", "fail_workflow", "finish", "attach",
                  "summarize", "draft", "index"}
    /\ InPipeline = Running \cup {"acquire", "get", "insert"}
    /\ GoingWell = Running \ {"fail_task", "fail_workflow"}
BY DEF Running, InPipeline, DbCalls, RedisCalls, LlmCalls, GoingWell

\* The audit trails of a run, each an entry longer than the one before.
LEMMA Trails ==
    /\ Trail(1) = <<"workflow_started">>
    /\ Trail(2) = Append(Trail(1), "summary_done")
    /\ Trail(3) = Append(Trail(2), "social_done")
    /\ Trail(4) = Append(Trail(3), "approval_sent")
BY DEF Trail

\* A run is as far as it was when its worker makes no step and its row is left
\* alone.
LEMMA RunStays ==
    ASSUME NEW v \in Workers, RunOK(v),
           pc'[v] = pc[v], step'[v] = step[v], wf'[v] = wf[v],
           pc[v] \in Running =>
             /\ status'[wf[v]] = status[wf[v]]
             /\ task'[wf[v]] = task[wf[v]]
             /\ logs'[wf[v]] = logs[wf[v]],
           memories \in SUBSET memories', approvals \in SUBSET approvals',
           delivered \in SUBSET delivered'
    PROVE  RunOK(v)'
<1>1. GoingWell \in SUBSET Running
  BY RunningCalls
<1> QED
  BY <1>1 DEF RunOK, StepOfCall, RowInStep, WorkInStep, Logged

\* A worker outside a running workflow has nothing to keep.
LEMMA RunOver ==
    ASSUME NEW v \in Workers,
           \/ pc'[v] = "fail_job"
           \/ pc'[v] \notin Running /\ step'[v] = 1 /\ wf'[v] = NoId
    PROVE  RunOK(v)'
<1>1. /\ pc'[v] \notin {"attach", "summarize", "draft", "save", "index", "request",
                        "delivered", "finish"}
      /\ pc'[v] \notin Running /\ pc'[v] \notin GoingWell
  BY RunningCalls
<1> QED
  BY <1>1 DEF RunOK, StepOfCall

\* What RowIInv says of row i.
RowOK(i) ==
    /\ status[i] = "absent" => \A n \in Steps : task[i][n] # "running"
    /\ status[i] \in Terminal => \A n \in Steps : task[i][n] # "running"
    /\ status[i] = "completed" =>
         /\ \A n \in Steps : task[i][n] = "completed"
         /\ i \in memories \cap approvals \cap delivered
         /\ logs[i] = <<"workflow_started", "summary_done", "social_done",
                        "approval_sent", "workflow_completed">>

\* RowIInv is about each worker, each row and each reaper.
LEMMA RowParts ==
    RowIInv <=> /\ \A w \in Workers : RunOK(w)
                /\ \A i \in Ids : RowOK(i)
                /\ ReapedAsSeen
BY DEF RowIInv, RowOK, NoEarlyTask, TerminalIsQuiet, CompletedIsComplete

\* A row that no session wrote in this step is as well off as it was.
LEMMA RowStays ==
    ASSUME NEW i \in Ids, RowOK(i),
           status'[i] = status[i], task'[i] = task[i], logs'[i] = logs[i],
           memories \in SUBSET memories', approvals \in SUBSET approvals',
           delivered \in SUBSET delivered'
    PROVE  RowOK(i)'
BY DEF RowOK

\* A step of worker w that writes at most row k, which no other worker has and
\* no reaper has selected.
WritesOnly(w, k) ==
    /\ UNCHANGED <<proc, reaped, seen>>
    /\ \A p \in Procs : proc[p] = "reaping" => k \notin reaped[p]
    /\ \A v \in Workers : v # w =>
         /\ pc'[v] = pc[v] /\ step'[v] = step[v] /\ wf'[v] = wf[v]
         /\ pc[v] \in Running => wf[v] # k
    /\ \A i \in Ids : i # k =>
         status'[i] = status[i] /\ task'[i] = task[i] /\ logs'[i] = logs[i]
    /\ memories \in SUBSET memories' /\ approvals \in SUBSET approvals'
    /\ delivered \in SUBSET delivered'

\* What is left to show of such a step: its own run and its own row.
LEMMA WritesOnlyOK ==
    ASSUME IInv, RowIInv, NEW w \in Workers,
           NEW k, WritesOnly(w, k), RunOK(w)', k \in Ids => RowOK(k)'
    PROVE  RowIInv'
<1>1. ASSUME NEW v \in Workers PROVE RunOK(v)'
  <2>1. CASE v # w
    <3>1. pc[v] \in Running => wf[v] \in Ids
      BY DEF IInv, BusyWorkers
    <3> QED
      BY <2>1, <3>1, RunStays DEF WritesOnly, RowIInv
  <2> QED
    BY <2>1
<1>2. ASSUME NEW i \in Ids PROVE RowOK(i)'
  <2>1. CASE i # k
    BY <2>1, RowParts, RowStays DEF WritesOnly
  <2> QED
    BY <2>1
<1>3. ReapedAsSeen'
  <2> SUFFICES ASSUME NEW p \in Procs, proc'[p] = "reaping", NEW i \in reaped'[p]
               PROVE  \/ status'[i] = "running" /\ logs'[i] = seen'[p][i]
                      \/ /\ status'[i] = "interrupted"
                         /\ logs'[i] = Append(seen'[p][i], "workflow_interrupted_at_startup")
    BY DEF ReapedAsSeen
  <2>1. proc[p] = "reaping" /\ i \in reaped[p] /\ i \in Ids /\ i # k
    BY DEF WritesOnly, IInv, TypeOK
  <2> QED
    BY <2>1 DEF WritesOnly, RowIInv, ReapedAsSeen
<1>4. (\A v \in Workers : RunOK(v)') /\ (\A i \in Ids : RowOK(i)')
  BY <1>1, <1>2
<1> QED
  BY <1>3, <1>4 DEF RowIInv, RowOK, NoEarlyTask, TerminalIsQuiet, CompletedIsComplete

\* No other worker has the row of worker w: run_commit_pipeline keeps the id
\* its own INSERT returned.
LEMMA OwnRow ==
    ASSUME IInv, NEW w \in Workers, wf[w] \in Ids
    PROVE  \A v \in Workers : v # w => wf[v] # wf[w]
BY DEF IInv, OneRunnerPerRow

-----------------------------------------------------------------------------
(* The steps that write no row.                                            *)

\* Of such a step of worker w only its own run is left to show.
LEMMA NoWriteOK ==
    ASSUME IInv, RowIInv, NEW w \in Workers,
           UNCHANGED <<storeVars, proc, reaped, seen>>,
           \A v \in Workers : v # w =>
             pc'[v] = pc[v] /\ step'[v] = step[v] /\ wf'[v] = wf[v],
           RunOK(w)'
    PROVE  RowIInv'
<1>1. NoId \notin Ids
  BY DEF NoId, Ids
<1>2. WritesOnly(w, NoId)
  <2>1. \A p \in Procs : reaped[p] \in SUBSET Ids
    BY DEF IInv, TypeOK
  <2> QED
    BY <1>1, <2>1 DEF WritesOnly, storeVars, IInv, BusyWorkers
<1> QED
  BY <1>1, <1>2, WritesOnlyOK

\* SET NX, the attach, a reply of the LLM and a call that raises without effect.
LEMMA CallsOK ==
    ASSUME IInv, RowIInv, NEW w \in Workers, NEW reply, UNCHANGED <<reaped, seen>>,
           \/ AcquireWins(w, reply) \/ AcquireLoses(w) \/ Attach(w, reply)
           \/ LlmReturns(w) \/ RedisError(w) \/ DbError(w) \/ LlmError(w)
    PROVE  RowIInv'
<1>1. PipelineTypeOK /\ RunOK(w)
  BY DEF IInv, TypeOK, RowIInv
<1>2. /\ pc[w] \in InPipeline
      /\ UNCHANGED <<storeVars, proc, step, wf>>
      /\ \A v \in Workers : v # w => pc'[v] = pc[v]
  BY <1>1, RunningCalls
     DEF AcquireWins, AcquireLoses, Attach, LlmReturns, RedisError, DbError, LlmError,
         Raise, Goto, PipelineTypeOK, LlmCalls, DbCalls, RedisCalls, StoreOnly
<1>3. \/ pc[w] = "acquire" /\ pc'[w] \in {"insert", "get", "fail_job"}
      \/ pc[w] = "attach" /\ pc'[w] = "create_task"
      \/ pc[w] \in {"summarize", "draft"} /\ pc'[w] = "complete_task"
      \/ pc[w] \in Running /\ pc'[w] = "fail_task"
      \/ pc'[w] = "fail_job"
  BY <1>1, <1>2, RunningCalls
     DEF AcquireWins, AcquireLoses, Attach, LlmReturns, RedisError, DbError, LlmError,
         Raise, Raised, InTry, Goto, PipelineTypeOK, LlmCalls
<1>4. RunOK(w)'
  <2>1. CASE pc[w] = "acquire" /\ pc'[w] \in {"insert", "get", "fail_job"}
    <3>1. step[w] = 1 /\ wf[w] = NoId
      BY <1>1, <2>1, RunningCalls DEF RunOK
    <3> QED
      BY <1>2, <2>1, <3>1, RunOver, RunningCalls
  <2>2. CASE pc'[w] = "fail_job"
    BY <2>2, RunOver
  <2>3. CASE /\ pc[w] \in {"attach", "summarize", "draft"}
             /\ pc'[w] \in {"create_task", "complete_task"}
    <3>1. step[w] \in {1, 2} /\ step'[w] = step[w] /\ wf'[w] = wf[w]
      BY <1>1, <1>2, <2>3 DEF RunOK, StepOfCall
    <3>2. pc[w] \in GoingWell /\ pc'[w] \in GoingWell /\ pc'[w] \in Running
      BY <2>3, RunningCalls
    <3>3. RowInStep(w) /\ WorkInStep(w)
      BY <1>1, <2>3, <3>2, RunningCalls DEF RunOK
    <3>4. RowInStep(w)'
      BY <1>2, <2>3, <3>1, <3>2, <3>3 DEF RowInStep, storeVars
    <3>5. WorkInStep(w)'
      BY <1>2, <2>3, <3>1, <3>3 DEF WorkInStep, Logged, storeVars
    <3>6. StepOfCall(w)'
      BY <2>3 DEF StepOfCall
    <3> QED
      BY <3>2, <3>4, <3>5, <3>6 DEF RunOK
  <2>4. CASE pc[w] \in Running /\ pc'[w] = "fail_task"
    <3>1. RowInStep(w)
      BY <1>1, <2>4 DEF RunOK
    <3>2. RowInStep(w)'
      BY <1>2, <2>4, <3>1, RunningCalls DEF RowInStep, storeVars
    <3>3. StepOfCall(w)' /\ pc'[w] \notin GoingWell /\ pc'[w] \in Running
      BY <2>4, RunningCalls DEF StepOfCall
    <3> QED
      BY <3>2, <3>3 DEF RunOK
  <2> QED
    BY <1>3, <2>1, <2>2, <2>3, <2>4
<1> QED
  BY <1>2, <1>4, NoWriteOK

\* A worker that has no run before and after the step: BLPOP, the demo_request,
\* q.fail, a skip and the end of the loop.
LEMMA LoopsOK ==
    ASSUME IInv, RowIInv, NEW w \in Workers,
           \/ \E x \in Jobs : Dequeue(w, x) \/ DequeueLost(w, x)
           \/ DemoReturns(w) \/ DemoRaises(w) \/ LeaveLoop(w) \/ FailJobError(w)
           \/ \E reply : FailJob(w, reply)
           \/ Skip(w) /\ UNCHANGED <<api, reaped, seen>>
    PROVE  RowIInv'
<1>1. PipelineTypeOK /\ RunOK(w)
  BY DEF IInv, TypeOK, RowIInv
<1>2. /\ pc[w] \in {"idle", "demo", "fail_job", "get"}
      /\ UNCHANGED <<storeVars, proc, reaped, seen>>
      /\ \A v \in Workers : v # w =>
           pc'[v] = pc[v] /\ step'[v] = step[v] /\ wf'[v] = wf[v]
  BY <1>1 DEF Dequeue, DequeueLost, DemoReturns, DemoRaises, LeaveLoop, FailJobError,
     FailJob, Skip, Return, PipelineTypeOK, procVars
<1>3. pc[w] # "fail_job" => step[w] = 1 /\ wf[w] = NoId
  BY <1>1, <1>2, RunningCalls DEF RunOK
<1>4. \/ pc'[w] = "fail_job"
      \/ pc'[w] \notin Running /\ step'[w] = 1 /\ wf'[w] = NoId
  <2>1. CASE \/ DemoReturns(w) \/ FailJobError(w) \/ Skip(w)
             \/ \E reply : FailJob(w, reply)
    <3>1. \E next \in {"dead", "stopped", "idle"} : Return(w, next)
      BY <2>1 DEF DemoReturns, FailJobError, FailJob, Skip, LoopTop
    <3> QED
      BY <1>1, <3>1, RunningCalls DEF Return, PipelineTypeOK
  <2>2. CASE \/ \E x \in Jobs : Dequeue(w, x) \/ DequeueLost(w, x)
             \/ DemoRaises(w) \/ LeaveLoop(w)
    <3>1. /\ UNCHANGED <<step, wf>> /\ pc[w] # "fail_job"
          /\ pc'[w] \in {"acquire", "demo", "fail_job", "stopped", "idle"}
      BY <1>1, <2>2 DEF Dequeue, DequeueLost, DemoRaises, LeaveLoop, LoopTop,
         PipelineTypeOK
    <3> QED
      BY <1>3, <3>1, RunningCalls
  <2> QED
    BY <2>1, <2>2
<1>5. RunOK(w)'
  BY <1>4, RunOver
<1> QED
  BY <1>2, <1>5, NoWriteOK

-----------------------------------------------------------------------------
(* The processes, the producers and the clock.                             *)

\* Steps of which the workers' rows notice nothing.
LEMMA AroundOK ==
    ASSUME IInv, RowIInv,
           \/ \E p \in Procs : Start(p) \/ Stop(p) \/ ApiFails(p)
           \/ \E x \in Jobs : EmitCommit(x) \/ EnqueueManual(x)
           \/ Tick \/ UNCHANGED allVars
    PROVE  RowIInv'
<1>1. UNCHANGED <<pc, step, wf, status, task, logs, memories, approvals, delivered>>
  BY DEF Start, Stop, ApiFails, EmitCommit, EnqueueManual, Send, Tick, StoreTick,
     allVars, vars, workerVars, storeVars
<1>2. \A v \in Workers : RunOK(v)'
  BY <1>1, RunStays DEF RowIInv
<1>3. NoEarlyTask' /\ TerminalIsQuiet' /\ CompletedIsComplete'
  BY <1>1 DEF RowIInv, NoEarlyTask, TerminalIsQuiet, CompletedIsComplete
<1>4. ReapedAsSeen'
  <2>1. ASSUME NEW p \in Procs, Start(p) PROVE ReapedAsSeen'
    <3>1. /\ \A q \in Procs : q # p =>
               proc'[q] = proc[q] /\ reaped'[q] = reaped[q] /\ seen'[q] = seen[q]
          /\ \A i \in reaped'[p] : status[i] = "running" /\ logs[i] = seen'[p][i]
      BY <2>1 DEF Start, Orphans, IInv, TypeOK, PipelineTypeOK, SeenTypeOK
    <3> QED
      BY <1>1, <3>1 DEF RowIInv, ReapedAsSeen
  <2>2. ASSUME NEW p \in Procs, Stop(p) PROVE ReapedAsSeen'
    <3>1. \A q \in Procs : proc'[q] = "reaping" => proc[q] = "reaping"
      BY <2>2 DEF Stop, IInv, TypeOK, PipelineTypeOK
    <3> QED
      BY <1>1, <2>2, <3>1 DEF RowIInv, ReapedAsSeen, Stop
  <2>3. CASE \/ \E p \in Procs : ApiFails(p)
             \/ \E x \in Jobs : EmitCommit(x) \/ EnqueueManual(x)
             \/ Tick \/ UNCHANGED allVars
    <3>1. UNCHANGED <<proc, reaped, seen>>
      BY <2>3 DEF ApiFails, EmitCommit, EnqueueManual, Send, Tick, allVars, vars, procVars
    <3> QED
      BY <1>1, <3>1 DEF RowIInv, ReapedAsSeen
  <2> QED
    BY <2>1, <2>2, <2>3
<1> QED
  BY <1>2, <1>3, <1>4 DEF RowIInv

\* A process that dies leaves its rows as they are.
LEMMA DiesRowsOK ==
    ASSUME IInv, RowIInv, NEW p \in Procs, NEW end, Dies(p, end)
    PROVE  RowIInv'
<1>1. UNCHANGED <<status, task, logs, memories, approvals, delivered>>
  BY DEF Dies, storeVars
<1>2. ASSUME NEW v \in Workers PROVE RunOK(v)'
  <2>1. CASE Host[v] = p
    <3>1. pc'[v] = "down" /\ step'[v] = 1 /\ wf'[v] = NoId
      BY <2>1 DEF Dies
    <3> QED
      BY <3>1, RunOver, RunningCalls
  <2>2. CASE Host[v] # p
    <3>1. pc'[v] = pc[v] /\ step'[v] = step[v] /\ wf'[v] = wf[v]
      BY <2>2 DEF Dies
    <3> QED
      BY <1>1, <3>1, RunStays DEF RowIInv
  <2> QED
    BY <2>1, <2>2
<1>3. NoEarlyTask' /\ TerminalIsQuiet' /\ CompletedIsComplete'
  BY <1>1 DEF RowIInv, NoEarlyTask, TerminalIsQuiet, CompletedIsComplete
<1>4. ReapedAsSeen'
  <2>1. \A q \in Procs : proc'[q] = "reaping" =>
           proc[q] = "reaping" /\ reaped'[q] = reaped[q] /\ seen'[q] = seen[q]
    BY DEF Dies, IInv, TypeOK, PipelineTypeOK, SeenTypeOK
  <2> QED
    BY <1>1, <2>1 DEF RowIInv, ReapedAsSeen
<1>5. \A v \in Workers : RunOK(v)'
  BY <1>2
<1> QED
  BY <1>3, <1>4, <1>5 DEF RowIInv

\* reap_orphan_workflows interrupts rows and the tasks that run in them; a row
\* that another reaper has taken it leaves as it is.
LEMMA ReapRow ==
    ASSUME IInv, RowIInv, NEW p \in Procs, proc[p] = "reaping",
           reap(reaped[p], seen[p]), NEW i \in Ids
    PROVE  /\ i \notin reaped[p] =>
                status'[i] = status[i] /\ task'[i] = task[i] /\ logs'[i] = logs[i]
           /\ i \in reaped[p] =>
                /\ status'[i] = "interrupted"
                /\ logs'[i] = Append(seen[p][i], "workflow_interrupted_at_startup")
                /\ \A n \in Steps : task'[i][n] # "running"
           /\ i \in reaped[p] /\ status[i] # "running" => logs'[i] = logs[i]
<1>1. task \in [Ids -> [Steps -> RowStatus]]
  BY DEF IInv, TypeOK, StoreTypeOK
<1>2. i \notin reaped[p] => task'[i] = task[i]
  BY <1>1 DEF reap
<1> QED
  BY <1>2 DEF reap, RowIInv, ReapedAsSeen

\* No worker has a row that is reaped, so that every run is where it was.
LEMMA BootRowsOK ==
    ASSUME ReapersTakeOrphans, IInv, RowIInv, NEW p \in Procs, Boot(p) \/ BootFails(p)
    PROVE  RowIInv'
<1>1. /\ proc[p] = "reaping" /\ proc'[p] # "reaping" /\ PipelineTypeOK
      /\ \A q \in Procs : q # p =>
           proc'[q] = proc[q] /\ reaped'[q] = reaped[q] /\ seen'[q] = seen[q]
      /\ UNCHANGED <<memories, approvals, delivered>>
  BY DEF Boot, BootFails, IInv, TypeOK, PipelineTypeOK, SeenTypeOK, reap, storeVars
<1>2. \A i \in Ids : i \notin reaped[p] =>
         status'[i] = status[i] /\ task'[i] = task[i] /\ logs'[i] = logs[i]
  BY <1>1, ReapRow DEF Boot, BootFails, storeVars
<1>3. ASSUME NEW v \in Workers PROVE RunOK(v)'
  <2>1. CASE pc[v] = "down"
    <3>1. wf[v] = NoId /\ step[v] = 1
      BY <2>1, RunningCalls DEF IInv, IdleWorkers, RowIInv, RunOK
    <3>2. UNCHANGED <<step, wf>> /\ pc'[v] \in {"down", "idle"}
      BY <2>1 DEF Boot, BootFails, workerVars
    <3> QED
      BY <3>1, <3>2, RunOver, RunningCalls
  <2>2. CASE pc[v] # "down"
    <3>1. Host[v] # p
      BY <1>1, <2>2 DEF IInv, IdleWorkers
    <3>2. UNCHANGED <<step, wf>> /\ pc'[v] = pc[v]
      BY <3>1 DEF Boot, BootFails, workerVars
    <3>3. pc[v] \in Running => wf[v] \in Ids /\ wf[v] \notin reaped[p]
      BY <1>1 DEF IInv, BusyWorkers, ReapersTakeOrphans, Held
    <3>4. RunOK(v)
      BY DEF RowIInv
    <3> QED
      BY <1>1, <1>2, <3>2, <3>3, <3>4, RunStays
  <2> QED
    BY <2>1, <2>2
<1>4. ASSUME NEW i \in Ids PROVE RowOK(i)'
  <2>1. CASE status'[i] = status[i] /\ task'[i] = task[i] /\ logs'[i] = logs[i]
    BY <1>1, <2>1, RowParts, RowStays
  <2>2. CASE reap(reaped[p], seen[p]) /\ i \in reaped[p]
    BY <1>1, <2>2, ReapRow DEF RowOK
  <2> QED
    BY <1>2, <2>1, <2>2 DEF Boot, BootFails, storeVars
<1>5. ReapedAsSeen'
  <2> SUFFICES ASSUME NEW q \in Procs, proc'[q] = "reaping", NEW i \in reaped'[q]
               PROVE  \/ status'[i] = "running" /\ logs'[i] = seen'[q][i]
                      \/ /\ status'[i] = "interrupted"
                         /\ logs'[i] = Append(seen'[q][i], "workflow_interrupted_at_startup")
    BY DEF ReapedAsSeen
  <2>1. /\ proc[q] = "reaping" /\ i \in reaped[q] /\ i \in Ids /\ seen'[q] = seen[q]
        /\ \/ status[i] = "running" /\ logs[i] = seen[q][i]
           \/ /\ status[i] = "interrupted"
              /\ logs[i] = Append(seen[q][i], "workflow_interrupted_at_startup")
    BY <1>1 DEF IInv, TypeOK, RowIInv, ReapedAsSeen
  <2>2. CASE status'[i] = status[i] /\ logs'[i] = logs[i]
    BY <2>1, <2>2
  <2>3. CASE reap(reaped[p], seen[p]) /\ i \in reaped[p]
    <3>1. /\ status'[i] = "interrupted"
          /\ logs'[i] = Append(seen[p][i], "workflow_interrupted_at_startup")
          /\ status[i] # "running" => logs'[i] = logs[i]
      BY <1>1, <2>1, <2>3, ReapRow
    <3>2. status[i] = "running" => seen[p][i] = logs[i]
      BY <1>1, <2>3 DEF RowIInv, ReapedAsSeen
    <3> QED
      BY <2>1, <3>1, <3>2
  <2> QED
    BY <1>2, <2>1, <2>2, <2>3 DEF Boot, BootFails, storeVars
<1>6. (\A v \in Workers : RunOK(v)') /\ (\A i \in Ids : RowOK(i)')
  BY <1>3, <1>4
<1> QED
  BY <1>5, <1>6 DEF RowIInv, RowOK, NoEarlyTask, TerminalIsQuiet, CompletedIsComplete

-----------------------------------------------------------------------------
(* The steps that write the row of the worker's run.                       *)

\* What is known of a worker that makes a call of a running workflow.
LEMMA Runner ==
    ASSUME IInv, RowIInv, NEW w \in Workers, pc[w] \in Running
    PROVE  /\ wf[w] \in Ids /\ step[w] \in Steps /\ pc[w] # "down"
           /\ StepOfCall(w) /\ RowInStep(w)
           /\ pc[w] \in GoingWell => WorkInStep(w)
           /\ pc[w] = "append_log" => step[w] # 3
           /\ pc \in [Workers -> InPipeline \cup
                        {"down", "idle", "demo", "fail_job", "dead", "stopped"}]
           /\ step \in [Workers -> Steps]
           /\ task \in [Ids -> [Steps -> RowStatus]]
           /\ status \in [Ids -> RowStatus]
           /\ logs \in [Ids -> Seq(Events)]
BY RunningCalls DEF IInv, TypeOK, PipelineTypeOK, StoreTypeOK, BusyWorkers, RowIInv,
   RunOK

\* Of a call of a running workflow its own run is left to show, and the row if
\* the call ends it.
LEMMA RunnerWrites ==
    ASSUME ReapersTakeOrphans, IInv, RowIInv, NEW w \in Workers, pc[w] \in Running,
           UNCHANGED <<proc, reaped, seen>>,
           \A v \in Workers : v # w =>
             pc'[v] = pc[v] /\ step'[v] = step[v] /\ wf'[v] = wf[v],
           \A i \in Ids : i # wf[w] =>
             status'[i] = status[i] /\ task'[i] = task[i] /\ logs'[i] = logs[i],
           memories \in SUBSET memories', approvals \in SUBSET approvals',
           delivered \in SUBSET delivered',
           RunOK(w)',
           \A i \in Ids : i = wf[w] => status'[i] = "running" \/ RowOK(i)'
    PROVE  RowIInv'
<1>1. PICK k \in Ids : k = wf[w]
  BY Runner
<1>2. WritesOnly(w, k)
  BY <1>1, OwnRow DEF WritesOnly, ReapersTakeOrphans, Held
<1>3. RowOK(k)'
  <2>1. CASE status'[k] = "running"
    BY <2>1 DEF RowOK, Terminal
  <2> QED
    BY <1>1, <2>1
<1> QED
  BY <1>1, <1>2, <1>3, WritesOnlyOK

\* The except block of a step finds the row running and at most the task of
\* its step.
LEMMA RaisedRunOK ==
    ASSUME IInv, RowIInv, NEW w \in Workers, pc[w] \in Running,
           pc'[w] = "fail_task", step'[w] = step[w], wf'[w] = wf[w],
           status'[wf[w]] = status[wf[w]],
           \A n \in Steps : n # step[w] => task'[wf[w]][n] = task[wf[w]][n]
    PROVE  RunOK(w)'
<1>1. RowInStep(w)
  BY Runner
<1>2. RowInStep(w)'
  BY <1>1, RunningCalls DEF RowInStep
<1>3. StepOfCall(w)' /\ pc'[w] \in Running /\ pc'[w] \notin GoingWell
  BY RunningCalls DEF StepOfCall
<1> QED
  BY <1>2, <1>3 DEF RunOK

\* _create_task.
LEMMA CreateTaskOK ==
    ASSUME ReapersTakeOrphans, IInv, RowIInv, NEW w \in Workers,
           NEW reply, UNCHANGED <<reaped, seen>>,
           CreateTask(w, reply)
    PROVE  RowIInv'
<1>1. pc[w] = "create_task" /\ pc[w] \in Running /\ pc[w] \in GoingWell
  BY RunningCalls DEF CreateTask
<1> USE Runner
<1>2. /\ \A v \in Workers : v # w => pc'[v] = pc[v]
      /\ pc'[w] = "fail_job" \/ pc'[w] = Body[step[w]]
      /\ UNCHANGED <<proc, step, wf, status, logs, memories, approvals, delivered>>
      /\ task' = [task EXCEPT ![wf[w]][step[w]] = "running"]
  BY <1>1 DEF CreateTask, SetTask, Goto, Raised, InTry, StoreOnly
<1>3. RunOK(w)'
  <2>1. CASE pc'[w] = "fail_job"
    BY <2>1, RunOver
  <2>2. CASE pc'[w] = Body[step[w]]
    <3>1. \/ step[w] = 1 /\ pc'[w] = "summarize"
          \/ step[w] = 2 /\ pc'[w] = "draft"
          \/ step[w] = 3 /\ pc'[w] = "save"
          \/ step[w] = 4 /\ pc'[w] = "request"
      BY <1>1, <2>2 DEF Body, Steps
    <3>2. RowInStep(w)'
      BY <1>1, <1>2, <3>1 DEF RowInStep, Steps
    <3>3. WorkInStep(w)'
      BY <1>1, <1>2, <3>1 DEF WorkInStep, Logged
    <3>4. StepOfCall(w)' /\ pc'[w] \in Running
      BY <1>2, <3>1, RunningCalls DEF StepOfCall
    <3> QED
      BY <3>2, <3>3, <3>4 DEF RunOK
  <2> QED
    BY <1>2, <2>1, <2>2
<1>4. status'[wf[w]] = "running"
  BY <1>1, <1>2 DEF RowInStep
<1> QED
  BY <1>1, <1>2, <1>3, <1>4, RunnerWrites

\* The INSERT of the Memory row, the vector store's calls, the INSERT of the
\* Approval row and its delivered_via.
LEMMA SaveAndAskOK ==
    ASSUME ReapersTakeOrphans, IInv, VectorIInv, RowIInv, NEW w \in Workers,
           NEW reply, UNCHANGED <<reaped, seen>>,
           \/ Save(w, reply) \/ \E n \in 0..2 : Index(w, n)
           \/ Request(w, reply) \/ Deliver(w, reply)
    PROVE  RowIInv'
<1>1. pc[w] \in Running /\ pc[w] \in GoingWell
  BY RunningCalls DEF Save, Index, Request, Deliver
<1> USE Runner
<1>2. /\ \A v \in Workers : v # w => pc'[v] = pc[v]
      /\ UNCHANGED <<proc, step, wf, status, logs, task>>
      /\ memories \in SUBSET memories' /\ approvals \in SUBSET approvals'
      /\ delivered \in SUBSET delivered'
  BY <1>1 DEF Save, Index, Request, Deliver, Goto, StoreOnly
<1>3. \/ /\ pc[w] = "save" /\ pc'[w] = "index"
      \/ /\ pc[w] = "index" /\ pc'[w] = "complete_task" /\ wf[w] \in memories'
      \/ /\ pc[w] = "request" /\ pc'[w] = "delivered" /\ wf[w] \in approvals'
      \/ /\ pc[w] = "delivered" /\ pc'[w] = "complete_task" /\ wf[w] \in delivered'
      \/ pc'[w] = "fail_task"
  BY <1>1 DEF Save, Index, Request, Deliver, Goto, Raised, InTry, VectorIInv
<1>4. RunOK(w)'
  <2>1. CASE pc'[w] = "fail_task"
    BY <1>1, <1>2, <2>1, RaisedRunOK
  <2>2. CASE pc'[w] # "fail_task"
    <3>1. RowInStep(w)'
      <4>1. RowInStep(w) /\ pc'[w] \in {"index", "complete_task", "delivered"}
        BY <1>1, <1>3, <2>2
      <4> QED
        BY <1>1, <1>2, <4>1 DEF RowInStep
    <3>2. /\ pc[w] \in {"save", "index"} => step[w] = 3
          /\ pc[w] \in {"request", "delivered"} => step[w] = 4
      BY <1>1 DEF StepOfCall
    <3>3. WorkInStep(w)'
      BY <1>1, <1>2, <1>3, <2>2, <3>2 DEF WorkInStep, Logged
    <3>4. StepOfCall(w)' /\ pc'[w] \in Running
      BY <1>2, <1>3, <2>2, <3>2, RunningCalls DEF StepOfCall
    <3> QED
      BY <3>1, <3>3, <3>4 DEF RunOK
  <2> QED
    BY <2>1, <2>2
<1>5. status'[wf[w]] = "running"
  BY <1>1, <1>2 DEF RowInStep
<1> QED
  BY <1>1, <1>2, <1>4, <1>5, RunnerWrites

\* _complete_task.
LEMMA CompleteTaskOK ==
    ASSUME ReapersTakeOrphans, IInv, RowIInv, NEW w \in Workers,
           NEW reply, UNCHANGED <<reaped, seen>>,
           CompleteTask(w, reply)
    PROVE  RowIInv'
<1>1. pc[w] = "complete_task" /\ pc[w] \in Running /\ pc[w] \in GoingWell
  BY RunningCalls DEF CompleteTask
<1> USE Runner
<1>2. /\ \A v \in Workers : v # w => pc'[v] = pc[v] /\ step'[v] = step[v]
      /\ UNCHANGED <<proc, wf, status, logs, memories, approvals, delivered>>
      /\ task' = [task EXCEPT ![wf[w]][step[w]] = "completed"]
  BY <1>1 DEF CompleteTask, SetTask, Goto, StoreOnly
<1>3. \/ pc'[w] = "fail_task" /\ step'[w] = step[w]
      \/ pc'[w] = "create_task" /\ step[w] = 3 /\ step'[w] = 4
      \/ pc'[w] = "append_log" /\ step[w] # 3 /\ step'[w] = step[w]
  BY <1>1 DEF CompleteTask, Goto, Raised, InTry
<1>4. RunOK(w)'
  <2>1. CASE pc'[w] = "fail_task" /\ step'[w] = step[w]
    BY <1>1, <1>2, <2>1, RaisedRunOK
  <2>2. CASE pc'[w] = "create_task" /\ step[w] = 3 /\ step'[w] = 4
    <3>1. RowInStep(w)'
      <4>1. /\ RowInStep(w) /\ wf[w] \in Ids /\ wf'[w] = wf[w]
            /\ task \in [Ids -> [Steps -> RowStatus]]
        BY <1>1, <1>2
      <4>2. \A n \in Steps : n # 3 => task'[wf[w]][n] = task[wf[w]][n]
        BY <1>2, <2>2, <4>1
      <4>3. task'[wf[w]][3] = "completed"
        BY <1>2, <2>2, <4>1 DEF Steps
      <4>4. \A n \in 1..2 : task[wf[w]][n] = "completed"
        BY <1>1, <2>2, <4>1 DEF RowInStep
      <4>5. \A n \in 1..3 : task'[wf[w]][n] = "completed"
        BY <4>2, <4>3, <4>4 DEF Steps
      <4>6. \A n \in Steps : n # 4 => task'[wf[w]][n] # "running"
        BY <4>5 DEF Steps
      <4> QED
        BY <1>1, <1>2, <2>2, <4>1, <4>5, <4>6 DEF RowInStep
    <3>2. WorkInStep(w)'
      BY <1>1, <1>2, <2>2 DEF WorkInStep, Logged
    <3>3. StepOfCall(w)' /\ pc'[w] \in Running
      BY <2>2, RunningCalls DEF StepOfCall
    <3> QED
      BY <3>1, <3>2, <3>3, RunningCalls DEF RunOK
  <2>3. CASE pc'[w] = "append_log" /\ step[w] # 3 /\ step'[w] = step[w]
    <3>1. RowInStep(w)'
      BY <1>1, <1>2, <2>3 DEF RowInStep, Steps
    <3>2. WorkInStep(w)'
      BY <1>1, <1>2, <2>3 DEF WorkInStep, Logged
    <3>3. StepOfCall(w)' /\ pc'[w] \in Running
      BY <2>3, RunningCalls DEF StepOfCall
    <3> QED
      BY <3>1, <3>2, <3>3, RunningCalls DEF RunOK
  <2> QED
    BY <1>3, <2>1, <2>2, <2>3
<1>5. status'[wf[w]] = "running"
  BY <1>1, <1>2 DEF RowInStep
<1> QED
  BY <1>1, <1>2, <1>4, <1>5, RunnerWrites

\* What _append_log adds is the next milestone.
LEMMA NextMilestone ==
    ASSUME IInv, RowIInv, NEW w \in Workers, pc[w] = "append_log"
    PROVE  /\ step[w] = 4 => Logged(w) = 3
           /\ step[w] # 4 => step[w] \in {1, 2} /\ Logged(w) = step[w]
           /\ Append(logs[wf[w]], Done[step[w]]) = Trail(Logged(w) + 1)
<1>1. pc[w] \in Running /\ pc[w] \in GoingWell
  BY RunningCalls
<1>2. step[w] \in {1, 2, 4} /\ logs[wf[w]] = Trail(Logged(w))
  BY <1>1, Runner DEF Steps, WorkInStep
<1>3. CASE step[w] = 4
  <2>1. Logged(w) = 3 /\ Logged(w) + 1 = 4 /\ Done[step[w]] = "approval_sent"
    BY <1>3 DEF Logged, Done
  <2> QED
    BY <1>2, <1>3, <2>1, Trails
<1>4. CASE step[w] = 1
  <2>1. Logged(w) = 1 /\ Logged(w) + 1 = 2 /\ Done[step[w]] = "summary_done"
    BY <1>4 DEF Logged, Done
  <2> QED
    BY <1>2, <1>4, <2>1, Trails
<1>5. CASE step[w] = 2
  <2>1. Logged(w) = 2 /\ Logged(w) + 1 = 3 /\ Done[step[w]] = "social_done"
    BY <1>5 DEF Logged, Done
  <2> QED
    BY <1>2, <1>5, <2>1, Trails
<1> QED
  BY <1>2, <1>3, <1>4, <1>5

\* _append_log at the end of steps 1, 2 and 4.
LEMMA AppendLogOK ==
    ASSUME ReapersTakeOrphans, IInv, RowIInv, NEW w \in Workers,
           NEW reply, UNCHANGED <<reaped, seen>>,
           AppendLog(w, reply)
    PROVE  RowIInv'
<1>1. /\ pc[w] = "append_log" /\ pc[w] \in Running /\ pc[w] \in GoingWell
      /\ wf[w] \in Ids /\ step[w] \in {1, 2, 4}
      /\ RowInStep(w) /\ WorkInStep(w)
  <2>1. pc[w] = "append_log" /\ pc[w] \in Running /\ pc[w] \in GoingWell
    BY RunningCalls DEF AppendLog
  <2>2. step[w] \in {1, 2, 3, 4} /\ step[w] # 3
    BY <2>1, Runner DEF Steps
  <2> QED
    BY <2>1, <2>2, Runner
<1>2. /\ \A v \in Workers : v # w => pc'[v] = pc[v] /\ step'[v] = step[v]
      /\ UNCHANGED <<proc, wf, status, task, memories, approvals, delivered>>
      /\ \A i \in Ids : i # wf[w] => logs'[i] = logs[i]
      /\ logs'[wf[w]] = Trail(Logged(w) + 1)
  BY <1>1, Runner, NextMilestone DEF AppendLog, append_log, Goto, StoreOnly
<1>3. \/ pc'[w] = "fail_task" /\ step'[w] = step[w]
      \/ pc'[w] = "finish" /\ step[w] = 4 /\ step'[w] = 4
      \/ pc'[w] = "create_task" /\ step[w] \in {1, 2} /\ step'[w] = step[w] + 1
  BY <1>1, Runner DEF AppendLog, Goto, Raised, InTry
<1>4. RunOK(w)'
  <2>1. CASE pc'[w] = "fail_task" /\ step'[w] = step[w]
    BY <1>1, <1>2, <2>1, RaisedRunOK
  <2>2. CASE pc'[w] = "finish" /\ step[w] = 4 /\ step'[w] = 4
    <3>1. RowInStep(w)'
      BY <1>1, <1>2, <2>2 DEF RowInStep
    <3>2. Logged(w)' = 4 /\ Logged(w) + 1 = 4
      BY <1>1, <2>2 DEF Logged
    <3>3. WorkInStep(w)'
      BY <1>1, <1>2, <2>2, <3>2 DEF WorkInStep
    <3>4. StepOfCall(w)' /\ pc'[w] \in Running
      BY <2>2, RunningCalls DEF StepOfCall
    <3> QED
      BY <3>1, <3>3, <3>4, RunningCalls DEF RunOK
  <2>3. CASE pc'[w] = "create_task" /\ step[w] \in {1, 2} /\ step'[w] = step[w] + 1
    <3>1. RowInStep(w)'
      <4>1. /\ \A n \in Steps : n # step[w] => task'[wf[w]][n] # "running"
            /\ task'[wf[w]][step[w]] = "completed"
            /\ \A n \in 1..(step[w] - 1) : task'[wf[w]][n] = "completed"
        BY <1>1, <1>2 DEF RowInStep
      <4>2. \A n \in 1..(step'[w] - 1) : task'[wf[w]][n] = "completed"
        BY <2>3, <4>1
      <4>3. \A n \in Steps : n # step'[w] => task'[wf[w]][n] # "running"
        BY <2>3, <4>1 DEF Steps
      <4> QED
        BY <1>1, <1>2, <2>3, <4>2, <4>3 DEF RowInStep
    <3>2. Logged(w)' = Logged(w) + 1 /\ step'[w] \in {2, 3}
      BY <1>1, <2>3 DEF Logged
    <3>3. WorkInStep(w)'
      BY <1>1, <1>2, <2>3, <3>2 DEF WorkInStep
    <3>4. StepOfCall(w)' /\ pc'[w] \in Running
      BY <2>3, RunningCalls DEF StepOfCall
    <3> QED
      BY <3>1, <3>3, <3>4, RunningCalls DEF RunOK
  <2> QED
    BY <1>3, <2>1, <2>2, <2>3
<1>5. status'[wf[w]] = "running"
  BY <1>1, <1>2 DEF RowInStep
<1> QED
  BY <1>1, <1>2, <1>4, <1>5, RunnerWrites

\* _fail_task.
LEMMA FailTaskOK ==
    ASSUME ReapersTakeOrphans, IInv, RowIInv, NEW w \in Workers,
           NEW reply, UNCHANGED <<reaped, seen>>,
           FailTask(w, reply)
    PROVE  RowIInv'
<1>1. /\ pc[w] = "fail_task" /\ pc[w] \in Running
      /\ wf[w] \in Ids /\ step[w] \in Steps /\ RowInStep(w)
  BY RunningCalls, Runner DEF FailTask
<1>2. /\ \A v \in Workers : v # w => pc'[v] = pc[v]
      /\ UNCHANGED <<proc, step, wf, status, logs, memories, approvals, delivered>>
      /\ task' = [task EXCEPT ![wf[w]][step[w]] = "failed"]
      /\ pc'[w] \in {"fail_workflow", "fail_job"}
  BY <1>1, Runner DEF FailTask, SetTask, Goto, Raised, InTry, StoreOnly
<1>3. RunOK(w)'
  <2>1. CASE pc'[w] = "fail_job"
    BY <2>1, RunOver
  <2>2. CASE pc'[w] = "fail_workflow"
    <3>1. RowInStep(w)'
      <4>1. /\ \A n \in Steps : n # step[w] => task'[wf[w]][n] = task[wf[w]][n]
            /\ task'[wf[w]][step[w]] = "failed"
        BY <1>1, <1>2, Runner
      <4> QED
        BY <1>1, <1>2, <2>2, <4>1, RunningCalls DEF RowInStep
    <3>2. StepOfCall(w)' /\ pc'[w] \in Running /\ pc'[w] \notin GoingWell
      BY <2>2, RunningCalls DEF StepOfCall
    <3> QED
      BY <3>1, <3>2 DEF RunOK
  <2> QED
    BY <1>2, <2>1, <2>2
<1>4. status'[wf[w]] = "running"
  BY <1>1, <1>2 DEF RowInStep
<1>5. \A i \in Ids : i # wf[w] => task'[i] = task[i]
  BY <1>1, <1>2, Runner
<1> QED
  BY <1>1, <1>2, <1>3, <1>4, <1>5, RunnerWrites

\* _fail_workflow ends the row after the task of the step has failed.
LEMMA FailWorkflowOK ==
    ASSUME ReapersTakeOrphans, IInv, RowIInv, NEW w \in Workers,
           NEW reply, UNCHANGED <<reaped, seen>>,
           FailWorkflow(w, reply)
    PROVE  RowIInv'
<1>1. /\ pc[w] = "fail_workflow" /\ pc[w] \in Running
      /\ wf[w] \in Ids /\ step[w] \in Steps /\ RowInStep(w)
  BY RunningCalls, Runner DEF FailWorkflow
<1>2. /\ \A v \in Workers : v # w => pc'[v] = pc[v]
      /\ pc'[w] = "fail_job"
      /\ UNCHANGED <<proc, step, wf, task, memories, approvals, delivered>>
      /\ \A i \in Ids : i # wf[w] => status'[i] = status[i] /\ logs'[i] = logs[i]
      /\ status'[wf[w]] = "failed"
  BY <1>1, Runner DEF FailWorkflow, end_workflow, Goto, Raised, InTry, StoreOnly
<1>3. RunOK(w)'
  BY <1>2, RunOver
<1>4. \A i \in Ids : i = wf[w] => RowOK(i)'
  BY <1>1, <1>2 DEF RowInStep, RowOK
<1> QED
  BY <1>1, <1>2, <1>3, <1>4, RunnerWrites

\* The last session of _run_pipeline_steps ends a row for which everything
\* was done.
LEMMA FinishRowOK ==
    ASSUME ReapersTakeOrphans, IInv, RowIInv, NEW w \in Workers,
           NEW reply \in {"ok", "lost"}, UNCHANGED <<reaped, seen>>,
           Finish(w, reply)
    PROVE  RowIInv'
<1>1. /\ pc[w] = "finish" /\ pc[w] \in Running /\ pc[w] \in GoingWell
      /\ wf[w] \in Ids /\ step[w] = 4
      /\ RowInStep(w) /\ WorkInStep(w)
  BY RunningCalls, Runner DEF Finish, StepOfCall
<1>2. /\ UNCHANGED <<proc, task, memories, approvals, delivered>>
      /\ \A i \in Ids : i # wf[w] => status'[i] = status[i] /\ logs'[i] = logs[i]
      /\ status'[wf[w]] = "completed"
      /\ logs'[wf[w]] = Append(logs[wf[w]], "workflow_completed")
  BY <1>1, Runner DEF Finish, end_workflow
<1>3. /\ \A v \in Workers : v # w =>
           pc'[v] = pc[v] /\ step'[v] = step[v] /\ wf'[v] = wf[v]
      /\ \/ pc'[w] = "fail_job"
         \/ pc'[w] \in {"stopped", "idle"} /\ step'[w] = 1 /\ wf'[w] = NoId
  <2>1. PipelineTypeOK
    BY DEF IInv, TypeOK
  <2> QED
    BY <1>1, <2>1 DEF Finish, Return, LoopTop, Goto, Raised, InTry, PipelineTypeOK
<1>4. RunOK(w)'
  BY <1>3, RunOver, RunningCalls
<1>5. PICK k \in Ids : k = wf[w]
  BY <1>1
<1>6. RowOK(k)'
  <2>1. \A n \in Steps : task'[k][n] = "completed"
    BY <1>1, <1>2, <1>5 DEF RowInStep, Steps
  <2>2. k \in memories' \cap approvals' \cap delivered'
    BY <1>1, <1>2, <1>5 DEF WorkInStep
  <2>3. logs'[k] = <<"workflow_started", "summary_done", "social_done",
                     "approval_sent", "workflow_completed">>
    <3>1. logs[wf[w]] = Trail(4)
      BY <1>1 DEF WorkInStep, Logged
    <3> QED
      BY <1>2, <1>5, <3>1 DEF Trail
  <2> QED
    BY <1>2, <1>5, <2>1, <2>2, <2>3 DEF RowOK
<1> QED
  BY <1>1, <1>2, <1>3, <1>4, <1>5, <1>6, RunnerWrites

\* The INSERT of the workflow row: a row without tasks, and a run at step 1.
LEMMA InsertRowOK ==
    ASSUME IInv, RowIInv, NEW w \in Workers, NEW reply, UNCHANGED <<reaped, seen>>,
           Insert(w, reply)
    PROVE  RowIInv'
<1>1. /\ pc[w] = "insert" /\ step[w] = 1 /\ PipelineTypeOK /\ StoreTypeOK
  BY RunningCalls DEF Insert, RowIInv, RunOK, IInv, TypeOK
<1>2. PICK k \in Ids : k = nextId
  BY DEF Insert, insert_workflow
<1>3. status[k] = "absent" /\ \A n \in Steps : task[k][n] # "running"
  BY <1>2 DEF IInv, RowsAreSerial, RowIInv, NoEarlyTask, Ids
<1>4. /\ UNCHANGED <<proc, step, task, memories, approvals, delivered>>
      /\ \A i \in Ids : i # k => status'[i] = status[i] /\ logs'[i] = logs[i]
      /\ status'[k] = "running" /\ logs'[k] = <<"workflow_started">>
      /\ \A v \in Workers : v # w => pc'[v] = pc[v] /\ wf'[v] = wf[v]
      /\ pc'[w] = "fail_job" \/ (pc'[w] = "attach" /\ wf'[w] = k)
  BY <1>1, <1>2 DEF Insert, insert_workflow, Goto, Raised, InTry, PipelineTypeOK,
     StoreTypeOK
<1>5. RunOK(w)'
  <2>1. CASE pc'[w] = "fail_job"
    BY <2>1, RunOver
  <2>2. CASE pc'[w] = "attach" /\ wf'[w] = k
    <3>1. RowInStep(w)'
      BY <1>1, <1>3, <1>4, <2>2 DEF RowInStep
    <3>2. WorkInStep(w)'
      <4>1. step'[w] = 1 /\ logs'[wf'[w]] = Trail(1)
        BY <1>1, <1>4, <2>2, Trails
      <4>2. Logged(w)' = 1
        BY <2>2, <4>1 DEF Logged
      <4> QED
        BY <2>2, <4>1, <4>2 DEF WorkInStep
    <3>3. StepOfCall(w)' /\ pc'[w] \in Running
      BY <1>1, <1>4, <2>2, RunningCalls DEF StepOfCall
    <3> QED
      BY <3>1, <3>2, <3>3, RunningCalls DEF RunOK
  <2> QED
    BY <1>4, <2>1, <2>2
<1>6. WritesOnly(w, k)
  <2>1. \A v \in Workers : pc[v] \in Running => wf[v] # k
    BY <1>3 DEF IInv, BusyWorkers
  <2>2. \A p \in Procs : k \notin reaped[p]
    BY <1>3 DEF IInv, ReapedAreRows
  <2> QED
    BY <1>4, <2>1, <2>2 DEF WritesOnly
<1>7. RowOK(k)'
  BY <1>4 DEF RowOK, Terminal
<1> QED
  BY <1>1, <1>5, <1>6, <1>7, WritesOnlyOK

-----------------------------------------------------------------------------
\* RowIInv is inductive, with IInv and VectorIInv, while reapers take orphans
\* only.
LEMMA NextRows ==
    ASSUME ReapersTakeOrphans, IInv, VectorIInv, RowIInv, [Next]_allVars
    PROVE  RowIInv'
<1>1. ASSUME NEW w \in Workers, PipelineStep(w) PROVE RowIInv'
  <2>1. Indexings \in SUBSET (0..2)
    BY DEF Indexings
  <2> QED
    BY <1>1, <2>1, CallsOK, LoopsOK, CreateTaskOK, SaveAndAskOK, CompleteTaskOK,
       AppendLogOK, FailTaskOK, FailWorkflowOK, FinishRowOK, InsertRowOK
       DEF PipelineStep, Pipeline, Replies
<1>2. ASSUME NEW w \in Workers, WorkerStep(w) PROVE RowIInv'
  BY <1>1, <1>2, LoopsOK DEF WorkerStep
<1>3. ASSUME NEW p \in Procs, Crash(p) \/ StopRaises(p) \/ Exit(p) PROVE RowIInv'
  BY <1>3, DiesRowsOK DEF Crash, StopRaises, Exit
<1> QED
  BY <1>2, <1>3, LoopsOK, AroundOK, BootRowsOK DEF Next

\* There is no row, no run and no reaper before the first start.
LEMMA InitRows == Init => RowIInv
<1> SUFFICES ASSUME Init PROVE RowIInv
  OBVIOUS
<1>1. \A w \in Workers : RunOK(w)
  BY RunningCalls DEF Init, PipelineInit, RunOK, StepOfCall
<1>2. NoEarlyTask /\ ReapedAsSeen /\ TerminalIsQuiet /\ CompletedIsComplete
  BY DEF Init, StoreInit, PipelineInit, NoEarlyTask, ReapedAsSeen, TerminalIsQuiet,
     CompletedIsComplete, Terminal
<1> QED
  BY <1>1, <1>2 DEF RowIInv

\* RowIInv holds in every state, of any number of processes, as long as
\* reap_orphan_workflows selects no row that a worker has.
THEOREM RowInvariance == Spec /\ []ReapersTakeOrphans => []RowIInv
<1>1. ReapersTakeOrphans /\ IInv /\ VectorIInv /\ RowIInv /\ [Next]_allVars => RowIInv'
  BY NextRows
<1> QED
  BY <1>1, InitRows, Invariance, VectorInvariance, PTL DEF Spec

-----------------------------------------------------------------------------
(* The refinement: every step is a step of the ledger.                     *)

\* A step that writes nothing the ledger shows, and gives no worker a row,
\* lets go of rows or leaves them as they are.
LEMMA LetsGo ==
    ASSUME UNCHANGED <<status, logs, memories, approvals>>,
           \A v \in Workers : wf'[v] \in {wf[v], NoId}
    PROVE  Ledger!LetGo
<1>1. NoId \notin Ids
  BY DEF NoId, Ids
<1>2. Held' \in SUBSET Held
  BY <1>1 DEF Held
<1> QED
  BY <1>2 DEF Ledger!LetGo

\* A running workflow's worker holds its row, which is running.
LEMMA RunnerHolds ==
    ASSUME IInv, RowIInv, NEW w \in Workers, pc[w] \in Running
    PROVE  wf[w] \in Ids /\ wf[w] \in Held /\ status[wf[w]] = "running"
BY Runner DEF RowInStep, Held

\* The INSERT of a workflow row begins a row.
LEMMA InsertBegins ==
    ASSUME IInv, RowIInv, NEW w \in Workers, NEW reply, Insert(w, reply)
    PROVE  \E i \in Ids : Ledger!Begin(i)
<1>1. /\ pc[w] = "insert" /\ wf[w] = NoId /\ PipelineTypeOK
  BY RunningCalls DEF Insert, RowIInv, RunOK, IInv, TypeOK
<1>2. PICK k \in Ids : k = nextId
  BY DEF Insert, insert_workflow
<1>3. status[k] = "absent" /\ \A n \in Ids : n < k => status[n] # "absent"
  BY <1>2 DEF IInv, RowsAreSerial, Ids
<1>4. /\ status' = [status EXCEPT ![k] = "running"]
      /\ logs' = [logs EXCEPT ![k] = <<"workflow_started">>]
      /\ UNCHANGED <<memories, approvals>>
      /\ \A v \in Workers : v # w => wf'[v] = wf[v]
      /\ wf'[w] \in {k, NoId}
  BY <1>1, <1>2 DEF Insert, insert_workflow, PipelineTypeOK
<1>5. Held' \in {Held, Held \cup {k}}
  <2>1. NoId \notin Ids
    BY DEF NoId, Ids
  <2>2. \A i \in Held : \E v \in Workers : v # w /\ wf[v] = i
    BY <1>1, <2>1 DEF Held
  <2> QED
    BY <1>1, <1>4, <2>1, <2>2 DEF Held
<1>6. Ledger!Milestones[1] = "workflow_started"
  BY DEF Ledger!Milestones
<1> QED
  BY <1>3, <1>4, <1>5, <1>6 DEF Ledger!Begin

\* The Memory row saves the work after three milestones, and the Approval row
\* asks for it after the work is saved.
LEMMA SaveSavesAskAsks ==
    ASSUME IInv, RowIInv, NEW w \in Workers, NEW reply
    PROVE  /\ Save(w, reply) => \E i \in Ids : Ledger!Save(i)
           /\ Request(w, reply) => \E i \in Ids : Ledger!Ask(i)
<1>1. ASSUME Save(w, reply) PROVE \E i \in Ids : Ledger!Save(i)
  <2>1. pc[w] = "save" /\ pc[w] \in Running /\ pc[w] \in GoingWell
    BY <1>1, RunningCalls DEF Save
  <2>2. step[w] = 3 /\ logs[wf[w]] = Trail(3)
    BY <2>1, Runner DEF StepOfCall, WorkInStep, Logged
  <2>3. Len(logs[wf[w]]) = 3
    BY <2>2 DEF Trail
  <2>4. UNCHANGED <<status, logs, approvals, Held>> /\ memories' = memories \cup {wf[w]}
    BY <1>1 DEF Save, StoreOnly, Held
  <2> QED
    BY <2>1, <2>3, <2>4, RunnerHolds DEF Ledger!Save, Ledger!Working
<1>2. ASSUME Request(w, reply) PROVE \E i \in Ids : Ledger!Ask(i)
  <2>1. pc[w] = "request" /\ pc[w] \in Running /\ pc[w] \in GoingWell
    BY <1>2, RunningCalls DEF Request
  <2>2. wf[w] \in memories
    BY <2>1, Runner DEF StepOfCall, WorkInStep
  <2>3. UNCHANGED <<status, logs, memories, Held>> /\ approvals' = approvals \cup {wf[w]}
    BY <1>2 DEF Request, StoreOnly, Held
  <2> QED
    BY <2>1, <2>2, <2>3, RunnerHolds DEF Ledger!Ask, Ledger!Working
<1> QED
  BY <1>1, <1>2

\* _append_log notes the next milestone, the last one after the card.
LEMMA AppendNotes ==
    ASSUME IInv, RowIInv, NEW w \in Workers, NEW reply, AppendLog(w, reply)
    PROVE  \E i \in Ids : Ledger!Note(i)
<1>1. /\ pc[w] = "append_log" /\ pc[w] \in Running /\ pc[w] \in GoingWell
      /\ wf[w] \in Ids /\ step[w] \in {1, 2, 4}
      /\ WorkInStep(w) /\ logs \in [Ids -> Seq(Events)]
  BY RunningCalls, Runner DEF AppendLog, Steps
<1>2. /\ UNCHANGED <<status, memories, approvals, Held>>
      /\ logs' = [logs EXCEPT ![wf[w]] = Append(@, Done[step[w]])]
  BY DEF AppendLog, append_log, StoreOnly, Held
<1>3. logs[wf[w]] = Trail(Logged(w))
  BY <1>1 DEF WorkInStep
<1>4. /\ Len(logs[wf[w]]) < 4
      /\ Ledger!Milestones[Len(logs[wf[w]]) + 1] = Done[step[w]]
      /\ Len(logs[wf[w]]) + 1 = 4 => step[w] = 4
  <2>1. CASE step[w] = 1
    <3>1. logs[wf[w]] = <<"workflow_started">>
      BY <1>1, <1>3, <2>1 DEF Logged, Trail
    <3> QED
      BY <2>1, <3>1 DEF Ledger!Milestones, Done
  <2>2. CASE step[w] = 2
    <3>1. logs[wf[w]] = <<"workflow_started", "summary_done">>
      BY <1>1, <1>3, <2>2 DEF Logged, Trail
    <3> QED
      BY <2>2, <3>1 DEF Ledger!Milestones, Done
  <2>3. CASE step[w] = 4
    <3>1. logs[wf[w]] = <<"workflow_started", "summary_done", "social_done">>
      BY <1>1, <1>3, <2>3 DEF Logged, Trail
    <3> QED
      BY <2>3, <3>1 DEF Ledger!Milestones, Done
  <2> QED
    BY <1>1, <2>1, <2>2, <2>3
<1>5. step[w] = 4 => wf[w] \in approvals
  BY <1>1 DEF WorkInStep
<1>6. Len(Ledger!Milestones) = 4
  BY DEF Ledger!Milestones
<1>7. wf[w] \in Held /\ status[wf[w]] = "running"
  BY <1>1, RunnerHolds
<1>8. Ledger!Note(wf[w])
  BY <1>1, <1>2, <1>4, <1>5, <1>6, <1>7 DEF Ledger!Note, Ledger!Working
<1> QED
  BY <1>1, <1>8

\* _fail_workflow and the last session conclude a row, completed only after
\* every milestone.
LEMMA EndConcludes ==
    ASSUME IInv, RowIInv, NEW w \in Workers, NEW reply \in {"ok", "lost"}
    PROVE  /\ FailWorkflow(w, reply) =>
                \E i \in Ids : Ledger!Conclude(i, "failed", "workflow_failed")
           /\ Finish(w, reply) =>
                \E i \in Ids : Ledger!Conclude(i, "completed", "workflow_completed")
<1>1. ASSUME FailWorkflow(w, reply)
      PROVE  \E i \in Ids : Ledger!Conclude(i, "failed", "workflow_failed")
  <2>1. pc[w] \in Running
    BY <1>1, RunningCalls DEF FailWorkflow
  <2>2. /\ UNCHANGED <<memories, approvals, Held>>
        /\ status' = [status EXCEPT ![wf[w]] = "failed"]
        /\ logs' = [logs EXCEPT ![wf[w]] = Append(@, "workflow_failed")]
    BY <1>1 DEF FailWorkflow, end_workflow, StoreOnly, Held
  <2> QED
    BY <2>1, <2>2, RunnerHolds DEF Ledger!Conclude, Ledger!Working
<1>2. ASSUME Finish(w, reply)
      PROVE  \E i \in Ids : Ledger!Conclude(i, "completed", "workflow_completed")
  <2>1. /\ pc[w] = "finish" /\ pc[w] \in Running /\ pc[w] \in GoingWell
        /\ wf[w] \in Ids /\ PipelineTypeOK
    BY <1>2, RunningCalls, Runner DEF Finish, IInv, TypeOK
  <2>2. logs[wf[w]] = Ledger!Milestones
    BY <2>1, Runner DEF WorkInStep, Logged, Trail, Ledger!Milestones
  <2>3. /\ UNCHANGED <<memories, approvals>>
        /\ status' = [status EXCEPT ![wf[w]] = "completed"]
        /\ logs' = [logs EXCEPT ![wf[w]] = Append(@, "workflow_completed")]
    BY <1>2 DEF Finish, end_workflow
  <2>4. Held' \in {Held, Held \ {wf[w]}}
    <3>1. CASE wf' = wf
      BY <3>1 DEF Held
    <3>2. CASE wf' = [wf EXCEPT ![w] = NoId]
      <4>1. NoId \notin Ids
        BY DEF NoId, Ids
      <4>2. \A v \in Workers : v # w => wf'[v] = wf[v] /\ wf[v] # wf[w]
        BY <2>1, <3>2, OwnRow
      <4>3. wf'[w] = NoId
        BY <2>1, <3>2 DEF PipelineTypeOK
      <4> QED
        BY <4>1, <4>2, <4>3 DEF Held
    <3> QED
      BY <1>2, <3>1, <3>2 DEF Finish, Return
  <2> QED
    BY <2>1, <2>2, <2>3, <2>4, RunnerHolds DEF Ledger!Conclude, Ledger!Working
<1> QED
  BY <1>1, <1>2

\* The reaper's commit interrupts those of the rows it selected that are still
\* running, whose trail it knows and no worker has; the others stay.
LEMMA BootInterrupts ==
    ASSUME ReapersTakeOrphans, IInv, RowIInv, NEW p \in Procs, proc[p] = "reaping",
           reap(reaped[p], seen[p]), UNCHANGED wf
    PROVE  \E S \in SUBSET Ids : Ledger!Interrupt(S)
<1> DEFINE S == {i \in reaped[p] : status[i] = "running"}
<1>1. S \in SUBSET Ids /\ reaped[p] \in SUBSET Ids
  BY DEF IInv, TypeOK
<1>2. \A i \in S : status[i] = "running" /\ i \notin Held
  BY DEF ReapersTakeOrphans
<1>3. UNCHANGED <<memories, approvals, Held>>
  BY DEF reap, Held
<1>4. \A i \in reaped[p] :
         \/ status[i] = "running" /\ logs[i] = seen[p][i]
         \/ /\ status[i] = "interrupted"
            /\ logs[i] = Append(seen[p][i], "workflow_interrupted_at_startup")
  BY DEF RowIInv, ReapedAsSeen
<1>5. status' = [i \in Ids |-> IF i \in S THEN "interrupted" ELSE status[i]]
  BY <1>1, <1>4 DEF reap
<1>6. logs' = [i \in Ids |->
                 IF i \in S
                 THEN Append(logs[i], "workflow_interrupted_at_startup")
                 ELSE logs[i]]
  BY <1>1, <1>4 DEF reap
<1>7. Ledger!Interrupt(S)
  <2> HIDE DEF S
  <2> QED
    BY <1>2, <1>3, <1>5, <1>6 DEF Ledger!Interrupt
<1> QED
  BY <1>1, <1>7

\* The calls of run_commit_pipeline that write nothing the ledger shows.
LEMMA PipelineLetsGo ==
    ASSUME IInv, NEW w \in Workers, NEW reply,
           \/ AcquireWins(w, reply) \/ AcquireLoses(w) \/ Skip(w) \/ Attach(w, reply)
           \/ LlmReturns(w) \/ CreateTask(w, reply) \/ Index(w, reply)
           \/ Deliver(w, reply) \/ CompleteTask(w, reply) \/ FailTask(w, reply)
           \/ RedisError(w) \/ DbError(w) \/ LlmError(w)
    PROVE  Ledger!LetGo
<1>1. PipelineTypeOK
  BY DEF IInv, TypeOK
<1>2. UNCHANGED <<status, logs, memories, approvals>>
  BY DEF AcquireWins, AcquireLoses, Skip, Attach, LlmReturns, CreateTask, Index, Deliver,
     CompleteTask, FailTask, RedisError, DbError, LlmError, Raise, SetTask, storeVars
<1>3. wf' = wf \/ wf' = [wf EXCEPT ![w] = NoId]
  BY DEF AcquireWins, AcquireLoses, Skip, Return, Attach, LlmReturns, CreateTask, Index,
     Deliver, CompleteTask, FailTask, RedisError, DbError, LlmError, Raise, StoreOnly
<1>4. \A v \in Workers : wf'[v] \in {wf[v], NoId}
  BY <1>1, <1>3 DEF PipelineTypeOK
<1> QED
  BY <1>2, <1>4, LetsGo

\* The rest of the system's steps that write nothing the ledger shows.
LEMMA RestLetsGo ==
    ASSUME IInv,
           \/ \E w \in Workers :
                \/ DemoReturns(w) \/ DemoRaises(w) \/ FailJobError(w) \/ LeaveLoop(w)
                \/ \E reply : FailJob(w, reply)
                \/ \E x \in Jobs : Dequeue(w, x) \/ DequeueLost(w, x)
           \/ \E x \in Jobs : EmitCommit(x) \/ EnqueueManual(x)
           \/ \E p \in Procs : Start(p) \/ Stop(p) \/ ApiFails(p)
           \/ \E p \in Procs, end \in {"lost", "dropped"} : Dies(p, end)
           \/ Tick \/ UNCHANGED allVars
    PROVE  Ledger!LetGo
<1>1. PipelineTypeOK
  BY DEF IInv, TypeOK
<1>2. ASSUME NEW w \in Workers,
             \/ DemoReturns(w) \/ DemoRaises(w) \/ FailJobError(w) \/ LeaveLoop(w)
             \/ \E reply : FailJob(w, reply)
             \/ \E x \in Jobs : Dequeue(w, x) \/ DequeueLost(w, x)
      PROVE  Ledger!LetGo
  <2>1. UNCHANGED <<status, logs, memories, approvals>>
    BY <1>2 DEF DemoReturns, DemoRaises, FailJobError, LeaveLoop, FailJob, Dequeue,
       DequeueLost, storeVars
  <2>2. wf' = wf \/ wf' = [wf EXCEPT ![w] = NoId]
    BY <1>2 DEF DemoReturns, DemoRaises, FailJobError, LeaveLoop, FailJob, Dequeue,
       DequeueLost, Return
  <2>3. \A v \in Workers : wf'[v] \in {wf[v], NoId}
    BY <1>1, <2>2 DEF PipelineTypeOK
  <2> QED
    BY <2>1, <2>3, LetsGo
<1>3. ASSUME NEW p \in Procs, NEW end, Dies(p, end) PROVE Ledger!LetGo
  <2>1. UNCHANGED <<status, logs, memories, approvals>>
    BY <1>3 DEF Dies, storeVars
  <2>2. \A v \in Workers : wf'[v] \in {wf[v], NoId}
    BY <1>3 DEF Dies
  <2> QED
    BY <2>1, <2>2, LetsGo
<1>4. CASE \/ \E x \in Jobs : EmitCommit(x) \/ EnqueueManual(x)
           \/ \E p \in Procs : Start(p) \/ Stop(p) \/ ApiFails(p)
           \/ Tick \/ UNCHANGED allVars
  <2>1. UNCHANGED <<status, logs, memories, approvals, wf>>
    BY <1>4 DEF EmitCommit, EnqueueManual, Send, Start, Stop, ApiFails, Tick, StoreTick,
       allVars, vars, workerVars, storeVars
  <2> QED
    BY <2>1, LetsGo
<1> QED
  BY <1>2, <1>3, <1>4

\* Every step is a step of the ledger.
LEMMA StepMaps ==
    ASSUME ReapersTakeOrphans, IInv, RowIInv, [Next]_allVars
    PROVE  Ledger!Next
<1>1. ASSUME NEW w \in Workers, Pipeline(w) PROVE Ledger!Next
  <2>1. Replies("db") \in SUBSET {"ok", "lost"}
    BY DEF Replies
  <2>2. ASSUME NEW reply \in {"ok", "lost"},
               \/ Insert(w, reply) \/ Save(w, reply) \/ Request(w, reply)
               \/ AppendLog(w, reply) \/ Finish(w, reply) \/ FailWorkflow(w, reply)
        PROVE  Ledger!Next
    BY <2>2, InsertBegins, SaveSavesAskAsks, AppendNotes, EndConcludes DEF Ledger!Next
  <2>3. ASSUME NEW reply,
               \/ AcquireWins(w, reply) \/ AcquireLoses(w) \/ Skip(w)
               \/ Attach(w, reply) \/ LlmReturns(w) \/ CreateTask(w, reply)
               \/ Index(w, reply) \/ Deliver(w, reply) \/ CompleteTask(w, reply)
               \/ FailTask(w, reply) \/ RedisError(w) \/ DbError(w) \/ LlmError(w)
        PROVE  Ledger!Next
    BY <2>3, PipelineLetsGo DEF Ledger!Next
  <2> QED
    BY <1>1, <2>1, <2>2, <2>3 DEF Pipeline
<1>2. ASSUME NEW p \in Procs, Boot(p) \/ BootFails(p) PROVE Ledger!Next
  <2>1. proc[p] = "reaping" /\ UNCHANGED wf
    BY <1>2 DEF Boot, BootFails, workerVars
  <2>2. CASE reap(reaped[p], seen[p])
    BY <2>1, <2>2, BootInterrupts DEF Ledger!Next
  <2>3. CASE UNCHANGED storeVars
    BY <2>1, <2>3, LetsGo DEF Ledger!Next, storeVars
  <2> QED
    BY <1>2, <2>2, <2>3 DEF Boot, BootFails
<1>3. ASSUME NEW p \in Procs, Crash(p) \/ StopRaises(p) \/ Exit(p) PROVE Ledger!Next
  BY <1>3, RestLetsGo DEF Crash, StopRaises, Exit, Ledger!Next
<1>4. CASE \/ \E w \in Workers :
                \/ DemoReturns(w) \/ DemoRaises(w) \/ FailJobError(w) \/ LeaveLoop(w)
                \/ \E reply : FailJob(w, reply)
                \/ \E x \in Jobs : Dequeue(w, x) \/ DequeueLost(w, x)
           \/ \E x \in Jobs : EmitCommit(x) \/ EnqueueManual(x)
           \/ \E p \in Procs : Start(p) \/ Stop(p) \/ ApiFails(p)
           \/ Tick \/ UNCHANGED allVars
  BY <1>4, RestLetsGo DEF Ledger!Next
<1> QED
  BY <1>1, <1>2, <1>3, <1>4 DEF Next, WorkerStep, PipelineStep

\* The ledger is empty before the first start.
LEMMA InitMaps == Init => Ledger!Init
<1> SUFFICES ASSUME Init PROVE Ledger!Init
  OBVIOUS
<1>1. Held = {}
  BY DEF Held, Init, PipelineInit, NoId, Ids
<1> QED
  BY <1>1 DEF Ledger!Init, Init, StoreInit

\* What the ledger's steps do to a row's status.
LEMMA LedgerTransitions ==
    ASSUME status \in [Ids -> RowStatus], Ledger!Next, NEW i \in Ids, status'[i] # status[i]
    PROVE  \/ status[i] = "absent" /\ status'[i] = "running"
           \/ status[i] = "running" /\ status'[i] \in Terminal
<1>1. CASE Ledger!LetGo
  BY <1>1 DEF Ledger!LetGo
<1>2. ASSUME NEW S \in SUBSET Ids, Ledger!Interrupt(S)
      PROVE  status[i] = "running" /\ status'[i] = "interrupted"
  BY <1>2 DEF Ledger!Interrupt
<1>3. ASSUME NEW k \in Ids, Ledger!Begin(k)
      PROVE  status[i] = "absent" /\ status'[i] = "running"
  BY <1>3 DEF Ledger!Begin
<1>4. ASSUME NEW k \in Ids, NEW end, NEW event, Ledger!Conclude(k, end, event)
      PROVE  status[i] = "running" /\ status'[i] = end
  BY <1>4 DEF Ledger!Conclude, Ledger!Working
<1>5. ASSUME NEW k \in Ids, Ledger!Note(k) \/ Ledger!Save(k) \/ Ledger!Ask(k)
      PROVE  FALSE
  BY <1>5 DEF Ledger!Note, Ledger!Save, Ledger!Ask
<1> QED
  BY <1>1, <1>2, <1>3, <1>4, <1>5 DEF Ledger!Next, Terminal

\* A step overwrites no end of a row.
LEMMA StepKeepsEnds ==
    ASSUME ReapersTakeOrphans, IInv, RowIInv, [Next]_allVars
    PROVE  \A i \in Ids : status'[i] # status[i] =>
              \/ status[i] = "absent" /\ status'[i] = "running"
              \/ status[i] = "running" /\ status'[i] \in Terminal
<1>1. status \in [Ids -> RowStatus]
  BY DEF IInv, TypeOK, StoreTypeOK
<1> QED
  BY <1>1, StepMaps, LedgerTransitions

\* As long as reap_orphan_workflows selects no row that a worker has, the rows
\* of any number of processes keep their promises, whatever call fails and
\* whichever process crashes, stops and starts: neither _fail_workflow nor the
\* last session of _run_pipeline_steps nor another reaper, none of which looks
\* at the status it overwrites, overwrites an end, no running task is left
\* behind, a completed workflow has done everything, and rows and audit trails
\* go only through steps of WorkflowLedger.
THEOREM LedgerOfOrphans ==
    Spec /\ []ReapersTakeOrphans =>
        /\ []TerminalIsQuiet /\ []CompletedIsComplete
        /\ ImplementsLedger /\ StatusTransitions
<1>1. RowIInv => TerminalIsQuiet /\ CompletedIsComplete
  BY DEF RowIInv
<1>2. ReapersTakeOrphans /\ IInv /\ RowIInv /\ [Next]_allVars
      => [Ledger!Next]_(Ledger!ledger)
  BY StepMaps
<1>3. ReapersTakeOrphans /\ IInv /\ RowIInv /\ [Next]_allVars
      => [\A i \in Ids : status'[i] # status[i] =>
            \/ status[i] = "absent" /\ status'[i] = "running"
            \/ status[i] = "running" /\ status'[i] \in Terminal]_allVars
  BY StepKeepsEnds
<1> QED
  BY <1>1, <1>2, <1>3, InitMaps, Invariance, RowInvariance, PTL
     DEF Spec, ImplementsLedger, Ledger!Spec, StatusTransitions

-----------------------------------------------------------------------------
(* When reapers take orphans only.                                         *)

\* If there is one process, the workers of all of it are down while it reaps.
LEMMA AloneTakesOrphans ==
    ASSUME OneProcess, IInv
    PROVE  ReapersTakeOrphans
<1> SUFFICES ASSUME NEW p \in Procs, proc[p] = "reaping"
             PROVE  Held = {}
  BY DEF ReapersTakeOrphans
<1>1. \A w \in Workers : Host[w] = p
  BY PipelineAssumption DEF OneProcess
<1>2. \A w \in Workers : wf[w] = NoId
  BY <1>1 DEF IInv, IdleWorkers
<1> QED
  BY <1>2 DEF Held, NoId, Ids

\* A row that comes to be held was not there before.
LEMMA NewlyHeld ==
    ASSUME Ledger!Next, NEW i \in Held'
    PROVE  i \in Held \/ status[i] = "absent"
<1>1. CASE Ledger!LetGo
  BY <1>1 DEF Ledger!LetGo
<1>2. ASSUME NEW S \in SUBSET Ids, Ledger!Interrupt(S) PROVE i \in Held
  BY <1>2 DEF Ledger!Interrupt
<1>3. ASSUME NEW k \in Ids, Ledger!Begin(k) PROVE i \in Held \/ status[i] = "absent"
  BY <1>3 DEF Ledger!Begin
<1>4. ASSUME NEW k \in Ids, NEW end, NEW event, Ledger!Conclude(k, end, event)
      PROVE  i \in Held
  BY <1>4 DEF Ledger!Conclude
<1>5. ASSUME NEW k \in Ids, Ledger!Note(k) \/ Ledger!Save(k) \/ Ledger!Ask(k)
      PROVE  i \in Held
  BY <1>5 DEF Ledger!Note, Ledger!Save, Ledger!Ask
<1> QED
  BY <1>1, <1>2, <1>3, <1>4, <1>5 DEF Ledger!Next

\* A process that reaps after a step has selected its rows before it or in it.
LEMMA WhoReaps ==
    ASSUME IInv, [Next]_allVars, NEW p \in Procs, proc'[p] = "reaping"
    PROVE  \/ proc[p] = "reaping" /\ reaped'[p] = reaped[p]
           \/ Start(p)
<1>0. /\ proc \in [Procs -> {"down", "reaping", "up", "stopping"}]
      /\ reaped \in [Procs -> SUBSET Ids]
  BY DEF IInv, TypeOK, PipelineTypeOK
<1>1. ASSUME NEW w \in Workers, WorkerStep(w) PROVE UNCHANGED <<proc, reaped>>
  <2>1. CASE Pipeline(w) /\ UNCHANGED <<api, reaped, seen>>
    BY <2>1 DEF Pipeline, AcquireWins, AcquireLoses, Skip, Insert, Attach, CreateTask,
       LlmReturns, Save, Index, Request, Deliver, CompleteTask, AppendLog, FailTask,
       FailWorkflow, Finish, RedisError, DbError, LlmError, Raise, StoreOnly
  <2>2. CASE DemoReturns(w) \/ DemoRaises(w) \/ FailJobError(w) \/ LeaveLoop(w)
             \/ \E reply : FailJob(w, reply)
    BY <2>2 DEF DemoReturns, DemoRaises, FailJobError, LeaveLoop, FailJob, procVars
  <2> QED
    BY <1>1, <2>1, <2>2 DEF WorkerStep, PipelineStep
<1>2. CASE \/ \E x \in Jobs : EmitCommit(x) \/ EnqueueManual(x)
           \/ \E w \in Workers, x \in Jobs : Dequeue(w, x) \/ DequeueLost(w, x)
           \/ Tick \/ UNCHANGED allVars
  BY <1>2 DEF EmitCommit, EnqueueManual, Send, Dequeue, DequeueLost, Tick, allVars, vars,
     procVars
<1>3. ASSUME NEW q \in Procs, Start(q)
      PROVE  Start(p) \/ (proc[p] = "reaping" /\ reaped'[p] = reaped[p])
  BY <1>0, <1>3 DEF Start
<1>4. ASSUME NEW q \in Procs, Boot(q) \/ BootFails(q) \/ Stop(q) \/ ApiFails(q)
      PROVE  proc[p] = "reaping" /\ reaped'[p] = reaped[p]
  BY <1>0, <1>4 DEF Boot, BootFails, Stop, ApiFails
<1>5. ASSUME NEW q \in Procs, NEW end, Dies(q, end)
      PROVE  proc[p] = "reaping" /\ reaped'[p] = reaped[p]
  BY <1>0, <1>5 DEF Dies
<1> QED
  BY <1>1, <1>2, <1>3, <1>4, <1>5 DEF Next, Crash, StopRaises, Exit

\* A reaper that selects rows by their age misses those of runs that end in
\* time, and a row it has selected is never given to a worker again.
LEMMA InTimeStep ==
    ASSUME RunsEndInTime, ReapersTakeOrphans, IInv, RowIInv, [Next]_allVars
    PROVE  ReapersTakeOrphans'
<1> SUFFICES ASSUME NEW p \in Procs, proc'[p] = "reaping", NEW i \in reaped'[p],
                    i \in Held'
             PROVE  FALSE
  BY DEF ReapersTakeOrphans
<1>1. CASE proc[p] = "reaping" /\ reaped'[p] = reaped[p]
  BY <1>1, StepMaps, NewlyHeld DEF ReapersTakeOrphans, IInv, ReapedAreRows
<1>2. CASE Start(p)
  <2>1. reaped'[p] = Orphans /\ Held' = Held
    BY <1>2 DEF Start, workerVars, Held, IInv, TypeOK
  <2>2. age[i] > MaxAge /\ age[i] <= MaxAge
    BY <2>1 DEF Orphans, RunsEndInTime
  <2>3. age[i] \in Nat /\ MaxAge \in Nat
    BY <2>1, StoreAssumption DEF Orphans, IInv, TypeOK, StoreTypeOK
  <2> QED
    BY <2>2, <2>3
<1> QED
  BY <1>1, <1>2, WhoReaps

\* One process takes orphans only: reap_orphan_workflows commits before any of
\* its workers start.
THEOREM ReapersTakeOrphansAlone ==
    ASSUME OneProcess
    PROVE  Spec => []ReapersTakeOrphans
<1>1. IInv => ReapersTakeOrphans
  BY AloneTakesOrphans
<1> QED
  BY <1>1, Invariance, PTL

\* Any number of processes take orphans only while no run has its row for longer than
\* orphan_workflow_max_age_seconds: a row a reaper has selected by its age is
\* no worker's then, and no worker's ever after.
THEOREM ReapersTakeOrphansInTime == Spec /\ []RunsEndInTime => []ReapersTakeOrphans
<1>1. RunsEndInTime /\ ReapersTakeOrphans /\ IInv /\ RowIInv /\ [Next]_allVars
      => ReapersTakeOrphans'
  BY InTimeStep
<1>2. ReapersTakeOrphans /\ IInv /\ VectorIInv /\ RowIInv /\ [Next]_allVars => RowIInv'
  BY NextRows
<1>3. Init => ReapersTakeOrphans
  BY DEF Init, PipelineInit, ReapersTakeOrphans
<1> QED
  BY <1>1, <1>2, <1>3, InitRows, Invariance, VectorInvariance, PTL DEF Spec

\* So the rows keep their promises while every run ends in time, however many
\* processes reap one another's rows.
THEOREM LedgerInTime ==
    Spec /\ []RunsEndInTime =>
        /\ []TerminalIsQuiet /\ []CompletedIsComplete
        /\ ImplementsLedger /\ StatusTransitions
BY ReapersTakeOrphansInTime, LedgerOfOrphans, PTL

\* TerminalIsQuiet, for one process: the steps of run_commit_pipeline, their
\* except blocks and reap_orphan_workflows never leave a running task behind.
THEOREM TerminalIsQuietHolds ==
    ASSUME OneProcess
    PROVE  Spec => []TerminalIsQuiet
BY ReapersTakeOrphansAlone, LedgerOfOrphans, PTL

\* CompletedIsComplete, for one process: a workflow run_commit_pipeline marks
\* completed has done everything, whichever call failed before.
THEOREM CompletedIsCompleteHolds ==
    ASSUME OneProcess
    PROVE  Spec => []CompletedIsComplete
BY ReapersTakeOrphansAlone, LedgerOfOrphans, PTL

\* ImplementsLedger, for one process: whatever call of run_commit_pipeline
\* fails, and whenever the process stops or crashes and reaps, the rows and
\* their audit trails go only through steps of WorkflowLedger.
THEOREM ImplementsLedgerHolds ==
    ASSUME OneProcess
    PROVE  Spec => ImplementsLedger
BY ReapersTakeOrphansAlone, LedgerOfOrphans, PTL

\* StatusTransitions, for one process: no end of a row is ever overwritten,
\* though nothing that writes a status looks at the one it overwrites.
THEOREM StatusTransitionsHolds ==
    ASSUME OneProcess
    PROVE  Spec => StatusTransitions
BY ReapersTakeOrphansAlone, LedgerOfOrphans, PTL
=============================================================================
