----------------------------- MODULE DemoForge ------------------------------
(***************************************************************************)
(* run_demo_forge_request (workflows/demo_forge.py), the handler of        *)
(* demo_request jobs: each run drives demo-forge's make targets, which     *)
(* write into one directory per scenario, then reads the directory back    *)
(* and asks for approval.  Nothing claims a scenario, so the workers of an *)
(* orchestrator may run it at the same time.  A make that is killed at its *)
(* timeout, or whose orchestrator crashes, leaves children that write on.  *)
(*                                                                         *)
(* Except where make reports a failure there is no except block: an        *)
(* exception leaves the handler at once and the row as it is.              *)
(***************************************************************************)
EXTENDS Naturals

CONSTANTS
    Runs,         \* the demo_request jobs, each run once
    Scenarios,    \* VALID_SCENARIOS
    ScenarioOf,   \* ScenarioOf[r]: payload.scenario, perhaps not a valid one
    SkipRender,   \* the runs with payload.skip_render
    NoRun,        \* no run: the owner of a file that is not there
    Faults        \* "make", "db": the calls that may fail; "crash"

ASSUME ForgeAssumption ==
    /\ NoRun \notin Runs
    /\ SkipRender \in SUBSET Runs
    /\ DOMAIN ScenarioOf = Runs
    /\ Faults \in SUBSET {"make", "db", "crash"}

\* check_tools, capture, render_mp4, manifest, approve
Steps == 1..5
Files == {"cast", "mp4"}

VARIABLES
    pc,         \* pc[r]: the await run r is at
    step,       \* step[r]: the task it is in
    status,     \* status[r]: the status of its Workflow row
    task,       \* task[r][n]: the status of its n-th Task row
    out,        \* out[s][f]: the run that wrote file f of outputs/DEMO_s
    manifest,   \* manifest[r]: the runs whose files its manifest hashes
    memories,   \* the runs with a demo_forge_manifest row
    approvals,  \* the runs with an Approval row
    delivered,  \* those whose delivered_via is recorded
    strays,     \* <<run, file>>: the children left behind that still write
    up,         \* the orchestrator is up
    shared      \* history: scenarios two runs, or strays, worked on at once

forgeVars == <<pc, step, status, task, out, manifest, memories, approvals,
               delivered, strays, up, shared>>
rowVars == <<out, manifest, memories, approvals, delivered, strays, up, shared>>

DbCalls == {"insert", "create", "complete", "fail_task", "fail_workflow",
            "save", "request", "deliver", "finish"}
InRun == DbCalls \cup {"make", "making", "manifest"}

Statuses == {"absent", "running", "completed", "failed", "interrupted"}

ForgeTypeOK ==
    /\ pc \in [Runs -> {"queued", "done", "raised", "lost"} \cup InRun]
    /\ step \in [Runs -> Steps]
    /\ status \in [Runs -> Statuses]
    /\ task \in [Runs -> [Steps -> Statuses]]
    /\ out \in [Scenarios -> [Files -> Runs \cup {NoRun}]]
    /\ manifest \in [Runs -> SUBSET Runs]
    /\ memories \in SUBSET Runs
    /\ approvals \in SUBSET Runs
    /\ delivered \in SUBSET Runs
    /\ strays \in SUBSET (Runs \X Files)
    /\ up \in BOOLEAN
    /\ shared \in SUBSET Scenarios

Empty == [f \in Files |-> NoRun]

Init ==
    /\ pc = [r \in Runs |-> "queued"]
    /\ step = [r \in Runs |-> 1]
    /\ status = [r \in Runs |-> "absent"]
    /\ task = [r \in Runs |-> [n \in Steps |-> "absent"]]
    /\ out = [s \in Scenarios |-> Empty]
    /\ manifest = [r \in Runs |-> {}]
    /\ memories = {}
    /\ approvals = {}
    /\ delivered = {}
    /\ strays = {}
    /\ up = TRUE
    /\ shared = {}

At(r, call) == pc[r] = call
Goto(r, next) == pc' = [pc EXCEPT ![r] = next]
SetTask(r, s) == task' = [task EXCEPT ![r][step[r]] = s]

\* A commit whose reply is lost raises as well.
Replies == IF "db" \in Faults THEN {"ok", "lost"} ELSE {"ok"}
After(reply, next) == IF reply = "ok" THEN next ELSE "raised"

-----------------------------------------------------------------------------
\* The runs with children left behind.
Left == {x[1] : x \in strays}

\* The job is taken by a worker: a payload or a directory that will not do
\* raises before there is a row.
Begin(r) ==
    /\ up
    /\ At(r, "queued")
    /\ \/ ScenarioOf[r] \in Scenarios /\ Goto(r, "insert")
       \/ /\ ScenarioOf[r] \notin Scenarios \/ "make" \in Faults
          /\ Goto(r, "raised")
    /\ shared' = IF \E q \in Runs : /\ ScenarioOf[q] = ScenarioOf[r]
                                   /\ (pc[q] \in InRun \/ q \in Left)
                 THEN shared \cup ({ScenarioOf[r]} \cap Scenarios) ELSE shared
    /\ UNCHANGED <<step, status, task, out, manifest, memories, approvals,
                   delivered, strays, up>>

\* INSERT of the Workflow row.
Insert(r, reply) ==
    /\ At(r, "insert")
    /\ status' = [status EXCEPT ![r] = "running"]
    /\ Goto(r, After(reply, "create"))
    /\ UNCHANGED <<step, task>> /\ UNCHANGED rowVars

\* _create_task.
CreateTask(r, reply) ==
    /\ At(r, "create")
    /\ SetTask(r, "running")
    /\ Goto(r, After(reply, IF step[r] <= 3 THEN "make"
                            ELSE IF step[r] = 4 THEN "manifest" ELSE "request"))
    /\ UNCHANGED <<step, status>> /\ UNCHANGED rowVars

\* _run starts `make`: demo-NNN first wipes the scenario's outputs.
Make(r) ==
    /\ At(r, "make")
    /\ out' = IF step[r] = 2 THEN [out EXCEPT ![ScenarioOf[r]] = Empty] ELSE out
    /\ Goto(r, "making")
    /\ UNCHANGED <<step, status, task, manifest, memories, approvals,
                   delivered, strays, up, shared>>

\* The file that the make of run r's step writes, if it writes one.
Targets(r) == IF step[r] = 2 THEN {"cast"} ELSE IF step[r] = 3 THEN {"mp4"} ELSE {}

\* Run r, or a child of it, has written these files.
Written(r, files) ==
    out' = [out EXCEPT ![ScenarioOf[r]] =
              [f \in Files |-> IF f \in files THEN r ELSE @[f]]]

\* make returns 0: it wrote its file.
MakeOk(r) ==
    /\ At(r, "making")
    /\ Written(r, Targets(r))
    /\ Goto(r, "complete")
    /\ UNCHANGED <<step, status, task, manifest, memories, approvals,
                   delivered, strays, up, shared>>

\* make returns something else, and may have begun to write.
MakeFails(r) ==
    /\ "make" \in Faults
    /\ At(r, "making")
    /\ \E files \in SUBSET Targets(r) : Written(r, files)
    /\ Goto(r, "fail_task")
    /\ UNCHANGED <<step, status, task, manifest, memories, approvals,
                   delivered, strays, up, shared>>

\* _run kills make at its timeout, and none of its children.
MakeTimesOut(r) ==
    /\ "make" \in Faults
    /\ At(r, "making")
    /\ strays' = strays \cup ({r} \X Targets(r))
    /\ Goto(r, "fail_task")
    /\ UNCHANGED <<step, status, task, out, manifest, memories, approvals,
                   delivered, up, shared>>

\* A child left behind ends, with or without having written.
StrayEnds(r, f) ==
    /\ <<r, f>> \in strays
    /\ \E files \in SUBSET {f} : Written(r, files)
    /\ strays' = strays \ {<<r, f>>}
    /\ UNCHANGED <<pc, step, status, task, manifest, memories, approvals,
                   delivered, up, shared>>

\* Faulty variant: what is no file is hashed as well.
OwnersAndGaps(s) == {out[s][f] : f \in Files}

\* The runs that own a file of the scenario's directory.
Owners(s) == {out[s][f] : f \in Files} \ {NoRun}

\* _build_manifest reads the directory.
BuildManifest(r) ==
    /\ At(r, "manifest")
    /\ manifest' = [manifest EXCEPT ![r] = Owners(ScenarioOf[r])]
    /\ Goto(r, "complete")
    /\ UNCHANGED <<step, status, task, out, memories, approvals, delivered,
                   strays, up, shared>>

\* The directory is not there: wiped, and not written again yet.
ManifestMissing(r) ==
    /\ At(r, "manifest")
    /\ Owners(ScenarioOf[r]) = {}
    /\ Goto(r, "fail_task")
    /\ UNCHANGED <<step, status, task>> /\ UNCHANGED rowVars

\* A file disappears between iterdir and read_bytes: no except block.
ManifestRaises(r) ==
    /\ At(r, "manifest")
    /\ \E q \in Runs \ {r} : At(q, "making") /\ step[q] = 2
                             /\ ScenarioOf[q] = ScenarioOf[r]
    /\ Goto(r, "raised")
    /\ UNCHANGED <<step, status, task>> /\ UNCHANGED rowVars

\* The step that follows step n of run r.
NextStep(r, n) == IF n = 2 /\ r \in SkipRender THEN 4 ELSE n + 1

\* _complete_task.
CompleteTask(r, reply) ==
    /\ At(r, "complete")
    /\ SetTask(r, "completed")
    /\ Goto(r, After(reply, IF step[r] = 5 THEN "finish"
                            ELSE IF step[r] = 4 THEN "save" ELSE "create"))
    /\ step' = IF reply = "ok" /\ step[r] < 4
               THEN [step EXCEPT ![r] = NextStep(r, @)] ELSE step
    /\ UNCHANGED status /\ UNCHANGED rowVars

\* Faulty variants: the run also goes on without a capture; the task of a
\* failed make is left as it is.
FailTaskGoesOn(r, reply) ==
    /\ At(r, "fail_task")
    /\ SetTask(r, "failed")
    /\ Goto(r, After(reply, IF step[r] \in 2..3 THEN "create" ELSE "fail_workflow"))
    /\ step' = IF reply = "ok" /\ step[r] \in 2..3 THEN [step EXCEPT ![r] = 4] ELSE step
    /\ UNCHANGED status /\ UNCHANGED rowVars
FailTaskLeft(r, reply) ==
    /\ At(r, "fail_task")
    /\ Goto(r, After(reply, IF step[r] = 3 THEN "create" ELSE "fail_workflow"))
    /\ step' = IF reply = "ok" /\ step[r] = 3 THEN [step EXCEPT ![r] = 4] ELSE step
    /\ UNCHANGED <<status, task>> /\ UNCHANGED rowVars

\* _fail_task; without an MP4 the run goes on.
FailTask(r, reply) ==
    /\ At(r, "fail_task")
    /\ SetTask(r, "failed")
    /\ Goto(r, After(reply, IF step[r] = 3 THEN "create" ELSE "fail_workflow"))
    /\ step' = IF reply = "ok" /\ step[r] = 3 THEN [step EXCEPT ![r] = 4] ELSE step
    /\ UNCHANGED status /\ UNCHANGED rowVars

\* _fail_workflow, and the raise after it.
FailWorkflow(r) ==
    /\ At(r, "fail_workflow")
    /\ status' = [status EXCEPT ![r] = "failed"]
    /\ Goto(r, "raised")
    /\ UNCHANGED <<step, task>> /\ UNCHANGED rowVars

\* INSERT of the manifest's Memory row.
Save(r, reply) ==
    /\ At(r, "save")
    /\ memories' = memories \cup {r}
    /\ Goto(r, After(reply, "create"))
    /\ step' = IF reply = "ok" THEN [step EXCEPT ![r] = 5] ELSE step
    /\ UNCHANGED <<status, task, out, manifest, approvals, delivered,
                   strays, up, shared>>

\* ApprovalGateway.send: the row, then delivered_via.
Request(r, reply) ==
    /\ At(r, "request")
    /\ approvals' = approvals \cup {r}
    /\ Goto(r, After(reply, "deliver"))
    /\ UNCHANGED <<step, status, task, out, manifest, memories, delivered,
                   strays, up, shared>>

Deliver(r, reply) ==
    /\ At(r, "deliver")
    /\ delivered' = delivered \cup {r}
    /\ Goto(r, After(reply, "complete"))
    /\ UNCHANGED <<step, status, task, out, manifest, memories, approvals,
                   strays, up, shared>>

\* The last session.
Finish(r, reply) ==
    /\ At(r, "finish")
    /\ status' = [status EXCEPT ![r] = "completed"]
    /\ Goto(r, After(reply, "done"))
    /\ UNCHANGED <<step, task>> /\ UNCHANGED rowVars

\* A session raises without effect.
DbError(r) ==
    /\ "db" \in Faults
    /\ pc[r] \in DbCalls
    /\ Goto(r, "raised")
    /\ UNCHANGED <<step, status, task>> /\ UNCHANGED rowVars

\* The orchestrator crashes; the makes it ran go on.
Crash ==
    /\ "crash" \in Faults
    /\ up
    /\ up' = FALSE
    /\ pc' = [r \in Runs |-> IF pc[r] \in InRun THEN "lost" ELSE pc[r]]
    /\ strays' = strays \cup UNION {{r} \X Targets(r) : r \in {q \in Runs : At(q, "making")}}
    /\ UNCHANGED <<step, status, task, out, manifest, memories, approvals,
                   delivered, shared>>

\* Faulty variant: rows that are finished are taken for orphans.
OrphansOfAnyStatus == {r \in Runs : status[r] # "absent"}

Orphans == {r \in Runs : status[r] = "running"}

\* The orchestrator starts and reaps the orphans that are old enough.
Restart ==
    /\ ~up
    /\ up' = TRUE
    /\ \E old \in SUBSET Orphans :
         /\ status' = [r \in Runs |-> IF r \in old THEN "interrupted" ELSE status[r]]
         /\ task' = [r \in Runs |-> [n \in Steps |->
                      IF r \in old /\ task[r][n] = "running" THEN "interrupted"
                      ELSE task[r][n]]]
    /\ UNCHANGED <<pc, step, out, manifest, memories, approvals, delivered,
                   strays, shared>>

RunStep(r) ==
    \/ Begin(r) \/ Make(r) \/ MakeOk(r) \/ MakeFails(r) \/ MakeTimesOut(r)
    \/ BuildManifest(r) \/ ManifestMissing(r) \/ ManifestRaises(r)
    \/ FailWorkflow(r) \/ DbError(r)
    \/ \E reply \in Replies :
         \/ Insert(r, reply) \/ CreateTask(r, reply) \/ CompleteTask(r, reply)
         \/ FailTask(r, reply) \/ Save(r, reply) \/ Request(r, reply)
         \/ Deliver(r, reply) \/ Finish(r, reply)

Next ==
    \/ \E r \in Runs : RunStep(r) \/ \E f \in Files : StrayEnds(r, f)
    \/ Crash \/ Restart

Spec == Init /\ [][Next]_forgeVars

-----------------------------------------------------------------------------
\* A run that shared its scenario with no other, nor with the children a killed
\* make or a crash left behind, hashes its own files only: what an earlier run
\* left, or failed to make, is not in its manifest.
ManifestIsOwn ==
    \A r \in Runs :
        task[r][4] = "completed" /\ ScenarioOf[r] \notin shared => manifest[r] = {r}

\* A row _run_steps marks completed has every task its payload asks for
\* completed, the MP4 excepted, its manifest saved and its card delivered.
CompletedDemoIsComplete ==
    \A r \in Runs : status[r] = "completed" =>
        /\ \A n \in Steps \ {3} : task[r][n] = "completed"
        /\ task[r][3] = "absent" <=> r \in SkipRender
        /\ r \in memories \cap approvals \cap delivered

\* A row marked failed has one failed task besides the MP4 and none that still
\* shows as running, asked nobody for approval, and its job is raised on or
\* lost; one the reaper closed has no running task and nobody working on it.
FailedDemoIsClosed ==
    \A r \in Runs :
        /\ status[r] \in {"failed", "interrupted"} =>
             /\ \A n \in Steps : task[r][n] # "running"
             /\ pc[r] \in {"raised", "lost"}
        /\ status[r] = "failed" =>
             /\ \E n \in Steps \ {3} : task[r][n] = "failed"
             /\ r \notin memories \cup approvals

\* A row is closed once: a restart, a lost commit reply or a killed make never
\* gives a completed, failed or interrupted row another status.
ClosedStaysClosed ==
    [][\A r \in Runs : status[r] \in {"completed", "failed", "interrupted"}
         => status'[r] = status[r]]_forgeVars

-----------------------------------------------------------------------------
(* The inductive invariants behind them: what a run's row, tasks and       *)
(* records are at each await; then what is in its directory.               *)

\* The row and the tasks of a run that is under way.
RowInStep(r) ==
    /\ status[r] = "running"
    /\ \A m \in Steps : /\ m > step[r] => task[r][m] = "absent"
                        /\ m < step[r] /\ m # 3 => task[r][m] = "completed"
    /\ step[r] = 3 => r \notin SkipRender
    /\ step[r] > 3 => IF r \in SkipRender THEN task[r][3] = "absent"
                      ELSE task[r][3] \in {"completed", "failed"}
    /\ pc[r] = "create" => task[r][step[r]] = "absent"
    /\ pc[r] \in {"save", "finish"} => task[r][step[r]] = "completed"
    /\ pc[r] = "fail_workflow" => task[r][step[r]] = "failed"
    /\ pc[r] \in {"make", "making", "manifest", "request", "deliver", "complete",
                  "fail_task"} => task[r][step[r]] = "running"
    /\ pc[r] \in {"make", "making"} => step[r] <= 3
    /\ pc[r] \in {"manifest", "save"} => step[r] = 4
    /\ pc[r] \in {"request", "deliver", "finish"} => step[r] = 5
    /\ pc[r] = "fail_task" => step[r] <= 4
    /\ pc[r] = "fail_workflow" => step[r] \in {1, 2, 4}
    /\ r \in memories <=> step[r] = 5
    /\ r \in approvals <=> step[r] = 5 /\ pc[r] \in {"deliver", "complete", "finish"}
    /\ r \in delivered <=> step[r] = 5 /\ pc[r] \in {"complete", "finish"}

Untouched(r) ==
    /\ status[r] = "absent" /\ step[r] = 1
    /\ \A n \in Steps : task[r][n] = "absent"
    /\ r \notin memories \cup approvals \cup delivered

RunOK(r) ==
    /\ pc[r] \in {"queued", "insert"} => Untouched(r)
    /\ pc[r] \in InRun \ {"insert"} => RowInStep(r)
    /\ pc[r] \in InRun => up
    /\ pc[r] \in InRun \/ r \in Left => ScenarioOf[r] \in Scenarios
    /\ status[r] = "completed" => pc[r] \in {"done", "raised"}
    /\ pc[r] = "done" => status[r] = "completed"

RowIInv ==
    /\ ForgeTypeOK /\ CompletedDemoIsComplete /\ FailedDemoIsClosed
    /\ \A r \in Runs : RunOK(r)

\* The directory of a run that has it to itself.
DirectoryOK(r) ==
    pc[r] \in InRun /\ ScenarioOf[r] \notin shared =>
         /\ \A q \in Runs \ {r} : ScenarioOf[q] = ScenarioOf[r] => pc[q] \notin InRun /\ q \notin Left
         /\ \/ step[r] > 2
            \/ step[r] = 2 /\ pc[r] \in {"making", "complete", "fail_task", "fail_workflow"}
            => \A f \in Files : out[ScenarioOf[r]][f] \in {r, NoRun}
         /\ step[r] > 2 \/ (step[r] = 2 /\ pc[r] = "complete") => out[ScenarioOf[r]]["cast"] = r

ManifestOK(r) ==
    (task[r][4] = "completed" \/ (step[r] = 4 /\ pc[r] = "complete"))
        /\ ScenarioOf[r] \notin shared => manifest[r] = {r}

ForgeIInv == RowIInv /\ \A r \in Runs : DirectoryOK(r) /\ ManifestOK(r)
=============================================================================
