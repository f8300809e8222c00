------------------------- MODULE DemoForgeProofs --------------------------
(***************************************************************************)
(* What holds of every number of demo runs, scenarios and faults.          *)
(***************************************************************************)
EXTENDS DemoForge, TLAPS

USE ForgeAssumption DEF Steps, Files, DbCalls, InRun, Statuses

\* What a write does to the directories.
LEMMA WrittenWhere ==
  ASSUME ForgeTypeOK, NEW r \in Runs, ScenarioOf[r] \in Scenarios,
         NEW files, Written(r, files)
  PROVE  /\ out' \in [Scenarios -> [Files -> Runs \cup {NoRun}]]
         /\ \A s \in Scenarios : \A f \in Files :
              out'[s][f] = IF s = ScenarioOf[r] /\ f \in files THEN r ELSE out[s][f]
         /\ \A s \in Scenarios \ {ScenarioOf[r]} : out'[s] = out[s]
BY DEF ForgeTypeOK, Written

\* The children a crash leaves behind are those of a make that ran.
LEMMA CrashLeaves ==
  ASSUME ForgeTypeOK, Crash
  PROVE  /\ strays' \in SUBSET (Runs \X Files)
         /\ \A q \in Left' : q \in Left \/ (q \in Runs /\ At(q, "making"))
<1>1. \A x \in strays' : x \in strays \/ \E q \in Runs : At(q, "making") /\ x \in {q} \X Targets(q)
  BY DEF Crash
<1>2. \A q \in Runs : Targets(q) \subseteq Files
  BY DEF Targets
<1>3. strays \in SUBSET (Runs \X Files)
  BY DEF ForgeTypeOK
<1>4. \A x \in strays' : x \in Runs \X Files
  BY <1>1, <1>2, <1>3
<1>5. \A x \in strays' : x[1] \in Left \/ (x[1] \in Runs /\ At(x[1], "making"))
  BY <1>1, <1>2 DEF Left
<1> QED BY <1>4, <1>5 DEF Left

\* Every step keeps the types.
LEMMA Typing == RowIInv /\ [Next]_forgeVars => ForgeTypeOK'
<1> SUFFICES ASSUME RowIInv, [Next]_forgeVars PROVE ForgeTypeOK'
  OBVIOUS
<1>a. /\ ForgeTypeOK
      /\ \A r \in Runs : pc[r] \in InRun \/ r \in Left => ScenarioOf[r] \in Scenarios
  BY DEF RowIInv, RunOK
<1> USE <1>a
<1> USE DEF ForgeTypeOK, At, Goto, SetTask, After, rowVars, NextStep
<1>1. CASE UNCHANGED forgeVars BY <1>1 DEF forgeVars
<1>2. ASSUME NEW r \in Runs, RunStep(r) PROVE ForgeTypeOK'
  <2>1. CASE Begin(r)
    <3>1. shared' \in SUBSET Scenarios BY <2>1 DEF Begin
    <3> QED BY <2>1, <3>1 DEF Begin
  <2>2. CASE Make(r) BY <2>2 DEF Make, Empty
  <2>3. CASE MakeOk(r) BY <2>3, WrittenWhere DEF MakeOk
  <2>4. CASE MakeFails(r) BY <2>4, WrittenWhere DEF MakeFails
  <2>5. CASE MakeTimesOut(r) BY <2>5 DEF MakeTimesOut, Targets
  <2>6. CASE BuildManifest(r) BY <2>6 DEF BuildManifest, Owners
  <2>7. CASE ManifestMissing(r) BY <2>7 DEF ManifestMissing
  <2>8. CASE ManifestRaises(r) BY <2>8 DEF ManifestRaises
  <2>9. CASE FailWorkflow(r) BY <2>9 DEF FailWorkflow
  <2>10. CASE DbError(r) BY <2>10 DEF DbError
  <2>11. ASSUME NEW reply \in Replies, Insert(r, reply) PROVE ForgeTypeOK'
    BY <2>11 DEF Insert
  <2>12. ASSUME NEW reply \in Replies, CreateTask(r, reply) PROVE ForgeTypeOK'
    BY <2>12 DEF CreateTask
  <2>13. ASSUME NEW reply \in Replies, CompleteTask(r, reply) PROVE ForgeTypeOK'
    BY <2>13 DEF CompleteTask
  <2>14. ASSUME NEW reply \in Replies, FailTask(r, reply) PROVE ForgeTypeOK'
    BY <2>14 DEF FailTask
  <2>15. ASSUME NEW reply \in Replies, Save(r, reply) PROVE ForgeTypeOK'
    BY <2>15 DEF Save
  <2>16. ASSUME NEW reply \in Replies, Request(r, reply) PROVE ForgeTypeOK'
    BY <2>16 DEF Request
  <2>17. ASSUME NEW reply \in Replies, Deliver(r, reply) PROVE ForgeTypeOK'
    BY <2>17 DEF Deliver
  <2>18. ASSUME NEW reply \in Replies, Finish(r, reply) PROVE ForgeTypeOK'
    BY <2>18 DEF Finish
  <2> QED BY <1>2, <2>1, <2>2, <2>3, <2>4, <2>5, <2>6, <2>7, <2>8, <2>9, <2>10, <2>11,
             <2>12, <2>13, <2>14, <2>15, <2>16, <2>17, <2>18 DEF RunStep
<1>3. ASSUME NEW r \in Runs, NEW f \in Files, StrayEnds(r, f) PROVE ForgeTypeOK'
  BY <1>3, WrittenWhere DEF StrayEnds, Left
<1>4. CASE Crash BY <1>4, CrashLeaves DEF Crash
<1>5. CASE Restart BY <1>5 DEF Restart, Orphans
<1> QED BY <1>1, <1>2, <1>3, <1>4, <1>5 DEF Next
-----------------------------------------------------------------------------
(* The rows: a step changes those of one run, and keeps what they are at   *)
(* its next await.                                                         *)

Row(r) ==
    /\ RunOK(r)
    /\ status[r] = "completed" =>
         /\ \A n \in Steps \ {3} : task[r][n] = "completed"
         /\ task[r][3] = "absent" <=> r \in SkipRender
         /\ r \in memories \cap approvals \cap delivered
    /\ status[r] \in {"failed", "interrupted"} =>
         /\ \A n \in Steps : task[r][n] # "running"
         /\ pc[r] \in {"raised", "lost"}
    /\ status[r] = "failed" =>
         /\ \E n \in Steps \ {3} : task[r][n] = "failed"
         /\ r \notin memories \cup approvals

\* A step leaves run q's rows alone.
Same(q) ==
    /\ pc'[q] = pc[q] /\ step'[q] = step[q] /\ status'[q] = status[q] /\ task'[q] = task[q]
    /\ q \in memories' <=> q \in memories
    /\ q \in approvals' <=> q \in approvals
    /\ q \in delivered' <=> q \in delivered
    /\ q \in Left' => q \in Left
    /\ pc[q] \in InRun => (up' <=> up)

LEMMA RowWise == RowIInv <=> ForgeTypeOK /\ \A r \in Runs : Row(r)
BY DEF RowIInv, Row, CompletedDemoIsComplete, FailedDemoIsClosed

LEMMA SameRow ==
  ASSUME NEW q \in Runs, Row(q), Same(q)
  PROVE  Row(q)'
BY DEF Row, Same, RunOK, Untouched, RowInStep

\* So only the run that takes a step has to be looked at.
LEMMA OneRow ==
  ASSUME RowIInv, ForgeTypeOK', NEW r \in Runs, \A q \in Runs \ {r} : Same(q), Row(r)'
  PROVE  RowIInv'
<1>1. \A q \in Runs : Row(q)'
  BY RowWise, SameRow
<1> QED BY <1>1 DEF RowIInv, Row, CompletedDemoIsComplete, FailedDemoIsClosed

\* make fails or runs out of time: the run goes to its except block with its
\* rows as they are.
LEMMA MakeGivesUp ==
  ASSUME ForgeTypeOK, NEW r \in Runs, Row(r),
         pc[r] = "making", pc' = [pc EXCEPT ![r] = "fail_task"],
         UNCHANGED <<step, status, task, memories, approvals, delivered, up>>
  PROVE  Row(r)'
<1>1. /\ pc[r] \in InRun /\ pc[r] # "insert" /\ pc'[r] = "fail_task"
      /\ RowInStep(r) /\ up /\ ScenarioOf[r] \in Scenarios
  BY DEF ForgeTypeOK, Row, RunOK, InRun, DbCalls
<1>2. RowInStep(r)'
  <2>1. step[r] \in 1..3 /\ task[r][step[r]] = "running"
    BY <1>1 DEF RowInStep, ForgeTypeOK, Steps
  <2> QED
    BY <1>1, <2>1 DEF RowInStep
<1>3. RunOK(r)'
  BY <1>1, <1>2 DEF Row, RunOK, RowInStep
<1> QED
  BY <1>1, <1>3 DEF Row, RowInStep

LEMMA RowStep == RowIInv /\ [Next]_forgeVars => RowIInv'
<1> SUFFICES ASSUME RowIInv, [Next]_forgeVars PROVE RowIInv'
  OBVIOUS
<1>a. ForgeTypeOK /\ ForgeTypeOK' /\ \A r \in Runs : Row(r)
  BY RowWise, Typing
<1> USE <1>a DEF ForgeTypeOK
<1> USE DEF At, Goto, SetTask, After, rowVars, NextStep, Same, Left
<1>1. CASE UNCHANGED forgeVars
  BY <1>1, SameRow, RowWise DEF forgeVars, RowIInv, Row, CompletedDemoIsComplete, FailedDemoIsClosed
<1>2. ASSUME NEW r \in Runs, RunStep(r) PROVE RowIInv'
  <2> USE DEF Row, RunOK, Untouched, RowInStep
  <2>1. CASE Begin(r)
    <3>1. \A q \in Runs \ {r} : Same(q) BY <2>1 DEF Begin
    <3>2. Row(r)' BY <2>1 DEF Begin
    <3> QED BY <3>1, <3>2, OneRow
  <2>2. CASE Make(r)
    <3>1. \A q \in Runs \ {r} : Same(q) BY <2>2 DEF Make
    <3>2. Row(r)' BY <2>2 DEF Make
    <3> QED BY <3>1, <3>2, OneRow
  <2>3. CASE MakeOk(r)
    <3>1. \A q \in Runs \ {r} : Same(q) BY <2>3 DEF MakeOk
    <3>2. Row(r)' BY <2>3 DEF MakeOk
    <3> QED BY <3>1, <3>2, OneRow
  <2>4. CASE MakeFails(r)
    <3>1. \A q \in Runs \ {r} : Same(q) BY <2>4 DEF MakeFails
    <3>2. /\ pc[r] = "making" /\ pc' = [pc EXCEPT ![r] = "fail_task"]
          /\ UNCHANGED <<step, status, task, memories, approvals, delivered, up>>
      BY <2>4 DEF MakeFails
    <3>3. Row(r)'
      <4> HIDE DEF Row, ForgeTypeOK
      <4> QED BY <1>a, <3>2, MakeGivesUp
    <3> QED BY <3>1, <3>3, OneRow
  <2>5. CASE MakeTimesOut(r)
    <3>1. \A q \in Runs \ {r} : Same(q) BY <2>5 DEF MakeTimesOut, Targets
    <3>2. /\ pc[r] = "making" /\ pc' = [pc EXCEPT ![r] = "fail_task"]
          /\ UNCHANGED <<step, status, task, memories, approvals, delivered, up>>
      BY <2>5 DEF MakeTimesOut
    <3>3. Row(r)'
      <4> HIDE DEF Row, ForgeTypeOK
      <4> QED BY <1>a, <3>2, MakeGivesUp
    <3> QED BY <3>1, <3>3, OneRow
  <2>6. CASE BuildManifest(r)
    <3>1. \A q \in Runs \ {r} : Same(q) BY <2>6 DEF BuildManifest
    <3>2. Row(r)' BY <2>6 DEF BuildManifest
    <3> QED BY <3>1, <3>2, OneRow
  <2>7. CASE ManifestMissing(r)
    <3>1. \A q \in Runs \ {r} : Same(q) BY <2>7 DEF ManifestMissing
    <3>2. Row(r)' BY <2>7 DEF ManifestMissing
    <3> QED BY <3>1, <3>2, OneRow
  <2>8. CASE ManifestRaises(r)
    <3>1. \A q \in Runs \ {r} : Same(q) BY <2>8 DEF ManifestRaises
    <3>2. Row(r)' BY <2>8 DEF ManifestRaises
    <3> QED BY <3>1, <3>2, OneRow
  <2>9. CASE FailWorkflow(r)
    <3>1. \A q \in Runs \ {r} : Same(q) BY <2>9 DEF FailWorkflow
    <3>2. Row(r)' BY <2>9 DEF FailWorkflow
    <3> QED BY <3>1, <3>2, OneRow
  <2>10. CASE DbError(r)
    <3>1. \A q \in Runs \ {r} : Same(q) BY <2>10 DEF DbError
    <3>2. Row(r)' BY <2>10 DEF DbError
    <3> QED BY <3>1, <3>2, OneRow
  <2>11. ASSUME NEW reply \in Replies, Insert(r, reply) PROVE RowIInv'
    <3>1. \A q \in Runs \ {r} : Same(q) BY <2>11 DEF Insert
    <3>2. Row(r)' BY <2>11 DEF Insert
    <3> QED BY <3>1, <3>2, OneRow
  <2>12. ASSUME NEW reply \in Replies, CreateTask(r, reply) PROVE RowIInv'
    <3>1. \A q \in Runs \ {r} : Same(q) BY <2>12 DEF CreateTask
    <3>2. Row(r)' BY <2>12 DEF CreateTask
    <3> QED BY <3>1, <3>2, OneRow
  <2>13. ASSUME NEW reply \in Replies, CompleteTask(r, reply) PROVE RowIInv'
    <3>1. \A q \in Runs \ {r} : Same(q) BY <2>13 DEF CompleteTask
    <3>2. Row(r)' BY <2>13 DEF CompleteTask
    <3> QED BY <3>1, <3>2, OneRow
  <2>14. ASSUME NEW reply \in Replies, FailTask(r, reply) PROVE RowIInv'
    <3>1. \A q \in Runs \ {r} : Same(q) BY <2>14 DEF FailTask
    <3>2. Row(r)' BY <2>14 DEF FailTask
    <3> QED BY <3>1, <3>2, OneRow
  <2>15. ASSUME NEW reply \in Replies, Save(r, reply) PROVE RowIInv'
    <3>1. \A q \in Runs \ {r} : Same(q) BY <2>15 DEF Save
    <3>2. Row(r)' BY <2>15 DEF Save
    <3> QED BY <3>1, <3>2, OneRow
  <2>16. ASSUME NEW reply \in Replies, Request(r, reply) PROVE RowIInv'
    <3>1. \A q \in Runs \ {r} : Same(q) BY <2>16 DEF Request
    <3>2. Row(r)' BY <2>16 DEF Request
    <3> QED BY <3>1, <3>2, OneRow
  <2>17. ASSUME NEW reply \in Replies, Deliver(r, reply) PROVE RowIInv'
    <3>1. \A q \in Runs \ {r} : Same(q) BY <2>17 DEF Deliver
    <3>2. Row(r)' BY <2>17 DEF Deliver
    <3> QED BY <3>1, <3>2, OneRow
  <2>18. ASSUME NEW reply \in Replies, Finish(r, reply) PROVE RowIInv'
    <3>1. \A q \in Runs \ {r} : Same(q) BY <2>18 DEF Finish
    <3>2. Row(r)' BY <2>18 DEF Finish
    <3> QED BY <3>1, <3>2, OneRow
  <2> QED BY <1>2, <2>1, <2>2, <2>3, <2>4, <2>5, <2>6, <2>7, <2>8, <2>9, <2>10, <2>11,
             <2>12, <2>13, <2>14, <2>15, <2>16, <2>17, <2>18 DEF RunStep
<1>3. ASSUME NEW r \in Runs, NEW f \in Files, StrayEnds(r, f) PROVE RowIInv'
  <2>1. \A q \in Runs : Same(q) BY <1>3 DEF StrayEnds
  <2> QED BY <2>1, SameRow, OneRow
<1>4. CASE Crash
  <2>1. \A r \in Runs : Row(r)'
    BY <1>4, CrashLeaves DEF Crash, Row, RunOK, Untouched, RowInStep
  <2> QED BY <2>1 DEF RowIInv, Row, CompletedDemoIsComplete, FailedDemoIsClosed
<1>5. CASE Restart
  <2> PICK old \in SUBSET Orphans : Restart!3!(old)
    BY <1>5 DEF Restart
  <2>1. ~up /\ up' /\ UNCHANGED <<pc, step, memories, approvals, delivered, strays>>
    BY <1>5 DEF Restart
  <2>2. ASSUME NEW r \in Runs PROVE Row(r)'
    <3>1. pc[r] \notin InRun
      BY <2>1 DEF Row, RunOK
    <3>2. CASE r \notin old
      <4>1. Same(r) BY <2>1, <3>1, <3>2
      <4> QED BY <4>1, SameRow
    <3>3. CASE r \in old
      <4>1. status[r] = "running" /\ status'[r] = "interrupted"
        BY <3>3 DEF Orphans
      <4>2. pc[r] \in {"raised", "lost"}
        BY <3>1, <4>1 DEF Row, RunOK, Untouched
      <4>3. \A n \in Steps : task'[r][n] # "running"
        BY <3>3
      <4> QED BY <2>1, <3>1, <4>1, <4>2, <4>3 DEF Row, RunOK
    <3> QED BY <3>2, <3>3
  <2> QED BY <2>2 DEF RowIInv, Row, CompletedDemoIsComplete, FailedDemoIsClosed
<1> QED BY <1>1, <1>2, <1>3, <1>4, <1>5 DEF Next
-----------------------------------------------------------------------------
(* The directories: while a run has one to itself, what others do does not *)
(* reach it.                                                               *)

Mine(q) == DirectoryOK(q) /\ ManifestOK(q)

\* A step leaves run q and what it has to itself alone.
Apart(q) ==
    /\ shared \subseteq shared'
    /\ pc'[q] = pc[q] /\ step'[q] = step[q] /\ task'[q] = task[q]
    /\ manifest'[q] = manifest[q]
    /\ pc[q] \in InRun /\ ScenarioOf[q] \notin shared' =>
         /\ out'[ScenarioOf[q]] = out[ScenarioOf[q]]
         /\ \A p \in Runs \ {q} : ScenarioOf[p] = ScenarioOf[q] =>
              /\ pc'[p] \in InRun => pc[p] \in InRun
              /\ p \in Left' => p \in Left \/ pc[p] \in InRun

LEMMA ApartMine ==
  ASSUME NEW q \in Runs, Mine(q), Apart(q)
  PROVE  Mine(q)'
BY DEF Mine, Apart, DirectoryOK, ManifestOK

LEMMA DirStep == ForgeIInv /\ RowIInv' /\ [Next]_forgeVars => ForgeIInv'
<1> SUFFICES ASSUME ForgeIInv, RowIInv', [Next]_forgeVars PROVE \A q \in Runs : Mine(q)'
  BY DEF ForgeIInv, Mine
<1>a. /\ ForgeTypeOK /\ ForgeTypeOK'
      /\ \A r \in Runs : RunOK(r) /\ Mine(r)
  BY DEF ForgeIInv, RowIInv, Mine
<1> USE <1>a DEF ForgeTypeOK
<1> USE DEF At, Goto, SetTask, After, rowVars, NextStep, Left
<1>1. CASE UNCHANGED forgeVars
  BY <1>1, ApartMine DEF forgeVars, Apart
<1>2. ASSUME NEW r \in Runs, RunStep(r) PROVE \A q \in Runs : Mine(q)'
  <2>1. CASE Begin(r)
    <3>1. \A q \in Runs \ {r} : Apart(q) BY <2>1 DEF Begin, Apart, Mine, DirectoryOK, RunOK
    <3>2. Mine(r)' BY <2>1 DEF Begin, Mine, DirectoryOK, ManifestOK, RunOK, RowInStep, Untouched
    <3> QED BY <3>1, <3>2, ApartMine
  <2>2. CASE Make(r)
    <3>1. \A q \in Runs \ {r} : Apart(q) BY <2>2 DEF Make, Empty, Apart, Mine, DirectoryOK, RunOK
    <3>2. Mine(r)' BY <2>2 DEF Make, Empty, Mine, DirectoryOK, ManifestOK, RunOK, RowInStep, Untouched
    <3> QED BY <3>1, <3>2, ApartMine
  <2>3. CASE MakeOk(r)
    <3>1. \A q \in Runs \ {r} : Apart(q) BY <2>3, WrittenWhere DEF MakeOk, Targets, Apart, Mine, DirectoryOK, RunOK
    <3>2. Mine(r)' BY <2>3, WrittenWhere DEF MakeOk, Targets, Mine, DirectoryOK, ManifestOK, RunOK, RowInStep, Untouched
    <3> QED BY <3>1, <3>2, ApartMine
  <2>4. CASE MakeFails(r)
    <3>1. \A q \in Runs \ {r} : Apart(q) BY <2>4, WrittenWhere DEF MakeFails, Targets, Apart, Mine, DirectoryOK, RunOK
    <3>2. Mine(r)' BY <2>4, WrittenWhere DEF MakeFails, Targets, Mine, DirectoryOK, ManifestOK, RunOK, RowInStep, Untouched
    <3> QED BY <3>1, <3>2, ApartMine
  <2>5. CASE MakeTimesOut(r)
    <3>1. \A q \in Runs \ {r} : Apart(q) BY <2>5 DEF MakeTimesOut, Targets, Apart, Mine, DirectoryOK, RunOK
    <3>2. Mine(r)' BY <2>5 DEF MakeTimesOut, Targets, Mine, DirectoryOK, ManifestOK, RunOK, RowInStep, Untouched
    <3> QED BY <3>1, <3>2, ApartMine
  <2>6. CASE BuildManifest(r)
    <3>1. \A q \in Runs \ {r} : Apart(q) BY <2>6 DEF BuildManifest, Owners, Apart, Mine, DirectoryOK, RunOK
    <3>2. Mine(r)' BY <2>6 DEF BuildManifest, Owners, Mine, DirectoryOK, ManifestOK, RunOK, RowInStep, Untouched
    <3> QED BY <3>1, <3>2, ApartMine
  <2>7. CASE ManifestMissing(r)
    <3>1. \A q \in Runs \ {r} : Apart(q) BY <2>7 DEF ManifestMissing, Apart, Mine, DirectoryOK, RunOK
    <3>2. Mine(r)' BY <2>7 DEF ManifestMissing, Mine, DirectoryOK, ManifestOK, RunOK, RowInStep, Untouched
    <3> QED BY <3>1, <3>2, ApartMine
  <2>8. CASE ManifestRaises(r)
    <3>1. \A q \in Runs \ {r} : Apart(q) BY <2>8 DEF ManifestRaises, Apart, Mine, DirectoryOK, RunOK
    <3>2. Mine(r)' BY <2>8 DEF ManifestRaises, Mine, DirectoryOK, ManifestOK, RunOK, RowInStep, Untouched
    <3> QED BY <3>1, <3>2, ApartMine
  <2>9. CASE FailWorkflow(r)
    <3>1. \A q \in Runs \ {r} : Apart(q) BY <2>9 DEF FailWorkflow, Apart, Mine, DirectoryOK, RunOK
    <3>2. Mine(r)' BY <2>9 DEF FailWorkflow, Mine, DirectoryOK, ManifestOK, RunOK, RowInStep, Untouched
    <3> QED BY <3>1, <3>2, ApartMine
  <2>10. CASE DbError(r)
    <3>1. \A q \in Runs \ {r} : Apart(q) BY <2>10 DEF DbError, Apart, Mine, DirectoryOK, RunOK
    <3>2. Mine(r)' BY <2>10 DEF DbError, Mine, DirectoryOK, ManifestOK, RunOK, RowInStep, Untouched
    <3> QED BY <3>1, <3>2, ApartMine
  <2>11. ASSUME NEW reply \in Replies, Insert(r, reply) PROVE \A q \in Runs : Mine(q)'
    <3>1. \A q \in Runs \ {r} : Apart(q) BY <2>11 DEF Insert, Apart
    <3>2. Mine(r)' BY <2>11 DEF Insert, Mine, DirectoryOK, ManifestOK, RunOK, RowInStep, Untouched
    <3> QED BY <3>1, <3>2, ApartMine
  <2>12. ASSUME NEW reply \in Replies, CreateTask(r, reply) PROVE \A q \in Runs : Mine(q)'
    <3>1. \A q \in Runs \ {r} : Apart(q) BY <2>12 DEF CreateTask, Apart
    <3>2. Mine(r)' BY <2>12 DEF CreateTask, Mine, DirectoryOK, ManifestOK, RunOK, RowInStep, Untouched
    <3> QED BY <3>1, <3>2, ApartMine
  <2>13. ASSUME NEW reply \in Replies, CompleteTask(r, reply) PROVE \A q \in Runs : Mine(q)'
    <3>1. \A q \in Runs \ {r} : Apart(q) BY <2>13 DEF CompleteTask, Apart
    <3>2. Mine(r)' BY <2>13 DEF CompleteTask, Mine, DirectoryOK, ManifestOK, RunOK, RowInStep, Untouched
    <3> QED BY <3>1, <3>2, ApartMine
  <2>14. ASSUME NEW reply \in Replies, FailTask(r, reply) PROVE \A q \in Runs : Mine(q)'
    <3>1. \A q \in Runs \ {r} : Apart(q) BY <2>14 DEF FailTask, Apart
    <3>2. Mine(r)' BY <2>14 DEF FailTask, Mine, DirectoryOK, ManifestOK, RunOK, RowInStep, Untouched
    <3> QED BY <3>1, <3>2, ApartMine
  <2>15. ASSUME NEW reply \in Replies, Save(r, reply) PROVE \A q \in Runs : Mine(q)'
    <3>1. \A q \in Runs \ {r} : Apart(q) BY <2>15 DEF Save, Apart
    <3>2. Mine(r)' BY <2>15 DEF Save, Mine, DirectoryOK, ManifestOK, RunOK, RowInStep, Untouched
    <3> QED BY <3>1, <3>2, ApartMine
  <2>16. ASSUME NEW reply \in Replies, Request(r, reply) PROVE \A q \in Runs : Mine(q)'
    <3>1. \A q \in Runs \ {r} : Apart(q) BY <2>16 DEF Request, Apart
    <3>2. Mine(r)' BY <2>16 DEF Request, Mine, DirectoryOK, ManifestOK, RunOK, RowInStep, Untouched
    <3> QED BY <3>1, <3>2, ApartMine
  <2>17. ASSUME NEW reply \in Replies, Deliver(r, reply) PROVE \A q \in Runs : Mine(q)'
    <3>1. \A q \in Runs \ {r} : Apart(q) BY <2>17 DEF Deliver, Apart
    <3>2. Mine(r)' BY <2>17 DEF Deliver, Mine, DirectoryOK, ManifestOK, RunOK, RowInStep, Untouched
    <3> QED BY <3>1, <3>2, ApartMine
  <2>18. ASSUME NEW reply \in Replies, Finish(r, reply) PROVE \A q \in Runs : Mine(q)'
    <3>1. \A q \in Runs \ {r} : Apart(q) BY <2>18 DEF Finish, Apart
    <3>2. Mine(r)' BY <2>18 DEF Finish, Mine, DirectoryOK, ManifestOK, RunOK, RowInStep, Untouched
    <3> QED BY <3>1, <3>2, ApartMine
  <2> QED BY <1>2, <2>1, <2>2, <2>3, <2>4, <2>5, <2>6, <2>7, <2>8, <2>9, <2>10, <2>11,
             <2>12, <2>13, <2>14, <2>15, <2>16, <2>17, <2>18 DEF RunStep
<1>3. ASSUME NEW r \in Runs, NEW f \in Files, StrayEnds(r, f) PROVE \A q \in Runs : Mine(q)'
  <2>1. \A q \in Runs \ {r} : Apart(q)
    <3>1. r \in Left /\ ScenarioOf[r] \in Scenarios
      BY <1>3 DEF StrayEnds, RunOK
    <3>2. \A s \in Scenarios \ {ScenarioOf[r]} : out'[s] = out[s]
      BY <1>3, <3>1, WrittenWhere DEF StrayEnds
    <3> QED BY <1>3, <3>1, <3>2 DEF StrayEnds, Apart, Mine, DirectoryOK, RunOK
  <2>2. Mine(r)'
    BY <1>3, WrittenWhere DEF StrayEnds, Mine, DirectoryOK, ManifestOK, RunOK
  <2> QED BY <2>1, <2>2, ApartMine
<1>4. CASE Crash
  BY <1>4 DEF Crash, Mine, DirectoryOK, ManifestOK, RunOK, RowInStep
<1>5. CASE Restart
  BY <1>5 DEF Restart, Mine, DirectoryOK, ManifestOK, RunOK, RowInStep
<1> QED BY <1>1, <1>2, <1>3, <1>4, <1>5 DEF Next
-----------------------------------------------------------------------------

\* Both invariants hold from the start and are kept by every step.
LEMMA ForgeStep == ForgeIInv /\ [Next]_forgeVars => ForgeIInv'
BY RowStep, DirStep DEF ForgeIInv

\* In every state the rows, tasks and records of each run are what its place in
\* run_demo_forge_request says, and a directory no other run or killed make
\* touched is that run's own.
THEOREM ForgeInvariance == Spec => []ForgeIInv
<1>1. Init => ForgeIInv
  BY DEF Init, Empty, ForgeIInv, RowIInv, ForgeTypeOK, CompletedDemoIsComplete,
         FailedDemoIsClosed, RunOK, Untouched, DirectoryOK, ManifestOK, Left
<1> QED BY <1>1, ForgeStep, PTL DEF Spec

\* However many runs there are, the manifest of one that shared its scenario
\* with no other hashes its own files only.
THEOREM ManifestIsOwnHolds == Spec => []ManifestIsOwn
<1>1. ForgeIInv => ManifestIsOwn
  BY DEF ForgeIInv, ManifestOK, ManifestIsOwn
<1> QED BY <1>1, ForgeInvariance, PTL

\* A demo's row is completed only with its tasks, manifest and card behind it.
THEOREM CompletedDemoIsCompleteHolds == Spec => []CompletedDemoIsComplete
<1>1. ForgeIInv => CompletedDemoIsComplete
  BY DEF ForgeIInv, RowIInv
<1> QED BY <1>1, ForgeInvariance, PTL

\* A failed or reaped demo shows no running task, and nobody works on it.
THEOREM FailedDemoIsClosedHolds == Spec => []FailedDemoIsClosed
<1>1. ForgeIInv => FailedDemoIsClosed
  BY DEF ForgeIInv, RowIInv
<1> QED BY <1>1, ForgeInvariance, PTL

\* Whatever call fails, whatever make is killed, a demo's row is closed once.
THEOREM ClosedStaysClosedHolds == Spec => ClosedStaysClosed
<1>1. ForgeIInv /\ [Next]_forgeVars
        => [\A r \in Runs : status[r] \in {"completed", "failed", "interrupted"}
               => status'[r] = status[r]]_forgeVars
  <2> DEFINE Kept == \A r \in Runs : status[r] \in {"completed", "failed", "interrupted"}
                       => status'[r] = status[r]
  <2> SUFFICES ASSUME ForgeIInv, Next PROVE Kept
    BY DEF forgeVars
  <2>a. ForgeTypeOK /\ FailedDemoIsClosed /\ \A r \in Runs : RunOK(r)
    BY DEF ForgeIInv, RowIInv
  <2> USE <2>a DEF ForgeTypeOK, FailedDemoIsClosed, RunOK, At
  <2>1. ASSUME NEW r \in Runs, RunStep(r) PROVE Kept
    <3>1. CASE UNCHANGED status BY <3>1
    <3>2. ASSUME NEW reply \in Replies, Insert(r, reply) PROVE Kept
      BY <3>2 DEF Insert, Untouched
    <3>3. ASSUME NEW reply \in Replies, Finish(r, reply) PROVE Kept
      BY <3>3 DEF Finish
    <3>4. CASE FailWorkflow(r)
      BY <3>4 DEF FailWorkflow
    <3> QED BY <2>1, <3>1, <3>2, <3>3, <3>4 DEF RunStep, Begin, Make, MakeOk, MakeFails,
        MakeTimesOut, BuildManifest, ManifestMissing, ManifestRaises, DbError, CreateTask,
        CompleteTask, FailTask, Save, Request, Deliver
  <2>2. ASSUME NEW r \in Runs, NEW f \in Files, StrayEnds(r, f) PROVE Kept
    BY <2>2 DEF StrayEnds
  <2>3. CASE Crash BY <2>3 DEF Crash
  <2>4. CASE Restart BY <2>4 DEF Restart, Orphans
  <2> QED BY <2>1, <2>2, <2>3, <2>4 DEF Next
<1> QED BY <1>1, ForgeInvariance, PTL DEF Spec, ClosedStaysClosed
=============================================================================
