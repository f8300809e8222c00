----------------------------- MODULE CIWatcher ------------------------------
(***************************************************************************)
(* core/watchers/ci_watcher.py: a task that asks gh for the newest runs of *)
(* one repository after the other.  gh may be missing, hang, fail, or      *)
(* print what is no list of runs.  Of the checks it keeps of a repository  *)
(* (a ring as in IntegrityWatcher) the model has the newest one, and a     *)
(* list of runs is the set of them: nothing looks at its order.            *)
(***************************************************************************)
EXTENDS Naturals, Sequences, FiniteSetsExt

CONSTANTS
    Repos,          \* the repositories, in the order they are polled
    Names, Commits, \* the names and head commits of workflow runs
    MaxRuns         \* the runs gh is asked for (20)

ASSUME CIAssumption == MaxRuns \in Nat

VARIABLES
    ci,       \* the task: "on", "dead" or "ended"
    pos,      \* the position in Repos it polls, 0 while it waits
    report,   \* the last check, with the runs it was made from
    about     \* the position of the repository it is about, 0 before the first

ciVars == <<ci, pos, report, about>>

Positions == 1..Len(Repos)

\* A run that is completed with a conclusion, or in flight.
Run == [name : Names, sha : Commits, conclusion : {"success", "failure", ""}]

Check(s, fl, rs) == [status |-> s, flaky |-> fl, runs |-> rs]
ErrorCheck == Check("ERROR", {}, {})

CITypeOK ==
    /\ ci \in {"on", "dead", "ended"}
    /\ pos \in Positions \cup {0}
    /\ report.status \in {"OK", "WARN", "ERROR"}
    /\ report.flaky \in SUBSET Names
    /\ report.runs \in SUBSET Run
    /\ about \in Positions \cup {0}

CIInit ==
    /\ ci = "on"
    /\ pos = IF Repos = <<>> THEN 0 ELSE 1
    /\ report = Check("OK", {}, {})
    /\ about = 0

\* The conclusions seen of the runs of a workflow on a commit.
ConclusionsOf(rs, name, sha) ==
    {r.conclusion : r \in {x \in rs : x.name = name /\ x.sha = sha}} \ {""}

\* Faulty variant: runs of any commit are taken together.
FlakyOfName(rs) ==
    {n \in Names : {"success", "failure"} \subseteq
                      UNION {ConclusionsOf(rs, n, s) : s \in Commits}}

\* _detect_flaky_workflows.
Flaky(rs) ==
    {n \in Names : \E s \in Commits :
        {"success", "failure"} \subseteq ConclusionsOf(rs, n, s)}

\* The check of a list of runs.
CheckOf(rs) ==
    Check(IF Flaky(rs) # {} \/ \E r \in rs : r.conclusion = "failure"
          THEN "WARN" ELSE "OK",
          Flaky(rs), rs)

\* Faulty variant: a failing poll ends the round.
AfterFailing(i, c) == IF i = Len(Repos) \/ c = ErrorCheck THEN 0 ELSE i + 1

\* The position after that of repository i, or the wait.
After(i, c) == IF i = Len(Repos) THEN 0 ELSE i + 1

\* The check c of the repository polled is recorded, and the next one is asked.
Recorded(c) ==
    /\ ci = "on" /\ pos \in Positions
    /\ report' = c
    /\ about' = pos
    /\ pos' = After(pos, c)
    /\ UNCHANGED ci

\* The interval is over.
WakeUp ==
    /\ ci = "on" /\ pos = 0 /\ Repos # <<>>
    /\ pos' = 1
    /\ UNCHANGED <<ci, report, about>>

\* gh is missing, fails, prints no JSON, or was awaited for 30 seconds (and is
\* not killed).
Fails == Recorded(ErrorCheck)

\* gh prints its newest runs.
Prints ==
    \E rs \in UNION {kSubset(n, Run) : n \in 0..MaxRuns} : Recorded(CheckOf(rs))

\* gh prints JSON that is no list of objects: the exception ends the task.
Dies ==
    /\ ci = "on" /\ pos \in Positions
    /\ ci' = "dead"
    /\ UNCHANGED <<pos, report, about>>

Poll == Fails \/ Prints \/ Dies

-----------------------------------------------------------------------------
\* A check reports a workflow as flaky exactly when two of its runs on one
\* commit were completed, one with failure and one with success, and warns
\* exactly when there is one or a failure.
ReportIsRight ==
    LET failures == {r \in report.runs : r.conclusion = "failure"}
    IN  /\ report.flaky =
             {r.name : r \in {f \in failures :
                [f EXCEPT !.conclusion = "success"] \in report.runs}}
        /\ report.status = "OK" => failures = {}
        /\ failures # {} => report.status = "WARN"
=============================================================================
