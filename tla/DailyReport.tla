----------------------------- MODULE DailyReport ----------------------------
(***************************************************************************)
(* What a daily summary says: DailySummary together with _gather_stats and *)
(* _format_summary, over the rows that workflows and approvals insert and  *)
(* close meanwhile.  created_at is the time a row's transaction began, and *)
(* each SELECT sees what is committed when it runs.                        *)
(***************************************************************************)
EXTENDS DailySummary, FiniteSets

CONSTANTS
    Items,   \* the workflow and approval rows
    Never    \* no instant: created_at of a row that is not there

ASSUME ReportAssumption == Never \notin Nat

VARIABLES
    kind,    \* kind[x]: "workflow" or "approval"
    made,    \* made[x]: created_at
    status,  \* status[x]: Workflow.status or Approval.decision
    dead,    \* the workflows whose job is on the FAILED queue
    from,    \* from[a]: the instant run a began at, the end of its period
    asked,   \* asked[a]: how many queries its _gather_stats has made
    stats,   \* stats[a]: what they have returned
    reports, \* reports[i]: what the i-th summary row says, of which period, and
             \* the firing it is of, if it is the scheduler's
    missed,  \* history: rows being inserted while a summary counted their period
    trouble  \* trouble[a]: history: there was trouble when run a began

worldVars == <<kind, made, status, dead>>
reportVars == <<from, asked, stats, reports, missed, trouble>>
vars == <<summaryVars, worldVars, reportVars>>

Queries == <<"workflow", "approval", "depths">>
Nothing == [counted |-> {}, dead |-> FALSE]
Kinds == {"workflow", "approval"}
Open(k) == IF k = "workflow" THEN "running" ELSE "pending"
Closed(k) == IF k = "workflow" THEN {"completed", "failed", "interrupted"}
             ELSE {"decided"}
Statuses == {"absent", "inserting"} \cup {Open(k) : k \in Kinds}
               \cup UNION {Closed(k) : k \in Kinds}
Actions == {"review", "triage", "restart", "confirm", "clean"}
Summaries == [end : Nat, fired : Nat \cup {Never}, counted : SUBSET Items,
              action : Actions, trouble : BOOLEAN]

ReportTypeOK ==
    /\ kind \in [Items -> Kinds]
    /\ made \in [Items -> Nat \cup {Never}]
    /\ \A x \in Items :
         status[x] \in {"absent", "inserting", Open(kind[x])} \cup Closed(kind[x])
    /\ status \in [Items -> Statuses]
    /\ dead \in SUBSET Items
    /\ from \in [Actors -> Nat]
    /\ asked \in [Actors -> 0..3]
    /\ stats \in [Actors -> [counted : SUBSET (Items \X Statuses), dead : BOOLEAN]]
    /\ reports \in Seq(Summaries)
    /\ missed \in SUBSET Items
    /\ trouble \in [Actors -> BOOLEAN]

ReportInit ==
    /\ Init
    /\ kind \in [Items -> Kinds]
    /\ made = [x \in Items |-> Never]
    /\ status = [x \in Items |-> "absent"]
    /\ dead = {}
    /\ from = [a \in Actors |-> 0]
    /\ asked = [a \in Actors |-> 0]
    /\ stats = [a \in Actors |-> Nothing]
    /\ reports = <<>>
    /\ missed = {}
    /\ trouble = [a \in Actors |-> FALSE]

-----------------------------------------------------------------------------
(* The rows.                                                               *)

\* The transaction that inserts row x begins.
Inserting(x) ==
    /\ status[x] = "absent"
    /\ made' = [made EXCEPT ![x] = now]
    /\ status' = [status EXCEPT ![x] = "inserting"]
    /\ UNCHANGED <<summaryVars, kind, dead, reportVars>>

\* The row is there, and then closed: a workflow ends, a card is decided.
Moves(x) ==
    /\ \/ status[x] = "inserting" /\ status' = [status EXCEPT ![x] = Open(kind[x])]
       \/ /\ status[x] = Open(kind[x])
          /\ \E s \in Closed(kind[x]) : status' = [status EXCEPT ![x] = s]
    /\ UNCHANGED <<summaryVars, kind, made, dead, reportVars>>

\* The job of a failed workflow reaches the FAILED queue.
DeadLetter(x) ==
    /\ status[x] = "failed"
    /\ dead' = dead \cup {x}
    /\ UNCHANGED <<summaryVars, kind, made, status, reportVars>>

-----------------------------------------------------------------------------
(* _format_summary.                                                        *)

\* The rows counted, and those with status s.
Counted(st) == {x \in Items : \E s \in Statuses : <<x, s>> \in st.counted}
With(st, s) == {x \in Items : <<x, s>> \in st.counted}

\* Faulty variant: failed workflows are left to the dead-letter queue.
ActionDeadOnly(st) ==
    IF With(st, "pending") # {} THEN "review"
    ELSE IF st.dead THEN "triage"
    ELSE IF With(st, "interrupted") # {} THEN "restart"
    ELSE IF With(st, "running") # {} THEN "confirm"
    ELSE "clean"

\* The recommended next action.
Action(st) ==
    IF With(st, "pending") # {} THEN "review"
    ELSE IF st.dead \/ With(st, "failed") # {} THEN "triage"
    ELSE IF With(st, "interrupted") # {} THEN "restart"
    ELSE IF With(st, "running") # {} THEN "confirm"
    ELSE "clean"

-----------------------------------------------------------------------------
(* A run of run_daily_summary.                                             *)

\* Faulty variant: the period has no end, so that rows created while the run
\* gathers its statistics are in it.
InPeriodToNow(x, end) == made[x] # Never /\ made[x] + Day >= end

\* Row x was created in the 24 hours before the end, which is when the run
\* began: the start included and the end excluded.
InPeriod(x, end) == made[x] # Never /\ made[x] + Day >= end /\ made[x] < end

\* What is wrong, of what a summary of now would look at.
Broken(x) == status[x] \in {"failed", "interrupted"}
Trouble == dead # {} \/ \E x \in Items : InPeriod(x, now) /\ Broken(x)

\* A run begins, by the scheduler or by a request.
BeginReport(a) ==
    /\ IF a \in Procs THEN Wake(a) ELSE RunNow(a)
    /\ from' = [from EXCEPT ![a] = now]
    /\ asked' = [asked EXCEPT ![a] = 0]
    /\ stats' = [stats EXCEPT ![a] = Nothing]
    /\ trouble' = [trouble EXCEPT ![a] = Trouble]
    /\ UNCHANGED <<worldVars, reports, missed>>

\* The rows of run a's period in a table.
Asks(a, table) == {x \in Items : kind[x] = table /\ InPeriod(x, from[a])}

\* The stats of run a with one more query: of a table, the rows that are
\* committed; of the queues, whether FAILED has a job.
Found(a, table) ==
    IF table = "depths" THEN [stats[a] EXCEPT !.dead = (dead # {})]
    ELSE [stats[a] EXCEPT !.counted = @ \cup
            {<<x, status[x]>> : x \in {y \in Asks(a, table) : status[y] # "inserting"}}]

\* The next query of _gather_stats.
Gather(a) ==
    /\ at[a] = "insert"
    /\ asked[a] < Len(Queries)
    /\ LET table == Queries[asked[a] + 1]
       IN  /\ stats' = [stats EXCEPT ![a] = Found(a, table)]
           /\ missed' = missed \cup {x \in Asks(a, table) : status[x] = "inserting"}
    /\ asked' = [asked EXCEPT ![a] = @ + 1]
    /\ UNCHANGED <<summaryVars, worldVars, from, reports, trouble>>

\* The summary row is inserted with the stats and the text of run a.
Reported(a) ==
    reports' = Append(reports,
        [end |-> from[a], fired |-> IF a \in Procs THEN fire[a] ELSE Never,
         counted |-> Counted(stats[a]), action |-> Action(stats[a]),
         trouble |-> trouble[a]])

\* What run a has gathered goes with it, if it does not go on to the insert.
Forget(a) ==
    IF at'[a] = "insert" THEN UNCHANGED <<from, asked, stats, trouble>>
    ELSE /\ from' = [from EXCEPT ![a] = 0]
         /\ asked' = [asked EXCEPT ![a] = 0]
         /\ stats' = [stats EXCEPT ![a] = Nothing]
         /\ trouble' = [trouble EXCEPT ![a] = FALSE]

\* The other steps of a run; only a run that gathered its stats inserts.
RunReport(a) ==
    /\ \/ Check(a) /\ UNCHANGED reports
       \/ asked[a] = Len(Queries) /\ Insert(a) /\ Reported(a)
       \/ AppendFile(a) /\ UNCHANGED reports
       \/ Raise(a) /\ IF rows' = rows THEN UNCHANGED reports
                      ELSE asked[a] = Len(Queries) /\ Reported(a)
    /\ Forget(a)
    /\ UNCHANGED <<worldVars, missed>>

\* The run, or the scheduler, is cut off.
CutReport(a) == Cut(a) /\ Forget(a) /\ UNCHANGED <<worldVars, reports, missed>>

ReportNext ==
    \/ \E x \in Items : Inserting(x) \/ Moves(x) \/ DeadLetter(x)
    \/ \E a \in Actors : BeginReport(a) \/ Gather(a) \/ RunReport(a) \/ CutReport(a)
    \/ /\ (\E p \in Procs : Start(p)) \/ Tick
       /\ UNCHANGED <<worldVars, reportVars>>

ReportSpec == ReportInit /\ [][ReportNext]_vars

\* As DailySummary's fairness; the queries return.
FairReport ==
    /\ ReportSpec
    /\ WF_vars(Tick /\ UNCHANGED <<worldVars, reportVars>>)
    /\ \A p \in Procs : WF_vars(fire[p] <= now /\ BeginReport(p))
    /\ \A a \in Actors : WF_vars(Gather(a) \/ RunReport(a))

-----------------------------------------------------------------------------
\* Of the scheduler's summaries of two successive days, however late (or early)
\* each of the two runs began, exactly one counts a row created between the
\* times their runs may begin at.  A row created while a run may begin can be
\* counted by both or by neither, and one whose INSERT was open while its table
\* was counted by neither.
CountedOnceUpToLateness ==
    \A i, j \in DOMAIN reports :
        LET f == reports[i].fired
        IN  f # Never /\ reports[j].fired = f + Day =>
              \A x \in Items \ missed :
                /\ made[x] # Never /\ made[x] + Day >= f + Late /\ made[x] + Early < f =>
                     x \in reports[i].counted \ reports[j].counted
                /\ made[x] # Never /\ made[x] >= f + Late /\ made[x] + Early < f + Day =>
                     x \in reports[j].counted \ reports[i].counted

\* What was wrong in the 24 hours before a run began, or is on the dead-letter
\* queue, keeps its summary from calling the runtime clean, whatever happens
\* while the run gathers its statistics.
TroubleIsSaid ==
    \A i \in DOMAIN reports :
        reports[i].trouble => reports[i].action \notin {"clean", "confirm"}

\* A run of the firing f began at t.
OnTime(f, t) == f <= t + Early /\ t <= f + Late

\* The inductive invariant behind both: the scheduler's runs begin on time, what
\* a run has counted is what was created in its period, and the trouble it
\* began in is still there to see or was seen; so it is with every summary row.
RunCounts(a) ==
    /\ from[a] <= now
    /\ a \in Procs => OnTime(fire[a], from[a])
    /\ at[a] = "check" => asked[a] = 0
    /\ \A x \in Items \ missed :
         x \in Counted(stats[a]) <=>
            InPeriod(x, from[a]) /\ \E n \in 1..asked[a] : kind[x] = Queries[n]
RunKnows(a) ==
    trouble[a] =>
       \/ dead # {} /\ (asked[a] = 3 => stats[a].dead)
       \/ \E x \in Items :
            /\ InPeriod(x, from[a]) /\ Broken(x)
            /\ asked[a] >= 1 => <<x, status[x]>> \in stats[a].counted
ReportTells(i) ==
    /\ reports[i].end <= now
    /\ reports[i].fired # Never => OnTime(reports[i].fired, reports[i].end)
    /\ \A x \in Items \ missed :
         x \in reports[i].counted <=> InPeriod(x, reports[i].end)
    /\ reports[i].trouble => reports[i].action \notin {"clean", "confirm"}
ReportIInv ==
    /\ SummaryIInv
    /\ ReportTypeOK
    /\ \A x \in Items : IF status[x] = "absent" THEN made[x] = Never
                        ELSE made[x] \in Nat /\ made[x] <= now
    /\ \A a \in Actors : at[a] \in {"check", "insert"} => RunCounts(a) /\ RunKnows(a)
    /\ \A i \in DOMAIN reports : ReportTells(i)
=============================================================================
