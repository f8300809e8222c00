---------------------------- MODULE DailySummary ----------------------------
(***************************************************************************)
(* workflows/daily_summary.py: one scheduler per orchestrator process and  *)
(* the handlers of POST /summary/run-now run run_daily_summary on the same *)
(* Postgres table.  A run reads the latest summary row, gathers its        *)
(* statistics and inserts a row: nothing holds the table in between.       *)
(*                                                                         *)
(* The clock has Day instants a day, and instant Hour of a day is the      *)
(* target hour.  asyncio.sleep returns when it returns: up to Late instants*)
(* after the target hour, so that no two runs need be a day apart.         *)
(***************************************************************************)
EXTENDS Naturals, Sequences

CONSTANTS
    Procs,     \* the orchestrator processes, one scheduler each
    Calls,     \* the requests of POST /summary/run-now
    Day,       \* instants in 24 hours
    Hour,      \* the target hour, as an instant of the day
    Late,      \* how late a timer may be
    MaxNow,    \* bound: the last instant
    Faults     \* "db": a session fails; "crash"; "early": a sleep ends early

ASSUME SummaryAssumption ==
    /\ Procs \cap Calls = {}
    /\ Day \in Nat \ {0} /\ Hour \in Nat /\ Late \in Nat
    /\ Hour + Late < Day
    /\ MaxNow \in Nat
    /\ Faults \in SUBSET {"db", "crash", "early"}

Actors == Procs \cup Calls

VARIABLES
    now,         \* the clock
    at,          \* at[a]: the await that actor a is at
    day,         \* day[a]: the today_marker of its run
    fire,        \* fire[p]: the instant scheduler p sleeps to
    rows,        \* rows[i]: the date of the summary row with the i-th id
    overlapped,  \* history: two runs were under way at the same time
    failed       \* history: the dates of schedulers' runs that failed this instant

summaryVars == <<now, at, day, fire, rows, overlapped, failed>>

Date(t) == t \div Day

InRun == {"check", "insert", "append"}

SummaryTypeOK ==
    /\ now \in 0..MaxNow
    /\ at \in [Actors -> {"off", "sleep", "done"} \cup InRun]
    /\ day \in [Actors -> Nat]
    /\ fire \in [Procs -> Nat]
    /\ rows \in Seq(Nat)
    /\ overlapped \in BOOLEAN
    /\ failed \in SUBSET Nat

Init ==
    /\ now \in 0..MaxNow /\ now < Day
    /\ at = [a \in Actors |-> "off"]
    /\ day = [a \in Actors |-> 0]
    /\ fire = [p \in Procs |-> 0]
    /\ rows = <<>>
    /\ overlapped = FALSE
    /\ failed = {}

-----------------------------------------------------------------------------
\* now.replace(hour=target_hour, minute=0, second=0, microsecond=0).
Today(t) == Day * Date(t) + Hour

\* Faulty variant: the next firing is always tomorrow.
NextFireTomorrow(t) == Today(t) + Day

\* fire: today at the target hour, or tomorrow if that is not ahead.
NextFire(t) == IF Today(t) > t THEN Today(t) ELSE Today(t) + Day

\* schedule_daily_summary is spawned by Orchestrator.start.
Start(p) ==
    /\ at[p] = "off"
    /\ at' = [at EXCEPT ![p] = "sleep"]
    /\ fire' = [fire EXCEPT ![p] = NextFire(now)]
    /\ UNCHANGED <<now, day, rows, overlapped, failed>>

\* A run of actor a begins: `now` is read.
Begin(a) ==
    /\ at' = [at EXCEPT ![a] = "check"]
    /\ day' = [day EXCEPT ![a] = Date(now)]
    /\ overlapped' = (overlapped \/ \E b \in Actors : at[b] \in InRun)
    /\ UNCHANGED <<now, fire, rows, failed>>

\* How early a sleep may end: the event loop's clock is not the wall clock.
Early == IF "early" \in Faults THEN 1 ELSE 0

\* The sleep is over.
Wake(p) ==
    /\ at[p] = "sleep"
    /\ fire[p] <= now + Early
    /\ Begin(p)

\* POST /summary/run-now.
RunNow(c) ==
    /\ at[c] = "off"
    /\ Begin(c)

\* Actor a's run is over; a scheduler goes back to sleep.
End(a) ==
    /\ at' = [at EXCEPT ![a] = IF a \in Procs THEN "sleep" ELSE "done"]
    /\ day' = [day EXCEPT ![a] = 0]
    /\ fire' = IF a \in Procs THEN [fire EXCEPT ![a] = NextFire(now)] ELSE fire

\* Faulty variant: the oldest summary is looked at, not the latest.
AlreadyRanFirst(d) == rows # <<>> /\ rows[1] = d

\* The row with the highest id carries today's date.
AlreadyRan(d) == rows # <<>> /\ rows[Len(rows)] = d

\* run_daily_summary's SELECT, and the skip.
Check(a) ==
    /\ at[a] = "check"
    /\ IF AlreadyRan(day[a])
       THEN End(a)
       ELSE at' = [at EXCEPT ![a] = "insert"] /\ UNCHANGED <<day, fire>>
    /\ UNCHANGED <<now, rows, overlapped, failed>>

\* The INSERT and its commit, after _gather_stats.
Insert(a) ==
    /\ at[a] = "insert"
    /\ rows' = Append(rows, day[a])
    /\ at' = [at EXCEPT ![a] = "append"]
    /\ UNCHANGED <<now, day, fire, overlapped, failed>>

\* The line in logs/daily_summary.jsonl, best effort, and the return.
AppendFile(a) ==
    /\ at[a] = "append"
    /\ End(a)
    /\ UNCHANGED <<now, rows, overlapped, failed>>

\* A session or all_depths raises: before the row is there, or, a commit whose
\* reply is lost, after.  The scheduler logs it and sleeps to the next firing.
Raise(a) ==
    /\ "db" \in Faults
    /\ at[a] \in {"check", "insert"}
    /\ \/ UNCHANGED rows
       \/ at[a] = "insert" /\ rows' = Append(rows, day[a])
    /\ failed' = IF a \in Procs THEN failed \cup {day[a]} ELSE failed
    /\ End(a)
    /\ UNCHANGED <<now, overlapped>>

\* The process stops or crashes, or the request goes away with it.
Cut(a) ==
    /\ "crash" \in Faults
    /\ at[a] \in InRun \cup {"sleep"}
    /\ at' = [at EXCEPT ![a] = IF a \in Procs THEN "off" ELSE "done"]
    /\ day' = [day EXCEPT ![a] = 0]
    /\ fire' = IF a \in Procs THEN [fire EXCEPT ![a] = 0] ELSE fire
    /\ UNCHANGED <<now, rows, overlapped, failed>>

\* Time passes; no timer is later than Late.
Tick ==
    /\ now < MaxNow
    /\ \A p \in Procs : at[p] = "sleep" => now < fire[p] + Late
    /\ now' = now + 1
    /\ failed' = {}
    /\ UNCHANGED <<at, day, fire, rows, overlapped>>

Run(a) ==
    \/ Check(a)
    \/ Insert(a)
    \/ AppendFile(a)
    \/ Raise(a)

Next ==
    \/ \E p \in Procs : Start(p) \/ Wake(p)
    \/ \E c \in Calls : RunNow(c)
    \/ \E a \in Actors : Run(a) \/ Cut(a)
    \/ Tick

Spec == Init /\ [][Next]_summaryVars

\* Time passes, timers fire, and the calls of a run return or raise.
FairSpec ==
    /\ Spec
    /\ WF_summaryVars(Tick)
    /\ \A p \in Procs : WF_summaryVars(fire[p] <= now /\ Wake(p))
    /\ \A a \in Actors : WF_summaryVars(Run(a))

-----------------------------------------------------------------------------
\* "Idempotent per UTC date", as far as it goes: while no two runs of
\* run_daily_summary ever overlapped, a date has one row, whatever failed, was
\* cut off or woke early.
OneSummaryPerDate ==
    ~overlapped => \A i, j \in DOMAIN rows : i # j => rows[i] # rows[j]

\* The inductive invariant: no timer is later than Late, no date is ahead of the
\* clock, and without overlaps the dates grow with the ids and a run about to
\* insert is ahead of the rows.
TimersInTime == \A p \in Procs : at[p] = "sleep" => now <= fire[p] + Late
SummaryIInv ==
    /\ SummaryTypeOK
    /\ TimersInTime
    /\ \A a \in Actors : at[a] \in InRun => day[a] <= Date(now)
    /\ \A i \in DOMAIN rows : rows[i] <= Date(now)
    /\ ~overlapped =>
         /\ \A i, j \in DOMAIN rows : i < j => rows[i] < rows[j]
         /\ \A a, b \in Actors : at[a] \in InRun /\ at[b] \in InRun => a = b
         /\ \A a \in Actors :
              /\ at[a] \in InRun => \A i \in DOMAIN rows : rows[i] <= day[a]
              /\ at[a] = "insert" => \A i \in DOMAIN rows : rows[i] < day[a]

\* A scheduler that sleeps into a day gets that day its summary, unless its own
\* run of the day fails or it is cut off: neither late timers nor the runs of other
\* processes and of requests, whenever they begin, fail or end, make it miss one.
EveryDaySummarised ==
    \A p \in Procs, d \in 1..Date(MaxNow) :
        at[p] = "sleep" /\ now = Day * d /\ now + Hour <= MaxNow ~>
            \/ \E i \in DOMAIN rows : rows[i] = d
            \/ d \in failed \/ at[p] = "off"
=============================================================================
