-------------------------- MODULE DailyReportProofs -------------------------
(***************************************************************************)
(* One summary per UTC date while runs do not overlap; a summary counts    *)
(* what was created in its period and says when there was trouble: for any *)
(* rows, schedulers, requests and days.  run_daily_summary with its        *)
(* queries still is DailySummary, so the first section holds of it too.    *)
(***************************************************************************)
EXTENDS DailyReport, TLAPS

-----------------------------------------------------------------------------
(* The dates (DailySummary).                                               *)

\* A day has Day instants.
LEMMA DateIs ==
    ASSUME NEW t \in Nat
    PROVE  /\ Date(t) \in Nat /\ Day * Date(t) \in Nat
           /\ Day * Date(t) <= t /\ t < Day * Date(t) + Day
<1>1. Date(t) \in Nat
  BY SummaryAssumption DEF Date
<1>2. Day * Date(t) <= t
  BY SummaryAssumption, SMT DEF Date
<1>3. t < Day * Date(t) + Day
  BY SummaryAssumption, SMT DEF Date
<1> QED
  BY <1>1, <1>2, <1>3, SummaryAssumption

\* Dates grow with the clock.
LEMMA DateGrows ==
    ASSUME NEW t \in Nat
    PROVE  Date(t) \in Nat /\ Date(t) <= Date(t + 1)
<1> DEFINE d == Date(t)
           e == Date(t + 1)
<1>1. /\ d \in Nat /\ e \in Nat /\ Day \in Nat
      /\ Day * d \in Nat /\ Day * e \in Nat
      /\ Day * d <= t /\ t + 1 < Day * e + Day
  BY DateIs, SummaryAssumption
<1> HIDE DEF d, e
<1>2. ASSUME d >= e + 1 PROVE FALSE
  <2>1. Day * d >= Day * (e + 1)
    BY <1>1, <1>2
  <2>2. Day * (e + 1) = Day * e + Day
    BY <1>1
  <2> QED
    BY <1>1, <2>1, <2>2
<1>3. d <= e
  BY <1>1, <1>2
<1> QED
  BY <1>1, <1>3 DEF d, e

\* The next firing is an instant that is ahead.
LEMMA NextFireType ==
    ASSUME NEW t \in Nat
    PROVE  NextFire(t) \in Nat /\ NextFire(t) > t
<1> DEFINE midnight == Day * Date(t)
<1>a. midnight \in Nat /\ t < midnight + Day
  BY DateIs
<1>b. Today(t) = midnight + Hour
  BY DEF Today
<1> HIDE DEF midnight
<1>1. Today(t) \in Nat /\ t < Today(t) + Day
  BY <1>a, <1>b, SummaryAssumption
<1> QED
  BY <1>1, SummaryAssumption DEF NextFire

\* What the clock reads, in a state of the right types.
LEMMA ClockType ==
    ASSUME SummaryTypeOK
    PROVE  /\ now \in Nat /\ NextFire(now) \in Nat /\ NextFire(now) > now
           /\ Date(now) \in Nat /\ Date(now) <= Date(now + 1)
<1>1. now \in Nat
  BY SummaryAssumption DEF SummaryTypeOK
<1> QED
  BY <1>1, DateGrows, NextFireType

\* The end of a run touches its own actor only.
LEMMA EndType ==
    ASSUME SummaryTypeOK, NEW a \in Actors, End(a)
    PROVE  /\ at' \in [Actors -> {"off", "sleep", "done"} \cup InRun]
           /\ day' \in [Actors -> Nat] /\ fire' \in [Procs -> Nat]
           /\ at'[a] \in {"sleep", "done"} /\ day'[a] = 0
           /\ \A b \in Actors : b # a => at'[b] = at[b] /\ day'[b] = day[b]
           /\ \A b \in Procs : fire'[b] = IF b = a THEN NextFire(now) ELSE fire[b]
<1>1. NextFire(now) \in Nat
  BY ClockType
<1>2. at' \in [Actors -> {"off", "sleep", "done"} \cup InRun]
  BY DEF End, SummaryTypeOK
<1>3. day' \in [Actors -> Nat]
  BY DEF End, SummaryTypeOK
<1>4. fire' \in [Procs -> Nat]
  BY <1>1 DEF End, SummaryTypeOK
<1>5. at'[a] \in {"sleep", "done"} /\ day'[a] = 0
  BY DEF End, SummaryTypeOK
<1>6. \A b \in Actors : b # a => at'[b] = at[b] /\ day'[b] = day[b]
  BY DEF End, SummaryTypeOK
<1>7. \A b \in Procs : fire'[b] = IF b = a THEN NextFire(now) ELSE fire[b]
  BY DEF End, SummaryTypeOK
<1> QED
  BY <1>2, <1>3, <1>4, <1>5, <1>6, <1>7

\* Each step of a scheduler, a request, a run and the clock keeps the types.
LEMMA SummaryTypeStep == SummaryTypeOK /\ [Next]_summaryVars => SummaryTypeOK'
<1> SUFFICES ASSUME SummaryTypeOK, [Next]_summaryVars PROVE SummaryTypeOK'
  OBVIOUS
<1>0. now \in Nat /\ Date(now) \in Nat /\ NextFire(now) \in Nat
  BY ClockType
<1>1. CASE UNCHANGED summaryVars
  BY <1>1 DEF summaryVars, SummaryTypeOK
<1>2. ASSUME NEW p \in Procs, Start(p) PROVE SummaryTypeOK'
  BY <1>0, <1>2 DEF Start, SummaryTypeOK
<1>3. ASSUME NEW a \in Actors, Begin(a) PROVE SummaryTypeOK'
  BY <1>0, <1>3 DEF Begin, SummaryTypeOK, InRun
<1>4. ASSUME NEW a \in Actors, Check(a) PROVE SummaryTypeOK'
  <2>1. CASE End(a)
    BY <1>4, <2>1, EndType DEF Check, SummaryTypeOK
  <2>2. CASE ~AlreadyRan(day[a])
    BY <1>4, <2>2 DEF Check, SummaryTypeOK, InRun
  <2> QED
    BY <1>4, <2>1, <2>2 DEF Check
<1>5. ASSUME NEW a \in Actors, Insert(a) PROVE SummaryTypeOK'
  BY <1>5 DEF Insert, SummaryTypeOK, InRun
<1>6. ASSUME NEW a \in Actors, AppendFile(a) PROVE SummaryTypeOK'
  BY <1>6, EndType DEF AppendFile, SummaryTypeOK
<1>7. ASSUME NEW a \in Actors, Raise(a) PROVE SummaryTypeOK'
  <2>1. End(a)
    BY <1>7 DEF Raise
  <2>2. rows' \in Seq(Nat) /\ failed' \in SUBSET Nat
    <3>1. day[a] \in Nat
      BY DEF SummaryTypeOK
    <3>2. Append(rows, day[a]) \in Seq(Nat)
      BY <3>1 DEF SummaryTypeOK
    <3>4. failed \cup {day[a]} \in SUBSET Nat
      BY <3>1, Zenon DEF SummaryTypeOK
    <3>3. /\ rows' = rows \/ rows' = Append(rows, day[a])
          /\ failed' = failed \/ failed' = failed \cup {day[a]}
      BY <1>7 DEF Raise
    <3> QED
      BY <3>2, <3>3, <3>4 DEF SummaryTypeOK
  <2>3. now' = now /\ overlapped' = overlapped
    BY <1>7 DEF Raise
  <2>4. /\ at' \in [Actors -> {"off", "sleep", "done"} \cup InRun]
        /\ day' \in [Actors -> Nat] /\ fire' \in [Procs -> Nat]
    BY <2>1, EndType
  <2> QED
    BY <2>2, <2>3, <2>4 DEF SummaryTypeOK
<1>8. ASSUME NEW a \in Actors, Cut(a) PROVE SummaryTypeOK'
  BY <1>0, <1>8 DEF Cut, SummaryTypeOK
<1>9. CASE Tick
  BY <1>0, <1>9, SummaryAssumption DEF Tick, SummaryTypeOK
<1> QED
  BY <1>1, <1>2, <1>3, <1>4, <1>5, <1>6, <1>7, <1>8, <1>9
     DEF Next, Wake, RunNow, Run, Actors

\* No timer gets later than Late: a scheduler goes to sleep with a firing ahead,
\* and time waits for a timer that is due.
LEMMA TimersStepOK ==
    SummaryTypeOK /\ TimersInTime /\ [Next]_summaryVars => TimersInTime'
<1> SUFFICES ASSUME SummaryTypeOK, TimersInTime, [Next]_summaryVars,
                    NEW p \in Procs, at'[p] = "sleep"
             PROVE  now' <= fire'[p] + Late
  BY DEF TimersInTime
<1>0. /\ now \in Nat /\ NextFire(now) \in Nat /\ NextFire(now) > now
      /\ fire[p] \in Nat /\ Late \in Nat /\ p \in Actors
      /\ at[p] = "sleep" => now <= fire[p] + Late
  BY ClockType, SummaryAssumption DEF SummaryTypeOK, TimersInTime, Actors
<1>1. CASE UNCHANGED <<now, at, fire>>
  BY <1>0, <1>1
<1>2. ASSUME NEW q \in Procs, Start(q) PROVE now' <= fire'[p] + Late
  BY <1>0, <1>2 DEF Start, SummaryTypeOK
<1>3. ASSUME NEW a \in Actors, Begin(a) PROVE now' <= fire'[p] + Late
  BY <1>0, <1>3 DEF Begin, SummaryTypeOK
<1>4. ASSUME NEW a \in Actors, End(a), now' = now PROVE now' <= fire'[p] + Late
  BY <1>0, <1>4, EndType
<1>5. ASSUME NEW a \in Actors, at[a] # "sleep", fire' = fire, now' = now,
             at' = [at EXCEPT ![a] = "insert"] \/ at' = [at EXCEPT ![a] = "append"]
      PROVE  now' <= fire'[p] + Late
  BY <1>0, <1>5 DEF SummaryTypeOK
<1>6. ASSUME NEW a \in Actors, Cut(a) PROVE now' <= fire'[p] + Late
  BY <1>0, <1>6 DEF Cut, SummaryTypeOK
<1>7. CASE Tick
  BY <1>0, <1>7 DEF Tick
<1>8. ASSUME NEW a \in Actors, Run(a) PROVE now' <= fire'[p] + Late
  BY <1>4, <1>5, <1>8 DEF Run, Check, Insert, AppendFile, Raise
<1> QED
  BY <1>1, <1>2, <1>3, <1>6, <1>7, <1>8 DEF Next, Wake, RunNow, Actors, summaryVars

\* Each of those steps keeps the dates in order.
LEMMA SummaryStepOK == SummaryIInv /\ [Next]_summaryVars => SummaryIInv'
<1> SUFFICES ASSUME SummaryIInv, [Next]_summaryVars PROVE SummaryIInv'
  OBVIOUS
<1>0. SummaryTypeOK /\ SummaryTypeOK' /\ TimersInTime'
  BY SummaryTypeStep, TimersStepOK DEF SummaryIInv
<1>a. /\ now \in Nat /\ NextFire(now) \in Nat
      /\ Date(now) \in Nat /\ Date(now) <= Date(now + 1)
  BY <1>0, ClockType
<1> USE <1>0, <1>a DEF SummaryIInv, SummaryTypeOK, InRun
<1>1. CASE UNCHANGED summaryVars
  BY <1>1 DEF summaryVars
<1>2. ASSUME NEW p \in Procs, Start(p) PROVE SummaryIInv'
  BY <1>2 DEF Start, Actors
<1>3. ASSUME NEW a \in Actors, Begin(a) PROVE SummaryIInv'
  <2>1. /\ at'[a] = "check" /\ day'[a] = Date(now)
        /\ \A b \in Actors : b # a => at'[b] = at[b] /\ day'[b] = day[b]
    BY <1>3 DEF Begin
  <2>3. now' = now /\ rows' = rows
    BY <1>3 DEF Begin
  <2>2. ~overlapped' => ~overlapped /\ \A b \in Actors : at[b] \notin InRun
    BY <1>3 DEF Begin
  <2>4. \A i \in DOMAIN rows : rows[i] \in Nat
    OBVIOUS
  <2>5. \A b \in Actors : at'[b] \in InRun => day'[b] <= Date(now)
    BY <2>1
  <2>6. ~overlapped' =>
          /\ \A i, j \in DOMAIN rows : i < j => rows[i] < rows[j]
          /\ \A b \in Actors : at'[b] \in InRun => b = a
    BY <2>1, <2>2
  <2> QED
    BY <2>1, <2>3, <2>4, <2>5, <2>6
<1>4. ASSUME NEW a \in Actors, End(a), now' = now, overlapped' = overlapped,
             \/ rows' = rows
             \/ at[a] = "insert" /\ rows' = Append(rows, day[a])
      PROVE  SummaryIInv'
  <2>1. /\ at'[a] \in {"sleep", "done"}
        /\ \A b \in Actors : b # a => at'[b] = at[b] /\ day'[b] = day[b]
    BY <1>4, EndType
  <2>2. CASE rows' = rows
    BY <1>4, <2>1, <2>2
  <2>3. CASE at[a] = "insert" /\ rows' = Append(rows, day[a])
    <3>1. \A i \in DOMAIN rows' : rows'[i] <= Date(now)
      BY <2>3
    <3>2. ~overlapped => \A i, j \in DOMAIN rows' : i < j => rows'[i] < rows'[j]
      BY <2>3
    <3>3. ~overlapped => \A b \in Actors : at'[b] \notin InRun
      BY <2>1, <2>3
    <3> QED
      BY <1>4, <2>1, <3>1, <3>2, <3>3
  <2> QED
    BY <1>4, <2>2, <2>3
<1>5. ASSUME NEW a \in Actors, Check(a), ~AlreadyRan(day[a]) PROVE SummaryIInv'
  <2>1. ~overlapped => \A i \in DOMAIN rows : rows[i] < day[a]
    <3> SUFFICES ASSUME ~overlapped, NEW i \in DOMAIN rows
                 PROVE  rows[i] < day[a]
      OBVIOUS
    <3>1. Len(rows) \in DOMAIN rows /\ rows[Len(rows)] # day[a]
      BY <1>5 DEF AlreadyRan
    <3>2. rows[Len(rows)] < day[a]
      BY <1>5, <3>1 DEF Check
    <3>3. i = Len(rows) \/ rows[i] < rows[Len(rows)]
      BY <3>1
    <3> QED
      BY <3>1, <3>2, <3>3
  <2>2. /\ at[a] = "check" /\ at' = [at EXCEPT ![a] = "insert"]
        /\ now' = now /\ day' = day /\ rows' = rows /\ overlapped' = overlapped
    BY <1>5 DEF Check
  <2>3. \A b \in Actors : at'[b] \in InRun => at[b] \in InRun
    BY <2>2
  <2>4. \A b \in Actors : at'[b] = "insert" => b = a \/ at[b] = "insert"
    BY <2>2
  <2>5. \A b \in Actors : at'[b] \in InRun => day'[b] <= Date(now')
    BY <2>2, <2>3
  <2>6. ~overlapped' => \A b, c \in Actors : at'[b] \in InRun /\ at'[c] \in InRun => b = c
    BY <2>2, <2>3
  <2>7. ~overlapped' => \A b \in Actors :
          /\ at'[b] \in InRun => \A i \in DOMAIN rows' : rows'[i] <= day'[b]
          /\ at'[b] = "insert" => \A i \in DOMAIN rows' : rows'[i] < day'[b]
    BY <2>1, <2>2, <2>3, <2>4
  <2> QED
    BY <2>2, <2>5, <2>6, <2>7
<1>6. ASSUME NEW a \in Actors, Insert(a) PROVE SummaryIInv'
  <2>1. /\ at[a] = "insert" /\ at' = [at EXCEPT ![a] = "append"]
        /\ now' = now /\ day' = day /\ overlapped' = overlapped
        /\ rows' = Append(rows, day[a])
    BY <1>6 DEF Insert
  <2>2. /\ \A b \in Actors : at'[b] \in InRun => at[b] \in InRun
        /\ \A b \in Actors : at'[b] = "insert" => at[b] = "insert" /\ b # a
    BY <2>1
  <2>3. /\ DOMAIN rows' = DOMAIN rows \cup {Len(rows) + 1}
        /\ \A i \in DOMAIN rows : rows'[i] = rows[i] /\ i <= Len(rows)
        /\ rows'[Len(rows) + 1] = day[a]
    BY <2>1
  <2>4. /\ \A b \in Actors : at'[b] \in InRun => day'[b] <= Date(now')
        /\ \A i \in DOMAIN rows' : rows'[i] <= Date(now')
    BY <2>1, <2>2, <2>3
  <2>5. ~overlapped => \A i, j \in DOMAIN rows' : i < j => rows'[i] < rows'[j]
    BY <2>1, <2>3
  <2>6. ~overlapped => \A b \in Actors : at'[b] \in InRun => b = a
    BY <2>1, <2>2
  <2>7. ~overlapped => \A b \in Actors :
          /\ at'[b] \in InRun => \A i \in DOMAIN rows' : rows'[i] <= day'[b]
          /\ at'[b] # "insert"
    BY <2>1, <2>2, <2>3, <2>6
  <2> QED
    BY <2>1, <2>4, <2>5, <2>6, <2>7
<1>7. ASSUME NEW a \in Actors, Cut(a) PROVE SummaryIInv'
  BY <1>7 DEF Cut
<1>8. CASE Tick
  <2>1. /\ now' = now + 1 /\ Date(now) <= Date(now') /\ Date(now') \in Nat
        /\ at' = at /\ day' = day /\ rows' = rows /\ overlapped' = overlapped
    BY <1>8, DateGrows DEF Tick
  <2> QED
    BY <2>1
<1>9. ASSUME NEW a \in Actors, Run(a) PROVE SummaryIInv'
  BY <1>4, <1>5, <1>6, <1>9 DEF Run, Check, AppendFile, Raise
<1> QED
  BY <1>1, <1>2, <1>3, <1>7, <1>8, <1>9 DEF Next, Wake, RunNow, Actors

\* No row and no run under way: the dates are in order.
LEMMA SummaryInitOK == Init => SummaryIInv
<1> SUFFICES ASSUME Init PROVE SummaryIInv
  OBVIOUS
<1>1. now \in 0..MaxNow
  BY DEF Init
<1>2. /\ rows = <<>> /\ \A a \in Actors : at[a] = "off"
      /\ at \in [Actors -> {"off", "sleep", "done"} \cup InRun]
      /\ day \in [Actors -> Nat] /\ fire \in [Procs -> Nat]
      /\ overlapped \in BOOLEAN /\ failed \in SUBSET Nat
  BY DEF Init
<1>3. TimersInTime
  BY <1>2 DEF TimersInTime, Actors
<1> QED
  BY <1>1, <1>2, <1>3 DEF SummaryIInv, SummaryTypeOK, InRun

\* run_daily_summary writes one row per date while no two runs overlapped.
THEOREM OneSummaryPerDateHolds == Spec => []OneSummaryPerDate
<1>1. SummaryIInv => OneSummaryPerDate
  BY DEF SummaryIInv, SummaryTypeOK, OneSummaryPerDate
<1> QED
  BY <1>1, SummaryInitOK, SummaryStepOK, PTL DEF Spec

-----------------------------------------------------------------------------
(* What a summary counts and says.                                         *)

\* Each step of DailyReport is one of DailySummary, or leaves it alone.
LEMMA ReportStepMaps == [ReportNext]_vars => [Next]_summaryVars
<1> SUFFICES ASSUME [ReportNext]_vars PROVE [Next]_summaryVars
  OBVIOUS
<1>1. CASE UNCHANGED vars
  BY <1>1 DEF vars
<1>2. ASSUME NEW x \in Items, Inserting(x) \/ Moves(x) \/ DeadLetter(x)
      PROVE  UNCHANGED summaryVars
  BY <1>2 DEF Inserting, Moves, DeadLetter
<1>3. ASSUME NEW a \in Actors, BeginReport(a) PROVE Next
  BY <1>3 DEF BeginReport, Next, Actors
<1>4. ASSUME NEW a \in Actors, Gather(a) PROVE UNCHANGED summaryVars
  BY <1>4 DEF Gather
<1>5. ASSUME NEW a \in Actors, RunReport(a) PROVE Next
  BY <1>5 DEF RunReport, Next, Run
<1>6. ASSUME NEW a \in Actors, CutReport(a) PROVE Next
  BY <1>6 DEF CutReport, Next
<1> QED
  BY <1>1, <1>2, <1>3, <1>4, <1>5, <1>6 DEF ReportNext, Next

\* run_daily_summary with _gather_stats implements DailySummary.
THEOREM ReportImplementsSummary == ReportSpec => Spec
<1>1. ReportInit => Init
  BY DEF ReportInit
<1> QED
  BY <1>1, ReportStepMaps, PTL DEF ReportSpec, Spec

-----------------------------------------------------------------------------
(* The invariant.                                                          *)

\* A row is inserted after every period that has ended, so it is in none.
LEMMA PeriodsStay ==
    ASSUME ReportIInv, NEW x \in Items, NEW end \in Nat, end <= now,
           \/ made' = made
           \/ \E y \in Items : /\ status[y] = "absent"
                               /\ made' = [made EXCEPT ![y] = now]
    PROVE  InPeriod(x, end)' <=> InPeriod(x, end)
<1>1. made \in [Items -> Nat \cup {Never}] /\ now \in Nat /\ Never \notin Nat
  BY ReportAssumption, ClockType DEF ReportIInv, ReportTypeOK, SummaryIInv
<1>2. CASE made' = made
  BY <1>2 DEF InPeriod
<1>3. ASSUME NEW y \in Items, status[y] = "absent", made' = [made EXCEPT ![y] = now]
      PROVE  InPeriod(x, end)' <=> InPeriod(x, end)
  <2>1. made[y] = Never
    BY <1>3 DEF ReportIInv
  <2>2. CASE x = y
    BY <1>1, <1>3, <2>1, <2>2 DEF InPeriod
  <2>3. CASE x # y
    BY <1>1, <1>3, <2>3 DEF InPeriod
  <2> QED
    BY <2>2, <2>3
<1> QED
  BY <1>2, <1>3

\* A summary row and the statistics of a run have their fields.
LEMMA ReportType ==
    ASSUME ReportTypeOK, NEW i \in DOMAIN reports
    PROVE  reports[i] \in Summaries
<1> DEFINE R == Summaries
<1>1. reports \in Seq(R)
  BY DEF ReportTypeOK
<1> HIDE DEF R
<1>2. reports[i] \in R
  BY <1>1
<1> QED
  BY <1>2 DEF R

\* The clock and the table of summaries do not go back.
LEMMA ClockMoves ==
    ASSUME SummaryTypeOK, [Next]_summaryVars
    PROVE  now \in Nat /\ now' \in Nat /\ now <= now'
<1>1. now \in Nat
  BY ClockType
<1> QED
  BY <1>1 DEF summaryVars, Next, Start, Wake, RunNow, Begin, Run, Check, Insert,
     AppendFile, Raise, Cut, Tick

\* What is kept of a run under way when only the world moves: rows are
\* inserted, closed and dead-lettered.
LEMMA WorldStepOK ==
    ASSUME ReportIInv, ReportTypeOK', SummaryIInv', now' = now, at' = at,
           fire' = fire, UNCHANGED reportVars, kind' = kind,
           \/ made' = made
           \/ \E y \in Items : /\ status[y] = "absent"
                               /\ made' = [made EXCEPT ![y] = now],
           \A x \in Items : IF status'[x] = "absent" THEN made'[x] = Never
                            ELSE made'[x] \in Nat /\ made'[x] <= now,
           \A x \in Items : Broken(x) => status'[x] = status[x],
           dead \subseteq dead'
    PROVE  ReportIInv'
<1> USE DEF reportVars
<1>1. now \in Nat /\ \A a \in Actors : from[a] \in Nat
  BY ClockType DEF ReportIInv, ReportTypeOK, SummaryIInv
<1>2. ASSUME NEW a \in Actors, at[a] \in {"check", "insert"}
      PROVE  RunCounts(a)' /\ RunKnows(a)'
  <2>1. RunCounts(a) /\ RunKnows(a) /\ from[a] <= now /\ from[a] \in Nat
    BY <1>1, <1>2 DEF ReportIInv, RunCounts
  <2>2. \A x \in Items : InPeriod(x, from[a])' <=> InPeriod(x, from[a])
    BY <2>1, PeriodsStay
  <2>3. RunCounts(a)'
    BY <2>1, <2>2 DEF RunCounts, Counted
  <2>4. RunKnows(a)'
    BY <2>1, <2>2 DEF RunKnows, Broken
  <2> QED
    BY <2>3, <2>4
<1>3. ASSUME NEW i \in DOMAIN reports PROVE ReportTells(i)'
  <2>1. ReportTells(i) /\ reports[i].end <= now /\ reports[i].end \in Nat
    BY <1>3, ReportType DEF ReportIInv, ReportTells, Summaries
  <2>2. \A x \in Items : InPeriod(x, reports[i].end)' <=> InPeriod(x, reports[i].end)
    BY <2>1, PeriodsStay
  <2> QED
    BY <2>1, <2>2 DEF ReportTells
<1> QED
  BY <1>2, <1>3 DEF ReportIInv

\* Rows are inserted, closed and dead-lettered while runs go on.
LEMMA WorldOK ==
    ASSUME ReportIInv, SummaryIInv', NEW x \in Items,
           Inserting(x) \/ Moves(x) \/ DeadLetter(x)
    PROVE  ReportIInv'
<1> USE DEF ReportIInv, ReportTypeOK, reportVars, summaryVars
<1>0. /\ now \in Nat /\ kind[x] \in Kinds /\ Never \notin Nat
      /\ Open(kind[x]) \in Statuses /\ Closed(kind[x]) \subseteq Statuses
  BY ClockType, ReportAssumption DEF SummaryIInv, Statuses, Open, Closed, Kinds
<1>1. CASE Inserting(x)
  <2>1. /\ made[x] = Never /\ made' = [made EXCEPT ![x] = now]
        /\ status' = [status EXCEPT ![x] = "inserting"]
        /\ status[x] = "absent" /\ now' = now /\ at' = at
        /\ kind' = kind /\ dead' = dead /\ fire' = fire /\ UNCHANGED reportVars
    BY <1>1 DEF Inserting
  <2>2. "inserting" \in Statuses
    BY DEF Statuses
  <2>3. ReportTypeOK'
    BY <1>0, <2>1, <2>2
  <2>4. \A y \in Items : IF status'[y] = "absent" THEN made'[y] = Never
                         ELSE made'[y] \in Nat /\ made'[y] <= now
    BY <1>0, <2>1
  <2>5. \A y \in Items : Broken(y) => status'[y] = status[y]
    BY <2>1 DEF Broken
  <2> QED
    BY <2>1, <2>3, <2>4, <2>5, WorldStepOK
<1>2. CASE Moves(x)
  <2>1. /\ made' = made /\ now' = now /\ at' = at /\ kind' = kind
        /\ dead' = dead /\ fire' = fire /\ UNCHANGED reportVars
    BY <1>2 DEF Moves
  <2>2. PICK s \in {Open(kind[x])} \cup Closed(kind[x]) :
           status' = [status EXCEPT ![x] = s]
    BY <1>2 DEF Moves
  <2>3. status[x] \notin {"absent", "failed", "interrupted"} /\ s # "absent"
    BY <1>2, <1>0 DEF Moves, Open, Closed, Kinds
  <2>4. ReportTypeOK'
    BY <1>0, <2>1, <2>2
  <2>5. \A y \in Items : IF status'[y] = "absent" THEN made'[y] = Never
                         ELSE made'[y] \in Nat /\ made'[y] <= now
    BY <2>1, <2>2, <2>3
  <2>6. \A y \in Items : Broken(y) => status'[y] = status[y]
    BY <2>2, <2>3 DEF Broken
  <2> QED
    BY <2>1, <2>4, <2>5, <2>6, WorldStepOK
<1>3. CASE DeadLetter(x)
  <2>1. /\ made' = made /\ now' = now /\ at' = at /\ kind' = kind
        /\ status' = status /\ dead' = dead \cup {x} /\ fire' = fire
        /\ UNCHANGED reportVars
    BY <1>3 DEF DeadLetter
  <2>2. ReportTypeOK'
    BY <2>1
  <2> QED
    BY <2>1, <2>2, WorldStepOK
<1> QED
  BY <1>1, <1>2, <1>3

\* What is kept when only runs and the clock move: a run that does not is as
\* it was, and a summary row stays.
LEMMA RunStepOK ==
    ASSUME ReportIInv, SummaryIInv', ReportTypeOK', UNCHANGED worldVars,
           now \in Nat, now' \in Nat, now <= now', missed \subseteq missed',
           \A a \in Actors :
              \/ /\ UNCHANGED <<at[a], from[a], asked[a], stats[a], trouble[a]>>
                 /\ a \in Procs => UNCHANGED fire[a]
              \/ at'[a] \in {"check", "insert"} => RunCounts(a)' /\ RunKnows(a)',
           \A i \in DOMAIN reports' :
              \/ i \in DOMAIN reports /\ reports'[i] = reports[i]
              \/ ReportTells(i)'
    PROVE  ReportIInv'
<1> USE DEF worldVars
<1>1. \A x \in Items, end \in Nat : InPeriod(x, end)' <=> InPeriod(x, end)
  BY DEF InPeriod
<1>2. ASSUME NEW a \in Actors, at'[a] \in {"check", "insert"}
      PROVE  RunCounts(a)' /\ RunKnows(a)'
  <2> SUFFICES ASSUME UNCHANGED <<at[a], from[a], asked[a], stats[a], trouble[a]>>,
                      a \in Procs => UNCHANGED fire[a]
               PROVE  RunCounts(a)' /\ RunKnows(a)'
    BY <1>2
  <2>1. RunCounts(a) /\ RunKnows(a) /\ from[a] \in Nat
    BY <1>2 DEF ReportIInv, ReportTypeOK
  <2>2. \A x \in Items : InPeriod(x, from[a])' <=> InPeriod(x, from[a])
    BY <1>1, <2>1
  <2>3. RunCounts(a)'
    <3>1. /\ from'[a] <= now' /\ (at'[a] = "check" => asked'[a] = 0)
          /\ a \in Procs => OnTime(fire[a], from[a])'
      BY <2>1 DEF RunCounts, ReportTypeOK, OnTime
    <3>2. Counted(stats[a])' = Counted(stats[a])
      BY DEF Counted
    <3>3. ASSUME NEW x \in Items \ missed'
          PROVE  x \in Counted(stats[a])' <=>
                    /\ InPeriod(x, from[a])'
                    /\ \E n \in 1..asked'[a] : kind'[x] = Queries[n]
      <4>1. x \in Counted(stats[a]) <=>
               InPeriod(x, from[a]) /\ \E n \in 1..asked[a] : kind[x] = Queries[n]
        BY <2>1 DEF RunCounts
      <4> QED
        BY <2>2, <3>2, <4>1
    <3> QED
      BY <3>1, <3>3 DEF RunCounts
  <2>4. RunKnows(a)'
    BY <2>1, <2>2 DEF RunKnows, Broken
  <2> QED
    BY <2>3, <2>4
<1>3. ASSUME NEW i \in DOMAIN reports' PROVE ReportTells(i)'
  <2> SUFFICES ASSUME i \in DOMAIN reports, reports'[i] = reports[i]
               PROVE  ReportTells(i)'
    BY <1>3
  <2>1. ReportTells(i) /\ reports[i].end \in Nat
    BY ReportType DEF ReportIInv, Summaries
  <2>2. \A x \in Items : InPeriod(x, reports[i].end)' <=> InPeriod(x, reports[i].end)
    BY <1>1, <2>1
  <2> QED
    BY <2>1, <2>2 DEF ReportTells
<1>4. \A x \in Items : IF status'[x] = "absent" THEN made'[x] = Never
                       ELSE made'[x] \in Nat /\ made'[x] <= now'
  BY DEF ReportIInv, ReportTypeOK
<1> QED
  BY <1>2, <1>3, <1>4 DEF ReportIInv

\* A run begins with nothing counted.
LEMMA BeginReportOK ==
    ASSUME ReportIInv, SummaryIInv', NEW a \in Actors, BeginReport(a)
    PROVE  ReportIInv'
<1>1. /\ now \in Nat /\ now' = now /\ ReportTypeOK
      /\ at' = [at EXCEPT ![a] = "check"]
      /\ at \in [Actors -> {"off", "sleep", "done"} \cup InRun]
  <2>1. SummaryTypeOK /\ Begin(a)
    BY DEF ReportIInv, SummaryIInv, BeginReport, Wake, RunNow
  <2> QED
    BY <2>1, ClockType DEF ReportIInv, SummaryTypeOK, Begin
<1>2. /\ from' = [from EXCEPT ![a] = now] /\ asked' = [asked EXCEPT ![a] = 0]
      /\ stats' = [stats EXCEPT ![a] = Nothing]
      /\ trouble' = [trouble EXCEPT ![a] = Trouble]
      /\ UNCHANGED <<worldVars, reports, missed>>
  BY <1>1 DEF BeginReport
<1>3. Trouble \in BOOLEAN
  BY DEF Trouble
<1>3a. Nothing \in [counted : SUBSET (Items \X Statuses), dead : BOOLEAN]
  BY DEF Nothing
<1>4. ReportTypeOK'
  BY <1>1, <1>2, <1>3, <1>3a DEF ReportTypeOK, worldVars
<1>5. /\ from'[a] = now /\ asked'[a] = 0 /\ stats'[a] = Nothing /\ trouble'[a] = Trouble
      /\ \A b \in Actors \ {a} :
           UNCHANGED <<at[b], from[b], asked[b], stats[b], trouble[b]>>
  BY <1>1, <1>2 DEF ReportTypeOK
<1>5a. fire' = fire /\ (a \in Procs => OnTime(fire[a], now))
  BY DEF ReportIInv, SummaryIInv, TimersInTime, BeginReport, Wake, RunNow, Begin, OnTime
<1>6. RunCounts(a)'
  <2>1. Counted(stats'[a]) = {}
    BY <1>5 DEF Counted, Nothing
  <2>2. a \in Procs => OnTime(fire[a], from[a])'
    BY <1>5, <1>5a DEF OnTime
  <2>3. Counted(stats[a])' = {}
    BY <2>1 DEF Counted
  <2>4. from'[a] <= now' /\ asked'[a] = 0 /\ 1..asked'[a] = {}
    BY <1>1, <1>5
  <2>5. \A x \in Items \ missed' : x \in Counted(stats[a])' <=>
           InPeriod(x, from[a])' /\ \E n \in 1..asked'[a] : kind'[x] = Queries[n]
    BY <2>3, <2>4
  <2> HIDE DEF OnTime, InPeriod, Counted
  <2> QED
    BY <2>2, <2>4, <2>5 DEF RunCounts
<1>7. RunKnows(a)'
  <2>1. Trouble => dead # {} \/ \E x \in Items : InPeriod(x, now) /\ Broken(x)
    BY DEF Trouble
  <2> QED
    BY <1>1, <1>2, <1>5, <2>1 DEF RunKnows, InPeriod, Broken, worldVars
<1> QED
  BY <1>1, <1>2, <1>4, <1>5, <1>5a, <1>6, <1>7, RunStepOK

\* The next query adds the rows of its table that were created in the period.
LEMMA GatherOK ==
    ASSUME ReportIInv, SummaryIInv', NEW a \in Actors, Gather(a)
    PROVE  ReportIInv'
<1> DEFINE table == Queries[asked[a] + 1]
           asks == Asks(a, table)
           new == {<<x, status[x]>> : x \in {y \in asks : status[y] # "inserting"}}
           found == Found(a, table)
<1>1. /\ now \in Nat /\ now' = now /\ at' = at /\ ReportTypeOK /\ at[a] = "insert"
      /\ fire' = fire
      /\ UNCHANGED worldVars /\ from' = from /\ reports' = reports /\ trouble' = trouble
  BY ClockType DEF ReportIInv, SummaryIInv, Gather, summaryVars
<1>2. /\ asked[a] \in 0..2 /\ asked' = [asked EXCEPT ![a] = @ + 1]
      /\ asked'[a] = asked[a] + 1
  BY <1>1 DEF Gather, ReportTypeOK, Queries
<1>3. /\ missed' = missed \cup {x \in asks : status[x] = "inserting"}
      /\ stats' = [stats EXCEPT ![a] = found]
  BY DEF Gather
<1>4. /\ asked[a] = 0 => table = "workflow"
      /\ asked[a] = 1 => table = "approval"
      /\ asked[a] = 2 => table = "depths"
  BY DEF Queries
<1>5. new \subseteq Items \X Statuses
  BY <1>1 DEF ReportTypeOK, Asks
<1> HIDE DEF table, new, asks, found
<1>6. stats[a] \in [counted : SUBSET (Items \X Statuses), dead : BOOLEAN]
  BY <1>1 DEF ReportTypeOK
<1>7. /\ stats'[a] \in [counted : SUBSET (Items \X Statuses), dead : BOOLEAN]
      /\ asked[a] = 2 => /\ stats'[a].counted = stats[a].counted
                         /\ stats'[a].dead = (dead # {})
      /\ asked[a] # 2 => stats'[a].counted = stats[a].counted \cup new
  <2>1. stats'[a] = found
    BY <1>1, <1>3 DEF ReportTypeOK
  <2>2. CASE asked[a] = 2
    BY <1>4, <1>6, <2>1, <2>2 DEF found, Found
  <2>3. CASE asked[a] # 2
    <3>1. table # "depths"
      BY <1>2, <1>4, <2>3
    <3> QED
      BY <1>5, <1>6, <2>1, <2>3, <3>1 DEF found, Found, new, asks
  <2> QED
    BY <2>2, <2>3
<1>b. missed' \in SUBSET Items
  BY <1>1, <1>3 DEF asks, Asks, ReportTypeOK
<1>8. ReportTypeOK'
  BY <1>1, <1>2, <1>3, <1>7, <1>b DEF ReportTypeOK, worldVars
<1>9. \A b \in Actors \ {a} :
        UNCHANGED <<at[b], from[b], asked[b], stats[b], trouble[b]>>
  BY <1>1, <1>2, <1>3 DEF ReportTypeOK
<1>10. RunCounts(a) /\ RunKnows(a)
  BY <1>1 DEF ReportIInv
<1>a. \A x \in Items : InPeriod(x, from[a])' <=> InPeriod(x, from[a])
  BY <1>1 DEF InPeriod, worldVars
<1>11. RunCounts(a)'
  <2>1. ASSUME NEW x \in Items \ missed'
        PROVE  x \in Counted(stats'[a]) <=>
                 InPeriod(x, from[a]) /\ \E n \in 1..(asked[a] + 1) : kind[x] = Queries[n]
    <3>1. x \in Counted(stats[a]) <=>
            InPeriod(x, from[a]) /\ \E n \in 1..asked[a] : kind[x] = Queries[n]
      BY <1>3, <1>10, <2>1 DEF RunCounts
    <3>2. kind[x] \in {"workflow", "approval"} /\ status[x] \in Statuses
      BY <1>1 DEF ReportTypeOK, Kinds
    <3>3. CASE asked[a] = 2
      <4>1. Counted(stats'[a]) = Counted(stats[a])
        BY <1>7, <3>3 DEF Counted
      <4> QED
        BY <3>1, <3>2, <3>3, <4>1 DEF Queries
    <3>4. CASE asked[a] # 2
      <4>1. x \in Counted(stats'[a]) <=> x \in Counted(stats[a]) \/ x \in asks
        <5>1. x \in asks => status[x] # "inserting" /\ InPeriod(x, from[a]) /\ kind[x] = table
          BY <1>3, <2>1 DEF asks, Asks
        <5>2. \A s : <<x, s>> \in new <=> x \in asks /\ s = status[x]
          BY <5>1 DEF new
        <5> QED
          BY <1>7, <3>2, <3>4, <5>2 DEF Counted
      <4>2. (\E n \in 1..(asked[a] + 1) : kind[x] = Queries[n]) <=>
              (\E n \in 1..asked[a] : kind[x] = Queries[n]) \/ kind[x] = table
        BY <1>2 DEF table
      <4>3. x \in asks <=> InPeriod(x, from[a]) /\ kind[x] = table
        BY DEF asks, Asks
      <4> QED
        BY <3>1, <4>1, <4>2, <4>3
    <3> QED
      BY <3>3, <3>4
  <2> QED
    BY <1>1, <1>2, <1>10, <1>a, <2>1 DEF RunCounts, worldVars, Counted, OnTime
<1>12. RunKnows(a)'
  <2> SUFFICES ASSUME trouble[a] PROVE RunKnows(a)'
    BY <1>1 DEF RunKnows
  <2>1. CASE dead # {} /\ (asked[a] = 3 => stats[a].dead)
    BY <1>1, <1>2, <1>7, <2>1 DEF RunKnows, worldVars
  <2>2. ASSUME NEW x \in Items, InPeriod(x, from[a]), Broken(x),
               asked[a] >= 1 => <<x, status[x]>> \in stats[a].counted
        PROVE  RunKnows(a)'
    <3>1. <<x, status[x]>> \in stats'[a].counted
      <4>1. CASE asked[a] = 0
        <5>1. kind[x] = "workflow" /\ status[x] # "inserting"
          BY <1>1, <2>2 DEF ReportTypeOK, Kinds, Open, Closed, Broken
        <5>2. x \in asks
          BY <1>4, <2>2, <4>1, <5>1 DEF asks, Asks
        <5> QED
          BY <1>7, <4>1, <5>1, <5>2 DEF new
      <4>2. CASE asked[a] # 0
        BY <1>2, <1>7, <2>2, <4>2
      <4> QED
        BY <4>1, <4>2
    <3> QED
      BY <1>1, <1>a, <2>2, <3>1 DEF RunKnows, Broken, worldVars
  <2> QED
    BY <1>10, <2>1, <2>2 DEF RunKnows
<1> QED
  BY <1>1, <1>3, <1>8, <1>9, <1>11, <1>12, RunStepOK

\* A run that goes no further than its queries, or was cut off, is forgotten.
LEMMA ForgetType ==
    ASSUME ReportTypeOK, NEW a \in Actors, Forget(a), UNCHANGED <<worldVars, missed>>,
           reports' \in Seq(Summaries)
    PROVE  /\ ReportTypeOK'
           /\ \A b \in Actors \ {a} :
                UNCHANGED <<from[b], asked[b], stats[b], trouble[b]>>
<1>1. Nothing \in [counted : SUBSET (Items \X Statuses), dead : BOOLEAN]
  BY DEF Nothing
<1>2. CASE at'[a] = "insert"
  BY <1>2 DEF Forget, ReportTypeOK, worldVars
<1>3. CASE at'[a] # "insert"
  <2>1. /\ from' = [from EXCEPT ![a] = 0] /\ asked' = [asked EXCEPT ![a] = 0]
        /\ stats' = [stats EXCEPT ![a] = Nothing]
        /\ trouble' = [trouble EXCEPT ![a] = FALSE]
    BY <1>3 DEF Forget
  <2> QED
    BY <1>1, <2>1 DEF ReportTypeOK, worldVars
<1> QED
  BY <1>2, <1>3

\* A run that asked everything and inserts its row reports what it counted,
\* and the trouble it knows of.
LEMMA ReportedOK ==
    ASSUME ReportIInv, NEW a \in Actors, at[a] = "insert", asked[a] = 3, Reported(a),
           now \in Nat, now' = now, UNCHANGED <<worldVars, missed>>
    PROVE  /\ reports' \in Seq(Summaries)
           /\ \A i \in DOMAIN reports' :
                \/ i \in DOMAIN reports /\ reports'[i] = reports[i]
                \/ ReportTells(i)'
<1> DEFINE R == Summaries
           row == [end |-> from[a], fired |-> IF a \in Procs THEN fire[a] ELSE Never,
                   counted |-> Counted(stats[a]), action |-> Action(stats[a]),
                   trouble |-> trouble[a]]
<1>1. reports \in Seq(R) /\ reports' = Append(reports, row)
  BY DEF ReportIInv, ReportTypeOK, Reported
<1>2. RunCounts(a) /\ RunKnows(a) /\ ReportTypeOK
  BY DEF ReportIInv
<1>3. Action(stats[a]) \in Actions
  BY DEF Action, Actions
<1>4. row \in R
  <2>1. a \in Procs => fire[a] \in Nat
    BY DEF ReportIInv, SummaryIInv, SummaryTypeOK
  <2> QED
    BY <1>2, <1>3, <2>1 DEF ReportTypeOK, Counted, Summaries
<1>5. row.trouble => row.action \notin {"clean", "confirm"}
  <2>1. trouble[a] => \/ stats[a].dead
                     \/ With(stats[a], "failed") # {} \/ With(stats[a], "interrupted") # {}
    <3> SUFFICES ASSUME trouble[a], ~stats[a].dead
                 PROVE  With(stats[a], "failed") # {} \/ With(stats[a], "interrupted") # {}
      OBVIOUS
    <3>1. PICK x \in Items : Broken(x) /\ <<x, status[x]>> \in stats[a].counted
      BY <1>2 DEF RunKnows
    <3>2. x \in With(stats[a], status[x]) /\ status[x] \in {"failed", "interrupted"}
      BY <3>1 DEF With, Broken
    <3> QED
      BY <3>2
  <2> QED
    BY <2>1 DEF Action
<1>6. \A x \in Items \ missed : x \in row.counted <=> InPeriod(x, row.end)
  <2>1. ASSUME NEW x \in Items \ missed
        PROVE  x \in Counted(stats[a]) <=> InPeriod(x, from[a])
    <3>1. \E n \in 1..3 : kind[x] = Queries[n]
      BY <1>2 DEF ReportTypeOK, Kinds, Queries
    <3> QED
      BY <1>2, <2>1, <3>1 DEF RunCounts
  <2> QED
    BY <2>1
<1>7. row.end <= now /\ (row.fired # Never => OnTime(row.fired, row.end))
  BY <1>2 DEF RunCounts
<1> HIDE DEF R, row
<1>8. reports' \in Seq(R)
  BY <1>1, <1>4
<1>9. ASSUME NEW i \in DOMAIN reports'
      PROVE  \/ i \in DOMAIN reports /\ reports'[i] = reports[i]
             \/ reports'[i] = row
  BY <1>1, <1>4, <1>9
<1>10. ASSUME NEW i \in DOMAIN reports', reports'[i] = row PROVE ReportTells(i)'
  <2>1. \A x \in Items, end \in Nat : InPeriod(x, end)' <=> InPeriod(x, end)
    BY DEF InPeriod, worldVars
  <2>2. row.end \in Nat
    BY <1>4 DEF R, Summaries
  <2> QED
    BY <1>5, <1>6, <1>7, <1>10, <2>1, <2>2 DEF ReportTells, OnTime
<1> QED
  BY <1>8, <1>9, <1>10 DEF R

\* The other steps of a run.
LEMMA RunReportOK ==
    ASSUME ReportIInv, SummaryIInv', NEW a \in Actors, RunReport(a) \/ CutReport(a)
    PROVE  ReportIInv'
<1> DEFINE R == Summaries
<1>1. /\ now \in Nat /\ now' = now /\ ReportTypeOK /\ SummaryTypeOK
      /\ Forget(a) /\ UNCHANGED <<worldVars, missed>> /\ reports \in Seq(R)
  BY ClockType DEF ReportIInv, ReportTypeOK, SummaryIInv, RunReport, CutReport, Check,
     Insert, AppendFile, Raise, Cut
<1>2. \A b \in Actors \ {a} : at'[b] = at[b] /\ (b \in Procs => fire'[b] = fire[b])
  <2>1. CASE End(a)
    BY <1>1, <2>1, EndType
  <2>2. CASE ~End(a)
    BY <1>1, <2>2 DEF RunReport, CutReport, Check, Insert, AppendFile, Raise, Cut,
       SummaryTypeOK
  <2> QED
    BY <2>1, <2>2
<1>3. \/ reports' = reports
      \/ at[a] = "insert" /\ asked[a] = 3 /\ Reported(a)
  BY DEF RunReport, CutReport, Insert, Raise, Queries
<1>4. /\ reports' \in Seq(R)
      /\ \A i \in DOMAIN reports' :
           \/ i \in DOMAIN reports /\ reports'[i] = reports[i]
           \/ ReportTells(i)'
  <2>1. CASE reports' = reports
    BY <1>1, <2>1
  <2>2. CASE at[a] = "insert" /\ asked[a] = 3 /\ Reported(a)
    BY <1>1, <2>2, ReportedOK
  <2> QED
    BY <1>3, <2>1, <2>2
<1>5. /\ ReportTypeOK'
      /\ \A b \in Actors \ {a} :
           UNCHANGED <<from[b], asked[b], stats[b], trouble[b]>>
  BY <1>1, <1>4, ForgetType
<1>6. ASSUME at'[a] \in {"check", "insert"} PROVE RunCounts(a)' /\ RunKnows(a)'
  <2>1. /\ at'[a] = "insert" /\ at[a] = "check" /\ fire' = fire
    <3>1. CASE End(a)
      BY <1>1, <1>6, <3>1, EndType
    <3>2. CASE ~End(a)
      BY <1>1, <1>6, <3>2 DEF RunReport, CutReport, Check, Insert, AppendFile, Raise,
         Cut, SummaryTypeOK
    <3> QED
      BY <3>1, <3>2
  <2>2. UNCHANGED <<from, asked, stats, trouble>>
    BY <1>1, <2>1 DEF Forget
  <2>3. RunCounts(a) /\ RunKnows(a)
    BY <2>1 DEF ReportIInv
  <2>4. \A x \in Items : InPeriod(x, from[a])' <=> InPeriod(x, from[a])
    BY <1>1, <2>2 DEF InPeriod, worldVars
  <2>5. RunCounts(a)'
    BY <1>1, <2>1, <2>2, <2>3, <2>4 DEF RunCounts, Counted, worldVars, OnTime
  <2>6. RunKnows(a)'
    BY <1>1, <2>2, <2>3, <2>4 DEF RunKnows, Broken, worldVars
  <2> QED
    BY <2>5, <2>6
<1> QED
  BY <1>1, <1>2, <1>4, <1>5, <1>6, RunStepOK

\* A scheduler starts, time passes.
LEMMA IdleOK ==
    ASSUME ReportIInv, SummaryIInv', (\E p \in Procs : Start(p)) \/ Tick,
           UNCHANGED <<worldVars, reportVars>>
    PROVE  ReportIInv'
<1>1. /\ now \in Nat /\ now' \in Nat /\ now <= now'
  BY ClockType DEF ReportIInv, SummaryIInv, Start, Tick
<1>2. ReportTypeOK'
  BY DEF ReportIInv, ReportTypeOK, worldVars, reportVars
<1>3. ASSUME NEW a \in Actors
      PROVE  \/ /\ UNCHANGED <<at[a], from[a], asked[a], stats[a], trouble[a]>>
                /\ a \in Procs => UNCHANGED fire[a]
             \/ at'[a] \notin {"check", "insert"}
  BY DEF ReportIInv, SummaryIInv, SummaryTypeOK, Start, Tick, reportVars
<1> QED
  BY <1>1, <1>2, <1>3, RunStepOK DEF reportVars

\* No step of the report, its rows or its runs breaks the invariant.
LEMMA ReportStepOK == ReportIInv /\ [ReportNext]_vars => ReportIInv'
<1> SUFFICES ASSUME ReportIInv, [ReportNext]_vars PROVE ReportIInv'
  OBVIOUS
<1>0. SummaryIInv'
  BY ReportStepMaps, SummaryStepOK DEF ReportIInv
<1>1. CASE UNCHANGED vars
  <2>1. now \in Nat
    BY ClockType DEF ReportIInv, SummaryIInv
  <2>2. ReportTypeOK'
    BY <1>1 DEF ReportIInv, ReportTypeOK, vars, worldVars, reportVars
  <2> QED
    BY <1>0, <1>1, <2>1, <2>2, RunStepOK DEF vars, summaryVars, reportVars
<1>2. CASE \E x \in Items : Inserting(x) \/ Moves(x) \/ DeadLetter(x)
  BY <1>0, <1>2, WorldOK
<1>3. CASE \E a \in Actors : BeginReport(a)
  BY <1>0, <1>3, BeginReportOK
<1>4. CASE \E a \in Actors : Gather(a)
  BY <1>0, <1>4, GatherOK
<1>5. CASE \E a \in Actors : RunReport(a) \/ CutReport(a)
  BY <1>0, <1>5, RunReportOK
<1>6. CASE /\ (\E p \in Procs : Start(p)) \/ Tick
           /\ UNCHANGED <<worldVars, reportVars>>
  BY <1>0, <1>6, IdleOK
<1> QED
  BY <1>1, <1>2, <1>3, <1>4, <1>5, <1>6 DEF ReportNext

-----------------------------------------------------------------------------
(* The theorems.                                                           *)

\* ReportIInv is an invariant of the daily summary and its statistics.
THEOREM ReportInvariance == ReportSpec => []ReportIInv
<1>1. ReportInit => ReportIInv
  <2> SUFFICES ASSUME ReportInit PROVE ReportIInv
    OBVIOUS
  <2>1. Init /\ \A a \in Actors : at[a] = "off"
    BY DEF ReportInit, Init
  <2>2. SummaryIInv
    BY <2>1, SummaryInitOK
  <2>3. /\ "absent" \in Statuses
        /\ Nothing \in [counted : SUBSET (Items \X Statuses), dead : BOOLEAN]
    BY DEF Statuses, Nothing
  <2>4. ReportTypeOK
    BY <2>3 DEF ReportInit, ReportTypeOK
  <2>5. \A x \in Items : status[x] = "absent" /\ made[x] = Never
    BY DEF ReportInit
  <2>6. DOMAIN reports = {}
    BY DEF ReportInit
  <2> QED
    BY <2>1, <2>2, <2>4, <2>5, <2>6 DEF ReportIInv
<1> QED
  BY <1>1, ReportStepOK, PTL DEF ReportSpec

\* Of the summaries of the scheduler's runs of two successive days, whenever
\* their timers fired, exactly one counts a row created outside the instants at
\* which such runs may begin, unless its INSERT was open meanwhile.
THEOREM CountedOnceUpToLatenessHolds == ReportSpec => []CountedOnceUpToLateness
<1>1. ReportIInv => CountedOnceUpToLateness
  <2> SUFFICES ASSUME ReportIInv,
                      NEW i \in DOMAIN reports, NEW j \in DOMAIN reports,
                      NEW f, f = reports[i].fired, f # Never,
                      reports[j].fired = f + Day,
                      NEW x \in Items \ missed, made[x] # Never
               PROVE  /\ made[x] + Day >= f + Late /\ made[x] + Early < f =>
                           x \in reports[i].counted \ reports[j].counted
                      /\ made[x] >= f + Late /\ made[x] + Early < f + Day =>
                           x \in reports[j].counted \ reports[i].counted
    BY DEF CountedOnceUpToLateness
  <2>1. /\ reports[i].end \in Nat /\ reports[j].end \in Nat
        /\ f \in Nat /\ made[x] \in Nat
    BY ReportType DEF ReportIInv, ReportTypeOK, Summaries
  <2>2. Day \in Nat /\ Late \in Nat /\ Early \in Nat /\ f + Day # Never
    BY <2>1, SummaryAssumption, ReportAssumption DEF Early
  <2>3. OnTime(f, reports[i].end) /\ OnTime(f + Day, reports[j].end)
    BY <2>2 DEF ReportIInv, ReportTells
  <2>4. /\ x \in reports[i].counted <=> InPeriod(x, reports[i].end)
        /\ x \in reports[j].counted <=> InPeriod(x, reports[j].end)
    BY DEF ReportIInv, ReportTells
  <2> QED
    BY <2>1, <2>2, <2>3, <2>4 DEF OnTime, InPeriod
<1> QED
  BY <1>1, ReportInvariance, PTL

\* A summary whose run began in trouble never recommends nothing, whatever
\* happened between its queries.
THEOREM TroubleIsSaidHolds == ReportSpec => []TroubleIsSaid
<1>1. ReportIInv => TroubleIsSaid
  BY DEF ReportIInv, ReportTells, TroubleIsSaid
<1> QED
  BY <1>1, ReportInvariance, PTL
=============================================================================
