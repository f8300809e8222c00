--------------------------- MODULE WatchersProofs ---------------------------
(***************************************************************************)
(* What the dashboard shows of the two watchers is true, for any chain,    *)
(* any number of checks kept and shown, any repositories and any replies   *)
(* of gh, also after a task has died or was stopped.                       *)
(***************************************************************************)
EXTENDS Watchers, TLAPS

\* A slice [-max:] has the newest entries, in their order.
LEMMA LastOfKeeps ==
    ASSUME NEW T, NEW s \in Seq(T), NEW max \in Nat \ {0}
    PROVE  /\ LastOf(s, max) \in Seq(T)
           /\ Len(LastOf(s, max)) <= max
           /\ Len(LastOf(s, max)) <= Len(s)
           /\ s # <<>> => Len(LastOf(s, max)) > 0
           /\ \A n \in 1..Len(LastOf(s, max)) :
                LastOf(s, max)[n] = s[n + Len(s) - Len(LastOf(s, max))]
<1>1. CASE Len(s) > max
  <2> DEFINE first == Len(s) - max + 1
  <2>1. first \in 1..Len(s)
    BY <1>1
  <2>2. LastOf(s, max) = SubSeq(s, first, Len(s))
    BY <1>1 DEF LastOf
  <2>3. /\ SubSeq(s, first, Len(s)) \in Seq(T)
        /\ Len(SubSeq(s, first, Len(s))) = max
        /\ \A n \in 1..max : SubSeq(s, first, Len(s))[n] = s[first + n - 1]
    BY <2>1
  <2>4. ASSUME NEW n \in 1..max PROVE first + n - 1 = n + Len(s) - max
    OBVIOUS
  <2> QED
    BY <1>1, <2>2, <2>3, <2>4
<1>2. CASE ~(Len(s) > max)
  BY <1>2 DEF LastOf
<1> QED
  BY <1>1, <1>2

\* The checks after _check_once: those it kept, and the new one.
LEMMA RingTakes ==
    ASSUME NEW T, NEW s \in Seq(T), NEW c \in T
    PROVE  LET r == Ring(Append(s, c)) IN
           /\ r \in Seq(T) /\ Len(r) \in 1..MaxChecks
           /\ Len(r) <= Len(s) + 1
           /\ r[Len(r)] = c
           /\ \A n \in 1..(Len(r) - 1) : r[n] = s[n + Len(s) + 1 - Len(r)]
<1> DEFINE t == Append(s, c)
           r == Ring(t)
<1>0. Len(s) \in Nat /\ t \in Seq(T) /\ Len(t) = Len(s) + 1
  OBVIOUS
<1>1. t \in Seq(T) /\ Len(t) = Len(s) + 1 /\ t # <<>>
  BY <1>0
<1>2. /\ r \in Seq(T) /\ Len(r) <= MaxChecks /\ Len(r) <= Len(t) /\ Len(r) > 0
      /\ \A n \in 1..Len(r) : r[n] = t[n + Len(t) - Len(r)]
  <2>1. r = LastOf(t, MaxChecks) /\ MaxChecks \in Nat \ {0}
    BY IntegrityAssumption DEF Ring
  <2> HIDE DEF t, r
  <2> QED
    BY <1>1, <2>1, LastOfKeeps
<1> HIDE DEF r
<1>3. r[Len(r)] = c
  <2>1. r[Len(r)] = t[Len(t)]
    BY <1>1, <1>2
  <2> QED
    BY <1>1, <2>1
<1>4. ASSUME NEW n \in 1..(Len(r) - 1) PROVE r[n] = s[n + Len(s) + 1 - Len(r)]
  <2>1. n + Len(t) - Len(r) \in 1..Len(s)
    BY <1>1, <1>2
  <2>2. r[n] = t[n + Len(t) - Len(r)]
    BY <1>2
  <2> QED
    BY <1>1, <1>2, <2>1, <2>2
<1> QED
  BY <1>1, <1>2, <1>3, <1>4, IntegrityAssumption DEF r

\* A chain that is valid has a head.
LEMMA ValidHasHead ==
    ASSUME NEW c \in Verified \cup {Error}, Valid(c)
    PROVE  c.head \in Heads
BY DEF Verified, Error, Result, Valid

\* _check_once keeps the dashboard true.
LEMMA CheckOnceOK ==
    ASSUME IntegrityTypeOK, IntegrityViewIsTrue, CheckOnce
    PROVE  IntegrityTypeOK' /\ IntegrityViewIsTrue'
<1> DEFINE Checked == Verified \cup {Error}
<1>1. PICK c \in Verdicts : /\ checks' = Ring(Append(checks, c)) /\ latest' = c
                            /\ lastHead' = HeadAfter(c) /\ chain' = chain
  BY DEF CheckOnce
<1>2. c \in Checked
  BY DEF Verdicts, IntegrityTypeOK
<1>3. checks \in Seq(Checked)
  BY DEF IntegrityTypeOK
<1>4. /\ checks' \in Seq(Checked) /\ Len(checks') \in 1..MaxChecks
      /\ Len(checks') <= Len(checks) + 1
      /\ checks'[Len(checks')] = c
      /\ \A n \in 1..(Len(checks') - 1) :
           checks'[n] = checks[n + Len(checks) + 1 - Len(checks')]
  <2> DEFINE kept == Ring(Append(checks, c))
  <2> HIDE DEF Checked
  <2>1. /\ kept \in Seq(Checked) /\ Len(kept) \in 1..MaxChecks
        /\ Len(kept) <= Len(checks) + 1
        /\ kept[Len(kept)] = c
        /\ \A n \in 1..(Len(kept) - 1) : kept[n] = checks[n + Len(checks) + 1 - Len(kept)]
    BY <1>2, <1>3, RingTakes
  <2>2. checks' = kept
    BY <1>1
  <2> HIDE DEF kept
  <2> QED
    BY <2>1, <2>2
<1>5. lastHead' \in Heads \cup {NoHead}
  BY <1>1, <1>2, ValidHasHead DEF HeadAfter, Valid, IntegrityTypeOK
<1>6. IntegrityTypeOK'
  BY <1>1, <1>2, <1>4, <1>5 DEF IntegrityTypeOK
<1>7. View'[Len(View')] = latest'
  <2> DEFINE v == LastOf(checks', Shown)
  <2>1. Shown \in Nat \ {0} /\ checks' # <<>> /\ Len(checks') \in Nat
    BY <1>4, IntegrityAssumption
  <2>2. /\ Len(v) \in Nat /\ Len(v) > 0
        /\ \A n \in 1..Len(v) : v[n] = checks'[n + Len(checks') - Len(v)]
    BY <1>4, <2>1, LastOfKeeps
  <2> HIDE DEF v
  <2>3. v[Len(v)] = checks'[Len(checks')]
    BY <2>1, <2>2
  <2> QED
    BY <1>1, <1>4, <2>3 DEF View, v
<1>8. ASSUME NEW n \in DOMAIN checks', Valid(checks'[n]),
             \A m \in DOMAIN checks' : m > n => ~Valid(checks'[m])
      PROVE  lastHead' = checks'[n].head
  <2> DEFINE k == Len(checks')
             old == n + Len(checks) + 1 - k
  <2>0. k \in DOMAIN checks' /\ n \in 1..k /\ k \in 1..MaxChecks
    BY <1>4, <1>8
  <2>1. CASE n = k
    <3>1. c.head \in Heads /\ c.status = "CHAIN_VALID"
      BY <1>2, <1>4, <1>8, <2>1, ValidHasHead DEF Valid
    <3>2. lastHead' = c.head
      BY <1>1, <3>1, IntegrityAssumption DEF HeadAfter
    <3> QED
      BY <1>4, <2>1, <3>2
  <2>2. CASE n # k
    <3>1. ~Valid(c)
      BY <1>4, <1>8, <2>0, <2>2
    <3>2. lastHead' = lastHead
      BY <1>1, <3>1 DEF HeadAfter, Valid
    <3>3. old \in DOMAIN checks /\ checks'[n] = checks[old]
      <4>1. n \in 1..(k - 1) /\ checks'[n] = checks[old]
        BY <1>4, <2>0, <2>2
      <4>2. Len(checks) \in Nat /\ k <= Len(checks) + 1 /\ k \in Nat
        BY <1>3, <1>4, <2>0, IntegrityAssumption
      <4>3. old \in 1..Len(checks)
        BY <4>1, <4>2
      <4>4. DOMAIN checks = 1..Len(checks)
        BY <1>3
      <4> QED
        BY <4>1, <4>3, <4>4
    <3>4. ASSUME NEW m \in DOMAIN checks, m > old PROVE ~Valid(checks[m])
      <4> DEFINE new == m + k - Len(checks) - 1
      <4>1. new \in 1..(k - 1) /\ new > n /\ new + Len(checks) + 1 - k = m
        BY <1>3, <1>4, <2>0, <3>4
      <4>2. checks'[new] = checks[m]
        BY <1>4, <4>1
      <4> QED
        BY <1>4, <1>8, <4>1, <4>2
    <3> QED
      BY <1>8, <3>2, <3>3, <3>4 DEF IntegrityViewIsTrue
  <2> QED
    BY <2>1, <2>2
<1> QED
  BY <1>6, <1>7, <1>8 DEF IntegrityViewIsTrue

\* _detect_flaky_workflows finds the workflows with a failure and a success on
\* one commit.
LEMMA FlakyIsRight ==
    ASSUME NEW rs \in SUBSET Run
    PROVE  Flaky(rs) =
             {r.name : r \in {f \in {x \in rs : x.conclusion = "failure"} :
                [f EXCEPT !.conclusion = "success"] \in rs}}
<1> DEFINE both == {f \in {x \in rs : x.conclusion = "failure"} :
                      [f EXCEPT !.conclusion = "success"] \in rs}
<1>1. ASSUME NEW n \in Flaky(rs) PROVE \E r \in both : r.name = n
  <2>1. PICK s \in Commits : {"success", "failure"} \subseteq ConclusionsOf(rs, n, s)
    BY DEF Flaky
  <2>2. PICK a \in rs : a.name = n /\ a.sha = s /\ a.conclusion = "success"
    BY <2>1 DEF ConclusionsOf
  <2>3. PICK f \in rs : f.name = n /\ f.sha = s /\ f.conclusion = "failure"
    BY <2>1 DEF ConclusionsOf
  <2>4. [f EXCEPT !.conclusion = "success"] = a
    BY <2>2, <2>3 DEF Run
  <2> QED
    BY <2>2, <2>3, <2>4
<1>2. ASSUME NEW f \in both PROVE f.name \in Flaky(rs)
  <2> DEFINE a == [f EXCEPT !.conclusion = "success"]
  <2>1. /\ f \in rs /\ f \in Run /\ f.conclusion = "failure"
        /\ a \in rs /\ a.conclusion = "success" /\ a.name = f.name /\ a.sha = f.sha
        /\ f.name \in Names /\ f.sha \in Commits
    BY DEF Run
  <2>2. {"success", "failure"} \subseteq ConclusionsOf(rs, f.name, f.sha)
    BY <2>1 DEF ConclusionsOf
  <2> QED
    BY <2>1, <2>2 DEF Flaky
<1> QED
  BY <1>1, <1>2

\* So a report that was made from runs says what they say.
LEMMA MadeIsRight == CITypeOK /\ ReportIsMade => ReportIsRight
<1>1. ASSUME report = ErrorCheck PROVE ReportIsRight
  BY <1>1 DEF ReportIsRight, ErrorCheck, Check
<1>2. ASSUME NEW rs \in SUBSET Run, report = CheckOf(rs) PROVE ReportIsRight
  <2>1. /\ report.runs = rs /\ report.flaky = Flaky(rs)
        /\ report.status = IF Flaky(rs) # {} \/ \E r \in rs : r.conclusion = "failure"
                           THEN "WARN" ELSE "OK"
    BY <1>2 DEF CheckOf, Check
  <2> QED
    BY <2>1, FlakyIsRight DEF ReportIsRight
<1> QED
  BY <1>1, <1>2 DEF ReportIsMade

\* A poll, whatever gh prints and however it fails, and the wait between rounds.
LEMMA PollOK ==
    ASSUME CITypeOK, ReportIsMade, Poll \/ WakeUp
    PROVE  CITypeOK' /\ ReportIsMade'
<1>1. ASSUME NEW c, c.status \in {"OK", "WARN", "ERROR"}, c.flaky \in SUBSET Names,
             c.runs \in SUBSET Run, Recorded(c)
      PROVE  CITypeOK'
  <2>1. After(pos, c) \in Positions \cup {0}
    BY <1>1 DEF Recorded, After, Positions
  <2> QED
    BY <1>1, <2>1 DEF CITypeOK, Recorded
<1>2. CASE Fails
  <2>1. Recorded(ErrorCheck) /\ report' = ErrorCheck
    BY <1>2 DEF Fails, Recorded
  <2>2. CITypeOK'
    BY <1>1, <2>1 DEF ErrorCheck, Check
  <2> QED
    BY <2>1, <2>2 DEF ReportIsMade
<1>3. CASE Prints
  <2>1. PICK rs \in SUBSET Run : Recorded(CheckOf(rs))
    BY <1>3 DEF Prints, kSubset
  <2>2. /\ CheckOf(rs).status \in {"OK", "WARN", "ERROR"}
        /\ CheckOf(rs).flaky \in SUBSET Names /\ CheckOf(rs).runs \in SUBSET Run
    BY DEF CheckOf, Check, Flaky
  <2>3. CITypeOK'
    BY <1>1, <2>1, <2>2
  <2> QED
    BY <2>1, <2>3 DEF ReportIsMade, Recorded
<1>4. CASE Dies
  BY <1>4 DEF Dies, CITypeOK, ReportIsMade
<1>5. CASE WakeUp
  BY <1>5 DEF WakeUp, CITypeOK, ReportIsMade, Positions, ErrorCheck, CheckOf
<1> QED
  BY <1>2, <1>3, <1>4, <1>5 DEF Poll

-----------------------------------------------------------------------------
\* Before the first check and the first poll.
LEMMA WatchersInitOK == Init => WatchersIInv
<1> SUFFICES ASSUME Init PROVE WatchersIInv
  OBVIOUS
<1>1. report = CheckOf({}) /\ {} \in SUBSET Run
  BY DEF Init, CIInit, CheckOf, Check, Flaky, ConclusionsOf
<1>2. IntegrityTypeOK /\ IntegrityViewIsTrue
  BY IntegrityAssumption
     DEF Init, IntegrityInit, IntegrityTypeOK, IntegrityViewIsTrue, Verified
<1>3. CITypeOK
  BY DEF Init, CIInit, CITypeOK, Check, Positions
<1> QED
  BY <1>1, <1>2, <1>3 DEF WatchersIInv, TypeOK, ReportIsMade, Init

\* No check, poll, change of the chain or stop makes the dashboard untrue.
LEMMA WatchersStepOK == WatchersIInv /\ [Next]_vars => WatchersIInv'
<1> SUFFICES ASSUME WatchersIInv, [Next]_vars PROVE WatchersIInv'
  OBVIOUS
<1>0. TypeOK /\ IntegrityTypeOK /\ CITypeOK /\ IntegrityViewIsTrue /\ ReportIsMade
  BY DEF WatchersIInv, TypeOK
<1>1. ASSUME UNCHANGED integrityVars PROVE IntegrityTypeOK' /\ IntegrityViewIsTrue'
  BY <1>0, <1>1 DEF integrityVars, IntegrityTypeOK, IntegrityViewIsTrue, View
<1>2. ASSUME UNCHANGED ciVars PROVE CITypeOK' /\ ReportIsMade'
  BY <1>0, <1>2 DEF ciVars, CITypeOK, ReportIsMade
<1>3. CASE CheckIntegrity
  BY <1>0, <1>2, <1>3, CheckOnceOK DEF CheckIntegrity, WatchersIInv, TypeOK
<1>4. CASE IntegrityDies \/ Stop \/ UNCHANGED vars
  BY <1>0, <1>1, <1>2, <1>4 DEF IntegrityDies, Stop, vars, WatchersIInv, TypeOK
<1>5. CASE PollCI \/ WakeCI
  BY <1>0, <1>1, <1>5, PollOK DEF PollCI, WakeCI, WatchersIInv, TypeOK
<1>6. CASE ChainStep
  <2>1. IntegrityTypeOK' /\ IntegrityViewIsTrue'
    BY <1>0, <1>6 DEF ChainStep, ChainMoves, IntegrityTypeOK, IntegrityViewIsTrue, View
  <2> QED
    BY <1>0, <1>2, <1>6, <2>1 DEF ChainStep, WatchersIInv, TypeOK
<1>7. CASE AwaitTasks
  <2>1. /\ UNCHANGED <<integrityVars, pos, report, about>>
        /\ ci' \in {ci, "ended"} /\ iw' \in {iw, "ended"}
        /\ stage' \in {"raised", "closed"}
    BY <1>7 DEF AwaitTasks
  <2>2. CITypeOK' /\ ReportIsMade'
    BY <1>0, <2>1 DEF CITypeOK, ReportIsMade
  <2> QED
    BY <1>0, <1>1, <2>1, <2>2 DEF WatchersIInv, TypeOK
<1> QED
  BY <1>3, <1>4, <1>5, <1>6, <1>7 DEF Next

\* WatchersIInv in every state: _check_once and _check_all keep what they record
\* true, whatever verify_chain and gh say.
THEOREM WatchersInvariance == Spec => []WatchersIInv
BY WatchersInitOK, WatchersStepOK, PTL DEF Spec

\* IntegrityViewIsTrue: GET /watchers ends with the newest check, and last_head
\* is the head of the newest valid check the ring still has.
THEOREM IntegrityViewIsTrueHolds == Spec => []IntegrityViewIsTrue
<1>1. WatchersIInv => IntegrityViewIsTrue
  BY DEF WatchersIInv
<1> QED
  BY <1>1, WatchersInvariance, PTL

\* ReportIsRight: _detect_flaky_workflows and the status of _check_repo say what
\* the runs say, for any list of runs gh prints.
THEOREM ReportIsRightHolds == Spec => []ReportIsRight
<1>1. WatchersIInv => ReportIsRight
  BY MadeIsRight DEF WatchersIInv, TypeOK
<1> QED
  BY <1>1, WatchersInvariance, PTL
=============================================================================
