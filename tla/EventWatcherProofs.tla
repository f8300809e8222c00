------------------------- MODULE EventWatcherProofs -------------------------
(***************************************************************************)
(* The watcher covers the commit HEAD is at, for any number of commits and *)
(* moves of HEAD and every interleaving of the two threads.                *)
(***************************************************************************)
EXTENDS EventWatcher, TLAPS

\* Before EventWatcher.start nothing is known and nothing runs.
LEMMA WatcherInitOK == Init => WatcherIInv
<1> SUFFICES ASSUME Init PROVE WatcherIInv
  OBVIOUS
<1>1. at["main"] = "down" /\ at["dispatcher"] = "down"
  BY DEF Init, Threads
<1>2. WatcherTypeOK
  <2>1. at \in [Threads -> MainAt \cup {"wait"}]
    BY DEF Init, MainAt
  <2>2. got \in [Threads -> Shas \cup {NoSha}] /\ scheduled \in [Shas -> Nat]
    BY DEF Init
  <2>3. head \in Shas /\ moves \in 0..MaxMoves /\ events \in Nat
    BY WatcherAssumption DEF Init
  <2>4. last = NoSha /\ covered = {} /\ missed = FALSE
    BY DEF Init
  <2> QED
    BY <1>1, <2>1, <2>2, <2>3, <2>4 DEF WatcherTypeOK
<1>3. LastKnown /\ TipInSight
  BY <1>1 DEF LastKnown, TipInSight, Observing
<1>4. ThreadsOK
  BY <1>1 DEF ThreadsOK, Threads, Observing
<1> QED
  BY <1>2, <1>3, <1>4 DEF WatcherIInv

\* Each step of the two threads, the loop, the repository and the process
\* keeps the types.
LEMMA WatcherTypeStep == WatcherIInv /\ [Next]_watcherVars => WatcherTypeOK'
<1> SUFFICES ASSUME WatcherIInv, [Next]_watcherVars PROVE WatcherTypeOK'
  OBVIOUS
<1> USE WatcherAssumption DEF WatcherIInv, WatcherTypeOK, Threads, MainAt
<1>1. CASE UNCHANGED watcherVars
  BY <1>1 DEF watcherVars
<1>2. ASSUME NEW s \in Shas, Move(s) PROVE WatcherTypeOK'
  BY <1>2 DEF Move
<1>3. ASSUME NEW s \in Shas \cup {NoSha}, Construct(s) PROVE WatcherTypeOK'
  BY <1>3 DEF Construct
<1>4. CASE StartObserver \/ TakeEvent
  BY <1>4 DEF StartObserver, TakeEvent
<1>5. ASSUME NEW t \in Threads, Thread(t) PROVE WatcherTypeOK'
  <2>1. ASSUME NEW s \in Shas \cup {NoSha}, Read(t, s) PROVE WatcherTypeOK'
    BY <2>1 DEF Read
  <2>2. CASE Test(t)
    BY <2>2 DEF Test, Over
  <2>3. CASE Set(t)
    BY <2>3 DEF Set, Over, ThreadsOK
  <2> QED
    BY <1>5, <2>1, <2>2, <2>3 DEF Thread
<1>6. ASSUME NEW s \in Shas, NEW q \in BOOLEAN, Emit(s, q) PROVE WatcherTypeOK'
  BY <1>6 DEF Emit
<1>7. CASE Close \/ Halt
  BY <1>7 DEF Close, Halt
<1> QED
  BY <1>1, <1>2, <1>3, <1>4, <1>5, <1>6, <1>7 DEF Next, Loop

\* Each of those steps also keeps what is known of _last_sha and of HEAD.
LEMMA WatcherStepOK == WatcherIInv /\ [Next]_watcherVars => WatcherIInv'
<1> SUFFICES ASSUME WatcherIInv, [Next]_watcherVars PROVE WatcherIInv'
  OBVIOUS
<1>0. WatcherTypeOK'
  BY WatcherTypeStep
<1> SUFFICES (LastKnown /\ TipInSight /\ ThreadsOK)'
  BY <1>0 DEF WatcherIInv
<1> USE <1>0, WatcherAssumption
        DEF WatcherIInv, WatcherTypeOK, LastKnown, TipInSight, ThreadsOK,
            Threads, MainAt, Observing, InHand, Pending
<1>1. CASE UNCHANGED watcherVars
  BY <1>1 DEF watcherVars
<1>2. ASSUME NEW s \in Shas, Move(s) PROVE (LastKnown /\ TipInSight /\ ThreadsOK)'
  BY <1>2 DEF Move
<1>3. ASSUME NEW s \in Shas \cup {NoSha}, Construct(s)
      PROVE  (LastKnown /\ TipInSight /\ ThreadsOK)'
  BY <1>3 DEF Construct, HeadSha
<1>4. CASE StartObserver \/ TakeEvent
  BY <1>4 DEF StartObserver, TakeEvent
<1>5. ASSUME NEW t \in Threads, Thread(t)
      PROVE  (LastKnown /\ TipInSight /\ ThreadsOK)'
  <2>1. ASSUME NEW s \in Shas \cup {NoSha}, Read(t, s)
        PROVE  (LastKnown /\ TipInSight /\ ThreadsOK)'
    BY <2>1 DEF Read, HeadSha
  <2>2. CASE Test(t)
    BY <2>2 DEF Test, Over
  <2>3. CASE Set(t)
    BY <2>3 DEF Set, Over
  <2> QED
    BY <1>5, <2>1, <2>2, <2>3 DEF Thread
<1>6. ASSUME NEW s \in Shas, NEW q \in BOOLEAN, Emit(s, q)
      PROVE  (LastKnown /\ TipInSight /\ ThreadsOK)'
  BY <1>6 DEF Emit
<1>7. CASE Close
  <2>1. /\ \A t \in Threads : t # "main" => at'[t] = at[t]
        /\ at["main"] = "up" /\ at'["main"] = "closed" /\ got' = got
    BY <1>7 DEF Close
  <2> QED
    BY <2>1
<1>8. CASE Halt
  <2>1. at'["main"] = "down" /\ at'["dispatcher"] = "down"
    BY <1>8 DEF Halt
  <2>2. LastKnown' /\ TipInSight'
    BY <2>1 DEF LastKnown, TipInSight, Observing
  <2> QED
    BY <2>1, <2>2 DEF ThreadsOK, Threads
<1> HIDE DEF WatcherIInv, WatcherTypeOK, LastKnown, TipInSight, ThreadsOK, Pending
<1> QED
  BY <1>1, <1>2, <1>3, <1>4, <1>5, <1>6, <1>7, <1>8 DEF Next, Loop

\* WatcherIInv in every state: however the dispatcher and _reconcile_after_start
\* interleave on _last_sha, which no lock guards, it names a commit that is
\* covered or scheduled, and HEAD is that or on its way, unless a call failed.
THEOREM WatcherInvariance == Spec => []WatcherIInv
BY WatcherInitOK, WatcherStepOK, PTL DEF Spec

\* HeadCovered: after every race of on_any_event and _reconcile_after_start
\* the commit at HEAD has its job, unless a call failed.
THEOREM HeadCoveredHolds == Spec => []HeadCovered
<1>1. WatcherIInv => HeadCovered
  BY DEF WatcherIInv, HeadCovered, TipInSight, Quiescent, InHand, Observing,
         Threads, Pending
<1> QED
  BY <1>1, WatcherInvariance, PTL
=============================================================================
