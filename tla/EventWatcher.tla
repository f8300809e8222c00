---------------------------- MODULE EventWatcher ----------------------------
(***************************************************************************)
(* core/events/watcher.py for one watched repository.  Two threads run the *)
(* same three steps on the handler's _last_sha without a lock: the         *)
(* Watchdog dispatcher in on_any_event, one filesystem event at a time,    *)
(* and the main thread in _reconcile_after_start.  Each reads HEAD with    *)
(* git, compares it with _last_sha, and sets _last_sha and schedules       *)
(* _emit_commit on the event loop, which is the main thread again once     *)
(* start has returned.                                                     *)
(***************************************************************************)
EXTENDS Naturals, FiniteSets

CONSTANTS
    Shas,       \* the commits HEAD can be at
    NoSha,      \* None: git failed
    MaxMoves,   \* bound: how often HEAD moves
    Faults      \* the kinds of call that may fail: "git", "redis"

ASSUME WatcherAssumption ==
    /\ NoSha \notin Shas
    /\ MaxMoves \in Nat
    /\ Faults \in SUBSET {"git", "redis"}

Threads == {"main", "dispatcher"}

VARIABLES
    head,        \* the repository's HEAD
    moves,       \* how often it moved
    events,      \* filesystem events the dispatcher has not taken
    at,          \* at[t]: where thread t is
    got,         \* got[t]: the sha it read
    last,        \* handler._last_sha
    scheduled,   \* scheduled[s]: the _emit_commit calls of s the loop holds
    covered,     \* history: shas that were enqueued, or HEAD at construction
    missed       \* history: a git or Redis call failed since construction

watcherVars == <<head, moves, events, at, got, last, scheduled, covered,
                 missed>>

\* The observer is running; the loop takes callbacks.
MainAt == {"down", "built", "read", "test", "set", "up", "closed"}
Observing == {"read", "test", "set", "up"}

WatcherTypeOK ==
    /\ head \in Shas
    /\ moves \in 0..MaxMoves
    /\ events \in Nat
    /\ at \in [Threads -> MainAt \cup {"wait"}]
    /\ at["main"] # "wait"
    /\ at["dispatcher"] \in {"down", "wait", "read", "test", "set"}
    /\ got \in [Threads -> Shas \cup {NoSha}]
    /\ last \in Shas \cup {NoSha}
    /\ scheduled \in [Shas -> Nat]
    /\ covered \in SUBSET Shas
    /\ missed \in BOOLEAN

Init ==
    /\ head \in Shas
    /\ moves = 0
    /\ events = 0
    /\ at = [t \in Threads |-> "down"]
    /\ got = [t \in Threads |-> NoSha]
    /\ last = NoSha
    /\ scheduled = [s \in Shas |-> 0]
    /\ covered = {}
    /\ missed = FALSE

\* What _current_head_sha may return.
HeadSha == {head} \cup (IF "git" \in Faults THEN {NoSha} ELSE {})

-----------------------------------------------------------------------------
\* A commit, checkout or reset: HEAD moves, and a running observer is told.
Move(s) ==
    /\ moves < MaxMoves
    /\ s # head
    /\ head' = s
    /\ moves' = moves + 1
    /\ events' = IF at["main"] \in Observing THEN events + 1 ELSE events
    /\ UNCHANGED <<at, got, last, scheduled, covered, missed>>

\* EventWatcher.start: the handler is constructed and reads HEAD.
Construct(s) ==
    /\ at["main"] = "down"
    /\ s \in HeadSha
    /\ at' = [at EXCEPT !["main"] = "built"]
    /\ last' = s
    /\ covered' = covered \cup ({s} \ {NoSha})
    /\ missed' = FALSE
    /\ UNCHANGED <<head, moves, events, got, scheduled>>

\* Faulty variant: start does not reconcile.
StartUnreconciled ==
    /\ at["main"] = "built"
    /\ at' = [at EXCEPT !["main"] = "up", !["dispatcher"] = "wait"]
    /\ UNCHANGED <<head, moves, events, got, last, scheduled, covered, missed>>

\* EventWatcher.start: observer.start(), then _reconcile_after_start.
StartObserver ==
    /\ at["main"] = "built"
    /\ at' = [at EXCEPT !["main"] = "read", !["dispatcher"] = "wait"]
    /\ UNCHANGED <<head, moves, events, got, last, scheduled, covered, missed>>

\* The dispatcher takes an event and calls on_any_event.
TakeEvent ==
    /\ at["dispatcher"] = "wait"
    /\ events > 0
    /\ events' = events - 1
    /\ at' = [at EXCEPT !["dispatcher"] = "read"]
    /\ UNCHANGED <<head, moves, got, last, scheduled, covered, missed>>

\* Where thread t is once its comparison, or its schedule, is over.
Over(t) == IF t = "main" THEN "up" ELSE "wait"

\* new_sha = _current_head_sha(...)
Read(t, s) ==
    /\ at[t] = "read"
    /\ s \in HeadSha
    /\ got' = [got EXCEPT ![t] = s]
    /\ at' = [at EXCEPT ![t] = "test"]
    /\ missed' = (missed \/ s = NoSha)
    /\ UNCHANGED <<head, moves, events, last, scheduled, covered>>

\* if new_sha and new_sha != _last_sha
Test(t) ==
    /\ at[t] = "test"
    /\ at' = [at EXCEPT ![t] =
                IF got[t] # NoSha /\ got[t] # last THEN "set" ELSE Over(t)]
    /\ UNCHANGED <<head, moves, events, got, last, scheduled, covered, missed>>

\* Faulty variant: the loop is only known once start has returned.
SetLoopUnknown(t) ==
    /\ at[t] = "set"
    /\ last' = got[t]
    /\ scheduled' = IF at["main"] = "up"
                    THEN [scheduled EXCEPT ![got[t]] = @ + 1] ELSE scheduled
    /\ at' = [at EXCEPT ![t] = Over(t)]
    /\ UNCHANGED <<head, moves, events, got, covered, missed>>

\* _last_sha = new_sha, and run_coroutine_threadsafe unless the loop is closed.
Set(t) ==
    /\ at[t] = "set"
    /\ last' = got[t]
    /\ scheduled' = IF at["main"] = "closed" THEN scheduled
                    ELSE [scheduled EXCEPT ![got[t]] = @ + 1]
    /\ at' = [at EXCEPT ![t] = Over(t)]
    /\ UNCHANGED <<head, moves, events, got, covered, missed>>

\* The loop runs _emit_commit: the commit is read and its job enqueued, or
\* the enqueue raises and nobody looks at the coroutine's exception.
Emit(s, queued) ==
    /\ at["main"] = "up"
    /\ scheduled[s] > 0
    /\ scheduled' = [scheduled EXCEPT ![s] = @ - 1]
    /\ covered' = IF queued THEN covered \cup {s} ELSE covered
    /\ missed' = (missed \/ ~queued)
    /\ UNCHANGED <<head, moves, events, at, got, last>>

\* stop, and the end of asyncio.run: the loop is closed and what it holds is
\* dropped; a dispatcher that outlived join(timeout=5) may still be running.
Close ==
    /\ at["main"] = "up"
    /\ at' = [at EXCEPT !["main"] = "closed"]
    /\ scheduled' = [s \in Shas |-> 0]
    /\ events' = 0
    /\ UNCHANGED <<head, moves, got, last, covered, missed>>

\* The process ends, by itself or by a crash.
Halt ==
    /\ at["main"] # "down"
    /\ at' = [t \in Threads |-> "down"]
    /\ got' = [t \in Threads |-> NoSha]
    /\ last' = NoSha
    /\ scheduled' = [s \in Shas |-> 0]
    /\ events' = 0
    /\ UNCHANGED <<head, moves, covered, missed>>

Thread(t) ==
    \/ \E s \in Shas \cup {NoSha} : Read(t, s)
    \/ Test(t)
    \/ Set(t)

Loop(s) == \E queued \in {TRUE} \cup {"redis" \notin Faults} : Emit(s, queued)

Next ==
    \/ \E s \in Shas : Move(s)
    \/ \E s \in Shas \cup {NoSha} : Construct(s)
    \/ StartObserver
    \/ TakeEvent
    \/ \E t \in Threads : Thread(t)
    \/ \E s \in Shas : Loop(s)
    \/ Close
    \/ Halt

Spec == Init /\ [][Next]_watcherVars

\* Both threads run, the observer delivers what it was told, and the event
\* loop runs what it was given.
FairSpec ==
    /\ Spec
    /\ WF_watcherVars(StartObserver)
    /\ WF_watcherVars(TakeEvent)
    /\ \A t \in Threads : WF_watcherVars(Thread(t))
    /\ \A s \in Shas : WF_watcherVars(Loop(s))

-----------------------------------------------------------------------------
Pending == {s \in Shas : scheduled[s] > 0}

\* Nothing is under way: no event, no thread inside a handler, no callback.
Quiescent ==
    /\ at["main"] = "up"
    /\ at["dispatcher"] = "wait"
    /\ events = 0
    /\ Pending = {}

\* When nothing is under way and no call failed, the commit HEAD is at was
\* enqueued or was there when the handler was constructed, however the
\* dispatcher and _reconcile_after_start raced on _last_sha.
HeadCovered == Quiescent /\ ~missed => head \in covered

(* The inductive invariant behind it.                                      *)

\* _last_sha names a commit that is covered or will be.
LastKnown ==
    at["main"] \in {"built"} \cup Observing /\ ~missed =>
        last \in covered \cup Pending \cup {NoSha}

\* Some thread has HEAD in hand, or is about to.
InHand(t) == at[t] = "read" \/ (at[t] \in {"test", "set"} /\ got[t] = head)

TipInSight ==
    at["main"] \in Observing /\ ~missed =>
        \/ head \in covered \cup Pending
        \/ events > 0
        \/ \E t \in Threads : InHand(t)

\* A thread that is about to set _last_sha has a sha; the dispatcher runs
\* only while there is an observer.
ThreadsOK ==
    /\ \A t \in Threads : at[t] = "set" => got[t] \in Shas
    /\ at["main"] \in {"down", "built"} => at["dispatcher"] = "down"
    /\ at["main"] \in Observing => at["dispatcher"] # "down"

WatcherIInv == WatcherTypeOK /\ LastKnown /\ TipInSight /\ ThreadsOK

\* A commit that stays HEAD while the watcher is up gets its job.
TipGetsQueued ==
    \A s \in Shas :
        at["main"] \in Observing /\ head = s ~>
            (s \in covered \/ head # s \/ missed \/ at["main"] \notin Observing)
=============================================================================
