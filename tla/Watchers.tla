------------------------------ MODULE Watchers ------------------------------
(***************************************************************************)
(* The two background tasks Orchestrator.start creates and stop ends: both *)
(* poll until stop cancels them, unless an exception ended one before.     *)
(***************************************************************************)
EXTENDS IntegrityWatcher, CIWatcher

VARIABLES
    iw,      \* the integrity task: "on", "dead" or "ended"
    stage    \* the orchestrator: "up", "stopping", "closed" or "raised"

vars == <<integrityVars, ciVars, iw, stage>>

TypeOK ==
    /\ IntegrityTypeOK
    /\ CITypeOK
    /\ iw \in {"on", "dead", "ended"}
    /\ stage \in {"up", "stopping", "closed", "raised"}

Init ==
    /\ IntegrityInit
    /\ CIInit
    /\ iw = "on"
    /\ stage = "up"

CheckIntegrity ==
    /\ stage = "up" /\ iw = "on"
    /\ CheckOnce
    /\ UNCHANGED <<ciVars, iw, stage>>

\* The protocol package raises another exception than ImportError when it is
\* imported, or verify_chain returns no result with the four fields.
IntegrityDies ==
    /\ stage = "up" /\ iw = "on"
    /\ iw' = "dead"
    /\ UNCHANGED <<integrityVars, ciVars, stage>>

\* While stop waits, wait_for may have lost the cancel to a reply of gh that
\* came with it: the round goes on.
PollCI ==
    /\ stage \in {"up", "stopping"}
    /\ Poll
    /\ UNCHANGED <<integrityVars, iw, stage>>

WakeCI ==
    /\ stage = "up"
    /\ WakeUp
    /\ UNCHANGED <<integrityVars, iw, stage>>

\* stop: both events are set, both tasks cancelled.
Stop ==
    /\ stage = "up"
    /\ stage' = "stopping"
    /\ UNCHANGED <<integrityVars, ciVars, iw>>

\* stop awaits each task, which ends by itself or by the cancel of the 3
\* second timeout; an exception a task died of is raised again, and then the
\* queue's connection is not closed.
AwaitTasks ==
    /\ stage = "stopping"
    /\ IF iw = "dead" \/ ci = "dead"
       THEN stage' = "raised" /\ UNCHANGED <<ci, iw>>
       ELSE stage' = "closed" /\ ci' = "ended" /\ iw' = "ended"
    /\ UNCHANGED <<integrityVars, pos, report, about>>

ChainStep == stage # "closed" /\ ChainMoves /\ UNCHANGED <<ciVars, iw, stage>>

Next ==
    \/ CheckIntegrity \/ IntegrityDies \/ PollCI \/ WakeCI \/ ChainStep
    \/ Stop \/ AwaitTasks

Spec == Init /\ [][Next]_vars

\* The event loop runs both tasks, the intervals and the timeout of gh end.
Fairness == WF_vars(CheckIntegrity) /\ WF_vars(PollCI) /\ WF_vars(WakeCI)

FairSpec == Spec /\ Fairness

-----------------------------------------------------------------------------
\* The last report is an error or was made from a list of runs.
ReportIsMade == report = ErrorCheck \/ \E rs \in SUBSET Run : report = CheckOf(rs)

\* The inductive invariant behind IntegrityViewIsTrue and ReportIsRight.
WatchersIInv == TypeOK /\ IntegrityViewIsTrue /\ ReportIsMade

\* A chain that stays broken is on the dashboard: _check_once records every
\* check, also when the head is the one it knows.
TamperSurfaces ==
    <>[](stage = "up" /\ iw = "on" /\ ~Valid(chain))
        => <>[](View # <<>> /\ ~Valid(View[Len(View)]))

\* A gh that hangs or fails for one repository does not keep the others, or
\* the next round, from being polled, as long as _check_all's task lives.
EveryRepoPolled ==
    \A i \in Positions :
        []<>(about = i) \/ <>[](stage # "up" \/ ci = "dead")
=============================================================================
