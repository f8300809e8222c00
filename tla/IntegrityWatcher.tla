-------------------------- MODULE IntegrityWatcher --------------------------
(***************************************************************************)
(* core/watchers/integrity_watcher.py: a task that verifies the protocol's *)
(* chain on disk again and again and keeps the newest results for the      *)
(* dashboard.  Others write the chain; a check blocks the event loop and   *)
(* is one step.                                                            *)
(***************************************************************************)
EXTENDS Naturals, SequencesExt

CONSTANTS
    Heads,     \* the heads the chain may have
    NoHead,
    MaxChecks, \* the checks kept (100)
    Shown      \* the checks GET /watchers shows (20)

ASSUME IntegrityAssumption ==
    /\ NoHead \notin Heads
    /\ MaxChecks \in Nat \ {0} /\ Shown \in 1..MaxChecks

VARIABLES
    chain,     \* what verify_chain would say now; "missing": no directory
    checks,    \* IntegrityWatcher.history
    lastHead,  \* IntegrityWatcher.last_head
    latest     \* history: the result of the last check

integrityVars == <<chain, checks, lastHead, latest>>

Result(s, h) == [status |-> s, head |-> h]
Error == Result("ERROR", NoHead)
Missing == Result("missing", NoHead)

Verified ==
    {Result(s, h) : s \in {"CHAIN_VALID", "CHAIN_TAMPERED"}, h \in Heads}
        \cup {Result("CHAIN_EMPTY", NoHead)}

IntegrityTypeOK ==
    /\ chain \in Verified \cup {Missing}
    /\ checks \in Seq(Verified \cup {Error}) /\ Len(checks) <= MaxChecks
    /\ lastHead \in Heads \cup {NoHead}
    /\ latest \in Verified \cup {Error}

IntegrityInit ==
    /\ chain \in Verified \cup {Missing}
    /\ checks = <<>>
    /\ lastHead = NoHead
    /\ latest = Error

\* The chain on disk is extended, rolled back, tampered with, removed, ...
ChainMoves ==
    /\ chain' \in (Verified \cup {Missing}) \ {chain}
    /\ UNCHANGED <<checks, lastHead, latest>>

\* _verify_once: no directory, no verifier to import, a verifier that raises,
\* or what verify_chain says.
Verdicts == IF chain = Missing THEN {Error} ELSE {Error, chain}

\* The slice [-max:] of a list.
LastOf(s, max) ==
    IF Len(s) > max THEN SubSeq(s, Len(s) - max + 1, Len(s)) ELSE s

\* Faulty variant: the oldest checks are kept.
RingOldest(s) == IF Len(s) > MaxChecks THEN SubSeq(s, 1, MaxChecks) ELSE s

Ring(s) == LastOf(s, MaxChecks)

\* Faulty variant: the head of any check is taken.
HeadAfterAny(c) == IF c.head # NoHead THEN c.head ELSE lastHead

HeadAfter(c) ==
    IF c.status = "CHAIN_VALID" /\ c.head # NoHead THEN c.head ELSE lastHead

\* Faulty variant: a check is recorded when it moved the head.
CheckIfMoved ==
    \E c \in Verdicts :
        /\ lastHead' = HeadAfter(c)
        /\ checks' = IF lastHead' = lastHead THEN checks ELSE Ring(Append(checks, c))
        /\ latest' = IF lastHead' = lastHead THEN latest ELSE c
        /\ UNCHANGED chain

\* _check_once.
CheckOnce ==
    \E c \in Verdicts :
        /\ checks' = Ring(Append(checks, c))
        /\ latest' = c
        /\ lastHead' = HeadAfter(c)
        /\ UNCHANGED chain

-----------------------------------------------------------------------------
\* What GET /watchers shows of the history.
View == LastOf(checks, Shown)

Valid(c) == c.status = "CHAIN_VALID"

\* The dashboard ends with the newest check, and the head it names is the one
\* of the newest check that found the chain valid, also after the chain was
\* rolled back or tampered with and after the ring dropped its oldest checks.
IntegrityViewIsTrue ==
    /\ checks # <<>> => View[Len(View)] = latest
    /\ \A n \in DOMAIN checks :
         Valid(checks[n]) /\ (\A m \in DOMAIN checks : m > n => ~Valid(checks[m]))
           => lastHead = checks[n].head
=============================================================================
