------------------------------ MODULE LlmCall -------------------------------
(***************************************************************************)
(* _llm_call (agents/engineering/summarizer.py): the loop around one       *)
(* acompletion, with a timeout and bounded retries, that both agents of a  *)
(* job run one after the other.  Time is in seconds: a call takes one of   *)
(* Took, at most the timeout.                                              *)
(***************************************************************************)
EXTENDS Naturals

CONSTANTS
    Cards,        \* the jobs, each about to ask for one approval
    Timeout,      \* llm_timeout_seconds
    MaxRetries,   \* llm_max_retries
    Took          \* what a call that ends before its timeout may take

ASSUME LlmAssumption ==
    /\ Timeout \in Nat
    /\ MaxRetries \in Nat
    /\ Took \in SUBSET (0..Timeout)

VARIABLES
    at,        \* at[c]: what job c awaits
    attempt,   \* attempt[c]: the call _llm_call is at, the first being 1
    spent      \* spent[c]: seconds its agents have taken, until its card is sent

llmVars == <<attempt, spent>>

Agents == {"summarize", "draft"}

\* The longest sleep between two attempts.
Cap == 30

\* 2 ** n, by its recursion: the prover knows nothing of ^.
Doubled[n \in Nat] == IF n = 0 THEN 1 ELSE 2 * Doubled[n - 1]

\* min(2 ** attempt, 30).
Backoff(n) == IF Doubled[n] < Cap THEN Doubled[n] ELSE Cap

LlmTypeOK == attempt \in [Cards -> 1..(MaxRetries + 1)]

LlmInit ==
    /\ attempt = [c \in Cards |-> 1]
    /\ spent = [c \in Cards |-> 0]

\* Job c leaves the loop, for another agent's or for good.
LeaveLoop(c, next, secs) ==
    /\ at' = [at EXCEPT ![c] = next]
    /\ attempt' = [attempt EXCEPT ![c] = 1]
    /\ spent' = [spent EXCEPT ![c] = @ + secs]

\* The reply is usable: any text for the drafter; for the summarizer an object
\* or no JSON at all, which _parse_json turns into a summary.
Answer(c, secs) ==
    /\ at[c] \in Agents
    /\ LeaveLoop(c, IF at[c] = "summarize" THEN "draft" ELSE "insert", secs)

\* Another exception than the transient ones, content None, or a summary that
\* is JSON and no object with the fields: the agent raises at once.
GiveUp(c, secs) ==
    /\ at[c] \in Agents
    /\ LeaveLoop(c, "raised", secs)

\* Faulty variant: the bound counts the retries that are left.
AgainOnceMore(c, secs, pause) ==
    /\ at[c] \in Agents
    /\ IF attempt[c] > MaxRetries + 1
       THEN LeaveLoop(c, "raised", secs)
       ELSE /\ attempt' = [attempt EXCEPT ![c] = @ + 1]
            /\ spent' = [spent EXCEPT ![c] = @ + secs + pause]
            /\ UNCHANGED at

\* An attempt failed after secs: raise, or try again after the pause.
Again(c, secs, pause) ==
    /\ at[c] \in Agents
    /\ IF attempt[c] > MaxRetries
       THEN LeaveLoop(c, "raised", secs)
       ELSE /\ attempt' = [attempt EXCEPT ![c] = @ + 1]
            /\ spent' = [spent EXCEPT ![c] = @ + secs + pause]
            /\ UNCHANGED at

\* asyncio.TimeoutError: the next attempt follows at once.
TimesOut(c) == Again(c, Timeout, 0)

\* RateLimitError, APIConnectionError, ServiceUnavailableError: after a sleep.
Transient(c, secs) == Again(c, secs, Backoff(attempt[c]))

CallEnds(c) ==
    \/ \E secs \in Took : Answer(c, secs) \/ GiveUp(c, secs) \/ Transient(c, secs)
    \/ TimesOut(c)

\* Job c sends its card: what its agents took is told.
LlmDone(c) == spent' = [spent EXCEPT ![c] = 0] /\ UNCHANGED attempt
=============================================================================
