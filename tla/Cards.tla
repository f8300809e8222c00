------------------------------- MODULE Cards --------------------------------
(***************************************************************************)
(* The way of an approval card: a worker runs both agents, has the gateway *)
(* send the card, and operators decide it through the API while the sender *)
(* may still be busy with it.  The API serves only with settings that      *)
(* _validate_bind_safety accepts, and POSTs pass _require_token.           *)
(***************************************************************************)
EXTENDS ApprovalGateway, FiniteSets

VARIABLES
    remote,   \* WISEORDER_API_HOST is no loopback address
    allowed,  \* WISEORDER_API_ALLOW_REMOTE_BIND
    token,    \* WISEORDER_API_AUTH_TOKEN is set
    header    \* header[r]: the Authorization header of request r

settings == <<remote, allowed, token>>
vars == <<at, llmVars, gatewayVars, settings, header>>

\* The token that is set, or none or another one.
Headers == {"right", "other"}

TypeOK ==
    /\ LlmTypeOK
    /\ GatewayTypeOK
    /\ remote \in BOOLEAN /\ allowed \in BOOLEAN /\ token \in BOOLEAN
    /\ header \in [Requests -> Headers]

Init ==
    /\ at = [c \in Cards |-> "new"]
    /\ LlmInit
    /\ GatewayInit
    /\ remote \in BOOLEAN /\ allowed \in BOOLEAN /\ token \in BOOLEAN
    /\ header = [r \in Requests |-> "other"]

\* Faulty variant: the opt-in is enough.
BindAllowedByFlag == ~remote \/ allowed

\* _validate_bind_safety does not raise.
BindAllowed == ~remote \/ (allowed /\ token)

\* _require_token does not raise; without a token set it looks at nothing.
TokenAccepted(h) == token => h = "right"

\* A worker starts on the job.
Run(c) ==
    /\ at[c] = "new"
    /\ Move(c, "summarize")
    /\ UNCHANGED <<llmVars, gatewayVars, settings, header>>

Agent(c) == CallEnds(c) /\ UNCHANGED <<gatewayVars, settings, header>>

Send(c) == send(c) /\ UNCHANGED <<settings, header>>

\* POST /approvals/{id}/decide, up to the SELECT.
PostDecide(r, h) ==
    /\ BindAllowed
    /\ TokenAccepted(h)
    /\ DecideReads(r)
    /\ header' = [header EXCEPT ![r] = h]
    /\ UNCHANGED settings

Decide(r) ==
    /\ \E commit \in Commits : DecideCommits(r, commit)
    /\ UNCHANGED <<settings, header>>

\* The process is gone, and with it every job and request it was busy with.
Crash ==
    /\ "crash" \in Faults
    /\ at' = [c \in Cards |-> IF at[c] \in Agents \cup Sending THEN "gone" ELSE at[c]]
    /\ answer' = [r \in Requests |-> IF answer[r] = "open" THEN "gone" ELSE answer[r]]
    /\ attempt' = [c \in Cards |-> 1]
    /\ spent' = [c \in Cards |-> 0]
    /\ UNCHANGED <<rowVars, outVars, got, about, wish, read, stood, settings, header>>

Next ==
    \/ \E c \in Cards : Run(c) \/ Agent(c) \/ Send(c)
    \/ \E r \in Requests : Decide(r) \/ \E h \in Headers : PostDecide(r, h)
    \/ Crash

Spec == Init /\ [][Next]_vars

-----------------------------------------------------------------------------
\* What a job's two agents may take at most: every attempt of both runs into
\* the timeout or fails just before it and sleeps.
Sleeps[n \in Nat] == IF n = 0 THEN 0 ELSE Backoff(n) + Sleeps[n - 1]
Budget == 2 * ((MaxRetries + 1) * Timeout + Sleeps[MaxRetries])

\* FAILURE_MODEL F15: an outage blocks a worker for a bounded time; _llm_call
\* makes at most MaxRetries retries and no sleep follows the last attempt.  The
\* whole is compared as well, when both agents are done or one has raised.
LlmWithinBudget == \A c \in Cards : spent[c] <= Budget

\* What n attempts take that fail into the timeout or with a sleep after them.
Failed(n) == n * Timeout + Sleeps[n]

\* The inductive invariant behind it: an agent that is at its k-th attempt has
\* failed k - 1 times, the drafter starts when the summarizer has taken at most
\* its retries and one attempt more, and so the whole is within the budget.
SpentInTime ==
    /\ spent \in [Cards -> Nat]
    /\ \A c \in Cards :
         /\ at[c] = "summarize" => spent[c] <= Failed(attempt[c] - 1)
         /\ at[c] = "draft" =>
               spent[c] <= Failed(MaxRetries) + Timeout + Failed(attempt[c] - 1)
         /\ at[c] \notin Agents => spent[c] <= Budget /\ attempt[c] = 1
         /\ at[c] = "new" => spent[c] = 0

\* What was written to approvals.jsonl or posted to a webhook names a row that
\* was committed: send inserts first and gives up when that fails.
NotifiedIsDecidable ==
    /\ file \subseteq rows
    /\ \A h \in Webhooks : posted[h] \subseteq rows

\* delivered_via names only channels that have the card, whichever of send's
\* five calls failed, and the ones a send that returned heard of.
ViaIsTrue ==
    \A c \in Cards :
        /\ "file" \in via[c] => c \in file
        /\ \A h \in {"discord", "telegram"} : h \in via[c] => c \in posted[h]
        /\ at[c] = "sent" => via[c] = got[c]

\* A decision answered with 200 was the row's decision at some moment between
\* the request and the answer, however decide's SELECT and COMMIT interleave
\* with other requests (and need not be any more: the last one wins).
AnsweredDecisionStood ==
    \A r \in Requests : answer[r] = "ok" => r \in stood

\* On a server that is bound to a remote interface, or that has a token, every
\* decision came with the token: _validate_bind_safety and _require_token
\* together, in every setting.
RemoteNeedsToken ==
    remote \/ token => \A c \in Cards :
        decidedAt[c] \in Requests => header[decidedAt[c]] = "right"

\* The inductive invariant behind them: past the first session the row is there,
\* `delivered` is true at every await, an open request that need not write its
\* decision has seen it, and one that passed the guards carries the token.
CardsIInv ==
    /\ TypeOK
    /\ NotifiedIsDecidable /\ ViaIsTrue /\ AnsweredDecisionStood
    /\ \A c \in Cards :
         /\ at[c] \in {"file", "discord", "telegram", "record", "sent"} => c \in rows
         /\ "file" \in got[c] => c \in file
         /\ \A h \in {"discord", "telegram"} : h \in got[c] => c \in posted[h]
         /\ decidedAt[c] \in Requests => answer[decidedAt[c]] \in {"ok", "error"}
    /\ \A r \in Requests :
         /\ answer[r] = "open" /\ read[r] = wish[r] => r \in stood
         /\ (remote \/ token) /\ answer[r] # "unsent" => header[r] = "right"

\* A decided card is never pending again, and its decision changes only with
\* its decided_at: send's last session, which may commit after an operator
\* decided, writes delivered_via alone.
DecisionSurvives ==
    [][\A c \in Cards : decision'[c] # decision[c] =>
          /\ decision'[c] # "none"
          /\ decidedAt'[c] # decidedAt[c]]_vars
=============================================================================
