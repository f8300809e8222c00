--------------------------- MODULE ApprovalGateway --------------------------
(***************************************************************************)
(* core/approvals/gateway.py: send, one action per session, file write and *)
(* webhook post, and decide, a SELECT and a COMMIT between which other     *)
(* requests and senders may commit.  SQLAlchemy writes the columns whose   *)
(* value differs from the one the session read, and no others.             *)
(***************************************************************************)
EXTENDS LlmCall

CONSTANTS
    Requests,   \* POSTs of /approvals/{id}/decide
    NoRequest,
    Webhooks,   \* the webhooks configured, of {"discord", "telegram"}
    Faults      \* the kinds of fault that may happen: "db", "file", "web", "crash"

ASSUME GatewayAssumption ==
    /\ NoRequest \notin Requests
    /\ Webhooks \in SUBSET {"discord", "telegram"}
    /\ Faults \in SUBSET {"db", "file", "web", "crash"}

VARIABLES
    rows,       \* the cards with an Approval row
    decision,   \* decision[c]: Approval.decision
    decidedAt,  \* decidedAt[c]: the request Approval.decided_at is from
    via,        \* via[c]: Approval.delivered_via
    file,       \* the cards with a line in logs/approvals.jsonl
    posted,     \* posted[h]: the cards webhook h has taken
    got,        \* got[c]: the list `delivered` of send
    about,      \* about[r]: the card request r is about
    wish,       \* wish[r]: the decision it asks for
    read,       \* read[r]: Approval.decision as its session read it
    answer,     \* answer[r]: where the request is, or how it was answered
    stood       \* history: the requests whose decision was the row's meanwhile

rowVars == <<rows, decision, decidedAt, via>>
outVars == <<file, posted>>
requestVars == <<about, wish, read, answer>>
gatewayVars == <<rowVars, outVars, got, requestVars, stood>>

Channels == {"file", "discord", "telegram"}
Decisions == {"approved", "rejected"}
Sending == {"insert", "file", "discord", "telegram", "record"}

GatewayTypeOK ==
    /\ at \in [Cards -> Agents \cup Sending \cup {"new", "sent", "raised", "gone"}]
    /\ rows \in SUBSET Cards
    /\ decision \in [Cards -> Decisions \cup {"none"}]
    /\ decidedAt \in [Cards -> Requests \cup {NoRequest}]
    /\ via \in [Cards -> SUBSET Channels]
    /\ file \in SUBSET Cards
    /\ posted \in [{"discord", "telegram"} -> SUBSET Cards]
    /\ got \in [Cards -> SUBSET Channels]
    /\ about \in [Requests -> Cards]
    /\ wish \in [Requests -> Decisions]
    /\ read \in [Requests -> Decisions \cup {"none"}]
    /\ answer \in [Requests -> {"unsent", "open", "ok", "error", "gone"}]
    /\ stood \in SUBSET Requests

\* What each request will ask is fixed from the start.
GatewayInit ==
    /\ rows = {}
    /\ decision = [c \in Cards |-> "none"]
    /\ decidedAt = [c \in Cards |-> NoRequest]
    /\ via = [c \in Cards |-> {}]
    /\ file = {}
    /\ posted = [h \in {"discord", "telegram"} |-> {}]
    /\ got = [c \in Cards |-> {}]
    /\ about \in [Requests -> Cards]
    /\ wish \in [Requests -> Decisions]
    /\ read = [r \in Requests |-> "none"]
    /\ answer = [r \in Requests |-> "unsent"]
    /\ stood = {}

\* A session commits and says so, commits and the reply is lost, or does not.
Commits == IF "db" \in Faults THEN {"ok", "lost", "none"} ELSE {"ok"}

-----------------------------------------------------------------------------
(* send.                                                                   *)

Move(c, next) == at' = [at EXCEPT ![c] = next]

\* Faulty variant: the card is sent although the commit raised.
InsertGoesOn(c, commit) ==
    /\ at[c] = "insert"
    /\ rows' = IF commit = "none" THEN rows ELSE rows \cup {c}
    /\ Move(c, "file")
    /\ LlmDone(c)
    /\ UNCHANGED <<decision, decidedAt, via, outVars, got, requestVars, stood>>

\* The first session: INSERT of the row.
Insert(c, commit) ==
    /\ at[c] = "insert"
    /\ rows' = IF commit = "none" THEN rows ELSE rows \cup {c}
    /\ Move(c, IF commit = "ok" THEN "file" ELSE "raised")
    /\ LlmDone(c)
    /\ UNCHANGED <<decision, decidedAt, via, outVars, got, requestVars, stood>>

\* The webhook after h, or the last session; one that is not configured is
\* passed over.
NextHook(h) ==
    LET left == (CASE h = "file" -> {"discord", "telegram"}
                   [] h = "discord" -> {"telegram"}
                   [] OTHER -> {}) \cap Webhooks
    IN  IF left = {} THEN "record"
        ELSE IF "discord" \in left THEN "discord" ELSE "telegram"

\* Faulty variant: the channel is noted before the write.
WriteFileNoted(c, written) ==
    /\ at[c] = "file"
    /\ file' = IF written THEN file \cup {c} ELSE file
    /\ got' = [got EXCEPT ![c] = @ \cup {"file"}]
    /\ Move(c, NextHook("file"))
    /\ UNCHANGED <<rowVars, posted, requestVars, stood, llmVars>>

\* The line in approvals.jsonl; an exception is logged and send goes on.
WriteFile(c, written) ==
    /\ at[c] = "file"
    /\ file' = IF written THEN file \cup {c} ELSE file
    /\ got' = [got EXCEPT ![c] = IF written THEN @ \cup {"file"} ELSE @]
    /\ Move(c, NextHook("file"))
    /\ UNCHANGED <<rowVars, posted, requestVars, stood, llmVars>>

\* client.post: the webhook takes the card or not, and the status below 300
\* arrives or not; send goes on whatever happens.
Post(c, h, taken, heard) ==
    /\ at[c] = h
    /\ posted' = [posted EXCEPT ![h] = IF taken THEN @ \cup {c} ELSE @]
    /\ got' = [got EXCEPT ![c] = IF taken /\ heard THEN @ \cup {h} ELSE @]
    /\ Move(c, NextHook(h))
    /\ UNCHANGED <<rowVars, file, requestVars, stood, llmVars>>

\* Faulty variant: the last session writes the row as it was inserted.
RecordWholeRow(c, commit) ==
    /\ at[c] = "record"
    /\ via' = [via EXCEPT ![c] = IF commit = "none" THEN @ ELSE got[c]]
    /\ decision' = [decision EXCEPT ![c] = IF commit = "none" THEN @ ELSE "none"]
    /\ Move(c, IF commit = "ok" THEN "sent" ELSE "raised")
    /\ UNCHANGED <<rows, decidedAt, outVars, got, requestVars, stood, llmVars>>

\* The last session: UPDATE of delivered_via.
Record(c, commit) ==
    /\ at[c] = "record"
    /\ via' = [via EXCEPT ![c] = IF commit = "none" THEN @ ELSE got[c]]
    /\ Move(c, IF commit = "ok" THEN "sent" ELSE "raised")
    /\ UNCHANGED <<rows, decision, decidedAt, outVars, got, requestVars, stood, llmVars>>

send(c) ==
    \/ \E commit \in Commits : Insert(c, commit) \/ Record(c, commit)
    \/ \E written \in BOOLEAN : ("file" \notin Faults => written) /\ WriteFile(c, written)
    \/ \E h \in Webhooks, taken, heard \in BOOLEAN :
         ("web" \notin Faults => taken /\ heard) /\ Post(c, h, taken, heard)

-----------------------------------------------------------------------------
(* decide.                                                                 *)

\* The SELECT of a request whose decision is one of the two; a card without a
\* row is answered 404.
DecideReads(r) ==
    /\ answer[r] = "unsent"
    /\ about[r] \in rows
    /\ read' = [read EXCEPT ![r] = decision[about[r]]]
    /\ answer' = [answer EXCEPT ![r] = "open"]
    /\ stood' = IF decision[about[r]] = wish[r] THEN stood \cup {r} ELSE stood
    /\ UNCHANGED <<rowVars, outVars, got, about, wish, at, llmVars>>

\* Faulty variant: a decision that is there meanwhile is left alone.
DecisionFirstWins(r) ==
    IF decision[about[r]] = "none" THEN wish[r] ELSE decision[about[r]]

\* What the row's decision becomes: the column is not written when it was
\* read with the value it is to have.
DecisionWritten(r) ==
    IF read[r] = wish[r] THEN decision[about[r]] ELSE wish[r]

\* The UPDATE and COMMIT.
DecideCommits(r, commit) ==
    /\ answer[r] = "open"
    /\ LET c == about[r]
       IN  IF commit = "none" THEN UNCHANGED <<decision, decidedAt, stood>>
           ELSE /\ decision' = [decision EXCEPT ![c] = DecisionWritten(r)]
                /\ decidedAt' = [decidedAt EXCEPT ![c] = r]
                /\ stood' = stood \cup {q \in Requests :
                     answer[q] = "open" /\ about[q] = c /\ wish[q] = DecisionWritten(r)}
    /\ answer' = [answer EXCEPT ![r] = IF commit = "ok" THEN "ok" ELSE "error"]
    /\ UNCHANGED <<rows, via, outVars, got, about, wish, read, at, llmVars>>
=============================================================================
