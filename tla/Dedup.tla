------------------------------- MODULE Dedup --------------------------------
(***************************************************************************)
(* The idempotency guard of core/queues/dedup.py on its own, with its      *)
(* clock: callers race for the claim of a commit, attach the id of the     *)
(* workflow they inserted, or disappear; an operator may release a claim.  *)
(* Caller i stands for the run that inserts workflow i.                    *)
(***************************************************************************)
EXTENDS DedupStore

CONSTANT
    MayRelease   \* whether an operator calls release

ASSUME ReleaseAssumption == MayRelease \in BOOLEAN

VARIABLES
    at,      \* at[i]: "idle", "get" (SET NX lost) or "attach" (it won)
    key,     \* key[i]: the pair caller i was called with
    since    \* since[k]: history, ticks since SET NX last won for k or an
             \* operator released it, at most TTL (TTL too when neither was)

dedupAllVars == <<claim, ttl, at, key, since>>

DedupOK ==
    /\ DedupTypeOK
    /\ at \in [Ids -> {"idle", "get", "attach"}]
    /\ key \in [Ids -> Keys]
    /\ since \in [Keys -> 0..TTL]

Init ==
    /\ DedupInit
    /\ at = [i \in Ids |-> "idle"]
    /\ key \in [Ids -> Keys]
    /\ since = [k \in Keys |-> TTL]

\* acquire(repo, sha): the caller won.
AcquireWins(i, k) ==
    /\ at[i] = "idle"
    /\ SetNxWins(k)
    /\ at' = [at EXCEPT ![i] = "attach"]
    /\ key' = [key EXCEPT ![i] = k]
    /\ since' = [since EXCEPT ![k] = 0]

\* acquire(repo, sha): it lost, and reads the value with a second call.
AcquireLoses(i, k) ==
    /\ at[i] = "idle"
    /\ SetNxLoses(k)
    /\ at' = [at EXCEPT ![i] = "get"]
    /\ key' = [key EXCEPT ![i] = k]
    /\ UNCHANGED since

\* The GET of a caller that lost; what it returns is the skip's business.
Get(i) ==
    /\ at[i] = "get"
    /\ at' = [at EXCEPT ![i] = "idle"]
    /\ UNCHANGED <<claim, ttl, key, since>>

\* attach_workflow_id, as late after the win as the INSERT lets it be.
Attach(i) ==
    /\ at[i] = "attach"
    /\ attach_workflow_id(key[i], i)
    /\ at' = [at EXCEPT ![i] = "idle"]
    /\ UNCHANGED <<key, since>>

\* The caller crashes, or its INSERT fails: the claim stays.
Vanish(i) ==
    /\ at[i] # "idle"
    /\ at' = [at EXCEPT ![i] = "idle"]
    /\ UNCHANGED <<claim, ttl, key, since>>

Release(k) ==
    /\ MayRelease
    /\ claim[k] # NoClaim
    /\ release(k)
    /\ since' = [since EXCEPT ![k] = TTL]
    /\ UNCHANGED <<at, key>>

Tick ==
    /\ DedupTick
    /\ since' = [k \in Keys |-> IF since[k] < TTL THEN since[k] + 1 ELSE TTL]
    /\ UNCHANGED <<at, key>>

Caller(i) ==
    \/ \E k \in Keys : AcquireWins(i, k) \/ AcquireLoses(i, k)
    \/ Get(i)
    \/ Attach(i)
    \/ Vanish(i)

Next ==
    \/ \E i \in Ids : Caller(i)
    \/ \E k \in Keys : Release(k)
    \/ Tick

Spec == Init /\ [][Next]_dedupAllVars

\* Time passes.
FairSpec == Spec /\ WF_dedupAllVars(Tick)

-----------------------------------------------------------------------------
\* The strengthening behind WinsApart: a claim lives at least TTL ticks from
\* its win, because nothing shortens it.
ClaimOutlivesWindow ==
    \A k \in Keys : claim[k] # NoClaim => ttl[k] + since[k] >= TTL

DedupIInv == DedupOK /\ ClaimOutlivesWindow /\
    \A k \in Keys : claim[k] = NoClaim => since[k] = TTL

\* Unless an operator released it, a commit is claimed anew no sooner than
\* TTL after the last win, whichever callers race, attach late or vanish.
WinsApart ==
    [][\A i \in Ids : at[i] = "idle" /\ at'[i] = "attach"
                        => since[key'[i]] = TTL]_dedupAllVars

\* A claimant that crashed does not block its commit for ever.
ClaimsExpire == \A k \in Keys : claim[k] # NoClaim ~> claim[k] = NoClaim
=============================================================================
