----------------------------- MODULE DedupStore -----------------------------
(***************************************************************************)
(* The Redis keys of core/queues/dedup.py: one claim per (repo, sha), with *)
(* a time to live.  `_key` hashes the pair, so a claim is indexed by it.   *)
(* The clock is discrete; ttl[k] is the time the key has left, and a key   *)
(* whose time is up is gone, as Redis expires it.                          *)
(***************************************************************************)
EXTENDS Domain

CONSTANTS
    NoClaim,   \* GET of a missing key
    PENDING,   \* the placeholder written by acquire
    TTL        \* dedup_ttl_seconds, in ticks

ASSUME DedupAssumption ==
    /\ TTL \in Nat \ {0}
    /\ NoClaim # PENDING
    /\ {NoClaim, PENDING} \cap Ids = {}

VARIABLES
    claim,   \* claim[k]: the value GET returns
    ttl      \* ttl[k]: ticks until k expires, 0 when there is no key

dedupVars == <<claim, ttl>>

DedupTypeOK ==
    /\ claim \in [Keys -> Ids \cup {NoClaim, PENDING}]
    /\ ttl \in [Keys -> 0..TTL]
    /\ \A k \in Keys : claim[k] = NoClaim <=> ttl[k] = 0

DedupInit ==
    /\ claim = [k \in Keys |-> NoClaim]
    /\ ttl = [k \in Keys |-> 0]

\* SET k v EX ttl.
SetEx(k, v) ==
    /\ claim' = [claim EXCEPT ![k] = v]
    /\ ttl' = [ttl EXCEPT ![k] = TTL]

\* Faulty variants: SET without NX; a lost SET NX that renews the key.
SetWithoutNx(k) == SetEx(k, PENDING)
SetNxRenews(k) ==
    /\ claim[k] # NoClaim
    /\ ttl' = [ttl EXCEPT ![k] = TTL]
    /\ UNCHANGED claim

\* acquire: SET k PENDING NX EX ttl, when it wins and when it does not.
SetNxWins(k) == claim[k] = NoClaim /\ SetEx(k, PENDING)
SetNxLoses(k) == claim[k] # NoClaim /\ UNCHANGED dedupVars

\* Faulty variant: the id is attached with a shorter life than the claim's.
attach_short_lived(k, i) ==
    /\ claim' = [claim EXCEPT ![k] = i]
    /\ ttl' = [ttl EXCEPT ![k] = 1]

\* attach_workflow_id: an unconditional SET with a fresh EX.
attach_workflow_id(k, i) == SetEx(k, i)

\* release: DEL, by an operator who wants a rerun before the TTL is over.
release(k) ==
    /\ claim' = [claim EXCEPT ![k] = NoClaim]
    /\ ttl' = [ttl EXCEPT ![k] = 0]

\* Faulty variant: the value survives its time to live.
TickKeepsValue ==
    /\ ttl' = [k \in Keys |-> IF ttl[k] = 0 THEN 0 ELSE ttl[k] - 1]
    /\ UNCHANGED claim

\* One tick of the clock: every key loses one tick, and expires at 0.
DedupTick ==
    /\ ttl' = [k \in Keys |-> IF ttl[k] = 0 THEN 0 ELSE ttl[k] - 1]
    /\ claim' = [k \in Keys |-> IF ttl[k] <= 1 THEN NoClaim ELSE claim[k]]
=============================================================================
