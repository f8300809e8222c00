---------------------------- MODULE DedupProofs -----------------------------
(***************************************************************************)
(* The window guarantee of the idempotency guard, for any number of        *)
(* callers and commits and any TTL.                                        *)
(***************************************************************************)
EXTENDS Dedup, TLAPS

\* Initially nothing is claimed.
LEMMA DedupInitOK == Init => DedupIInv
BY DedupAssumption
   DEF Init, DedupInit, DedupIInv, DedupOK, DedupTypeOK, ClaimOutlivesWindow

\* Each operation of dedup.py, an expiring key and a vanishing caller keep the
\* invariant: only DEL and the passing of TTL ticks remove a claim.
LEMMA DedupStepOK == DedupIInv /\ [Next]_dedupAllVars => DedupIInv'
<1> SUFFICES ASSUME DedupIInv, [Next]_dedupAllVars
             PROVE  DedupIInv'
  OBVIOUS
<1> USE DedupAssumption
        DEF DedupIInv, DedupOK, DedupTypeOK, ClaimOutlivesWindow
<1>1. CASE UNCHANGED dedupAllVars
  BY <1>1 DEF dedupAllVars
<1>2. ASSUME NEW i \in Ids, NEW k \in Keys, AcquireWins(i, k)
      PROVE  DedupIInv'
  BY <1>2 DEF AcquireWins, SetNxWins, SetEx
<1>3. ASSUME NEW i \in Ids, NEW k \in Keys, AcquireLoses(i, k)
      PROVE  DedupIInv'
  BY <1>3 DEF AcquireLoses, SetNxLoses, dedupVars
<1>4. ASSUME NEW i \in Ids, Get(i) \/ Vanish(i)
      PROVE  DedupIInv'
  BY <1>4 DEF Get, Vanish
<1>5. ASSUME NEW i \in Ids, Attach(i)
      PROVE  DedupIInv'
  BY <1>5 DEF Attach, attach_workflow_id, SetEx
<1>6. ASSUME NEW k \in Keys, Release(k)
      PROVE  DedupIInv'
  BY <1>6 DEF Release, release
<1>7. CASE Tick
  BY <1>7 DEF Tick, DedupTick
<1> QED
  BY <1>1, <1>2, <1>3, <1>4, <1>5, <1>6, <1>7 DEF Next, Caller

\* DedupIInv, the invariant of dedup.py's claims: one is gone only when TTL
\* ticks have passed since its win, or an operator released it.
THEOREM DedupInvariance == Spec => []DedupIInv
<1>1. Init => DedupIInv
  BY DedupInitOK
<1>2. DedupIInv /\ [Next]_dedupAllVars => DedupIInv'
  BY DedupStepOK
<1> QED
  BY <1>1, <1>2, PTL DEF Spec

\* WinsApart: acquire of dedup.py never hands out the same commit twice
\* within TTL ticks, for every number of callers.
THEOREM DedupWinsApart == Spec => WinsApart
<1>1. DedupIInv /\ [Next]_dedupAllVars =>
        [\A i \in Ids : at[i] = "idle" /\ at'[i] = "attach"
                          => since[key'[i]] = TTL]_dedupAllVars
  <2> SUFFICES ASSUME DedupIInv, Next,
                      NEW c \in Ids, at[c] = "idle", at'[c] = "attach"
               PROVE  since[key'[c]] = TTL
    BY DEF dedupAllVars
  <2> USE DEF DedupIInv, DedupOK, DedupTypeOK
  <2>1. ASSUME NEW i \in Ids, NEW k \in Keys, AcquireWins(i, k)
        PROVE  since[key'[c]] = TTL
    BY <2>1 DEF AcquireWins, SetNxWins
  <2>2. ASSUME NEW i \in Ids, NEW k \in Keys, AcquireLoses(i, k)
        PROVE  FALSE
    BY <2>2 DEF AcquireLoses
  <2>3. ASSUME NEW i \in Ids, Get(i) \/ Vanish(i) \/ Attach(i)
        PROVE  FALSE
    BY <2>3 DEF Get, Vanish, Attach
  <2>4. ASSUME Tick \/ \E k \in Keys : Release(k)
        PROVE  FALSE
    BY <2>4 DEF Tick, Release
  <2> QED
    BY <2>1, <2>2, <2>3, <2>4 DEF Next, Caller
<1> QED
  BY <1>1, DedupInvariance, PTL DEF Spec, WinsApart
=============================================================================
