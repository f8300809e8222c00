---------------------------- MODULE CardsProofs -----------------------------
(***************************************************************************)
(* What an approval card and its decision can be relied on for, for any    *)
(* number of jobs and requests, any webhooks and any faults.               *)
(***************************************************************************)
EXTENDS Cards, WellFoundedInduction, TLAPS

\* Both agents of a job leave everything alone but the job's place.
LEMMA AgentStep ==
    ASSUME TypeOK, NEW c \in Cards, Agent(c)
    PROVE  /\ LlmTypeOK' /\ UNCHANGED <<gatewayVars, settings, header>>
           /\ \/ at' = at
              \/ \E next \in Agents \cup {"insert", "raised"} :
                    at' = [at EXCEPT ![c] = next]
<1>1. MaxRetries \in Nat /\ attempt \in [Cards -> 1..(MaxRetries + 1)]
  BY LlmAssumption DEF TypeOK, LlmTypeOK
<1>2. ASSUME NEW next, NEW secs, LeaveLoop(c, next, secs)
      PROVE  LlmTypeOK' /\ at' = [at EXCEPT ![c] = next]
  BY <1>1, <1>2 DEF LeaveLoop, LlmTypeOK
<1>3. ASSUME NEW secs, NEW pause, Again(c, secs, pause)
      PROVE  LlmTypeOK' /\ (at' = at \/ at' = [at EXCEPT ![c] = "raised"])
  <2>1. CASE attempt[c] > MaxRetries
    BY <1>2, <1>3, <2>1 DEF Again
  <2>2. CASE ~(attempt[c] > MaxRetries)
    BY <1>1, <1>3, <2>2 DEF Again, LlmTypeOK
  <2> QED
    BY <2>1, <2>2
<1>4. ASSUME NEW secs, Answer(c, secs)
      PROVE  LlmTypeOK' /\ \E next \in {"draft", "insert"} : at' = [at EXCEPT ![c] = next]
  BY <1>2, <1>4 DEF Answer
<1>5. ASSUME NEW secs, GiveUp(c, secs)
      PROVE  LlmTypeOK' /\ at' = [at EXCEPT ![c] = "raised"]
  BY <1>2, <1>5 DEF GiveUp
<1>6. CallEnds(c) /\ UNCHANGED <<gatewayVars, settings, header>>
  BY DEF Agent
<1> QED
  BY <1>3, <1>4, <1>5, <1>6 DEF CallEnds, TimesOut, Transient, Agents

\* No step of a job, a request or a crash breaks the invariant.
LEMMA CardsStepOK == CardsIInv /\ [Next]_vars => CardsIInv'
<1> SUFFICES ASSUME CardsIInv, [Next]_vars PROVE CardsIInv'
  OBVIOUS
<1> USE GatewayAssumption DEF CardsIInv, TypeOK, GatewayTypeOK, NotifiedIsDecidable,
    ViaIsTrue, AnsweredDecisionStood, settings, gatewayVars, rowVars, outVars, requestVars,
    llmVars, Agents, Sending, Channels, Decisions
<1>1. CASE UNCHANGED vars
  BY <1>1 DEF vars, LlmTypeOK
<1>2. ASSUME NEW c \in Cards, Run(c) PROVE CardsIInv'
  BY <1>2 DEF Run, Move, LlmTypeOK
<1>3. ASSUME NEW c \in Cards, Agent(c) PROVE CardsIInv'
  <2>1. LlmTypeOK' /\ UNCHANGED <<gatewayVars, settings, header>>
    BY <1>3, AgentStep
  <2>2. CASE at' = at
    BY <2>1, <2>2
  <2>3. ASSUME NEW next \in Agents \cup {"insert", "raised"},
               at' = [at EXCEPT ![c] = next]
        PROVE  CardsIInv'
    BY <2>1, <2>3
  <2> QED
    BY <1>3, <2>2, <2>3, AgentStep
<1>4. ASSUME NEW c \in Cards, NEW commit \in Commits, Insert(c, commit),
             UNCHANGED <<settings, header>>
      PROVE  CardsIInv'
  BY <1>4 DEF Insert, LlmDone, Move, LlmTypeOK
<1>5. ASSUME NEW c \in Cards, NEW commit \in Commits, Record(c, commit),
             UNCHANGED <<settings, header>>
      PROVE  CardsIInv'
  BY <1>5 DEF Record, Move, LlmTypeOK
<1>6. ASSUME NEW c \in Cards, NEW written \in BOOLEAN, WriteFile(c, written),
             UNCHANGED <<settings, header>>
      PROVE  CardsIInv'
  BY <1>6 DEF WriteFile, Move, NextHook, LlmTypeOK
<1>7. ASSUME NEW c \in Cards, NEW h \in Webhooks, NEW taken \in BOOLEAN,
             NEW heard \in BOOLEAN, Post(c, h, taken, heard), UNCHANGED <<settings, header>>
      PROVE  CardsIInv'
  BY <1>7 DEF Post, Move, NextHook, LlmTypeOK
<1>8. ASSUME NEW r \in Requests, NEW h \in Headers, PostDecide(r, h) PROVE CardsIInv'
  BY <1>8 DEF PostDecide, DecideReads, BindAllowed, TokenAccepted, Headers, LlmTypeOK
<1>9. ASSUME NEW r \in Requests, Decide(r) PROVE CardsIInv'
  BY <1>9 DEF Decide, DecideCommits, DecisionWritten, LlmTypeOK
<1>10. CASE Crash
  BY <1>10, LlmAssumption DEF Crash, LlmTypeOK
<1> QED
  BY <1>1, <1>2, <1>3, <1>4, <1>5, <1>6, <1>7, <1>8, <1>9, <1>10 DEF Next, Send, send

-----------------------------------------------------------------------------
(* Recursion on a natural number: the equations of Doubled and Sleeps have *)
(* a solution, so the functions they choose satisfy them.                  *)

\* < as the set of its pairs.
Less == {p \in Nat \X Nat : p[1] < p[2]}

\* Every set of natural numbers but {} has a least element.
LEMMA LessWF == IsWellFoundedOn(Less, Nat)
<1>1. OpToRel(<, Nat) = Less
  BY DEF OpToRel, Less
<1> QED
  BY <1>1, NatLessThanWellFounded

\* A set that has 0, and the successor of each of its members, is Nat.
LEMMA SetInduction ==
  ASSUME NEW S \in SUBSET Nat, 0 \in S, \A n \in S : n + 1 \in S
  PROVE  S = Nat
<1> SUFFICES ASSUME Nat \ S # {} PROVE FALSE
  OBVIOUS
<1>1. PICK x \in Nat \ S : \A y \in Nat \ S : ~ (<<y, x>> \in Less)
  <2>1. Nat \ S \subseteq Nat
    OBVIOUS
  <2> QED BY <2>1, LessWF, WFMin
<1>2. x # 0 /\ x - 1 \in Nat
  BY <1>1
<1>3. <<x - 1, x>> \in Less
  BY <1>1, <1>2 DEF Less
<1>4. x - 1 \in S
  BY <1>1, <1>2, <1>3
<1>5. (x-1) + 1 \in S
  BY <1>4
<1> QED BY <1>1, <1>5

\* g follows the recursion from base by step, up to n.
Recurs(g, n, step) == \A k \in 0..n : k # 0 => g[k] = step[k, g[k - 1]]
Follows(g, n, base, step) ==
    g \in [0..n -> Nat] /\ g[0] = base /\ Recurs(g, n, step)

\* Some function follows the recursion, however far.
LEMMA FollowsExists ==
  ASSUME NEW base \in Nat, NEW step \in [Nat \X Nat -> Nat], NEW n \in Nat
  PROVE  \E g : Follows(g, n, base, step)
<1> DEFINE S == {m \in Nat : \E g : Follows(g, m, base, step)}
<1>1. 0 \in S
  <2> DEFINE g == [k \in 0..0 |-> base]
  <2>1. g \in [0..0 -> Nat] /\ g[0] = base /\ \A k \in 0..0 : k = 0
    OBVIOUS
  <2>2. Follows(g, 0, base, step)
    <3> HIDE DEF g
    <3> QED
      BY <2>1 DEF Follows, Recurs
  <2> QED
    BY <2>2
<1>2. ASSUME NEW m \in S PROVE m + 1 \in S
  <2>0. m \in Nat /\ \E g : Follows(g, m, base, step)
    OBVIOUS
  <2>1. PICK g : Follows(g, m, base, step)
    BY <2>0
  <2> HIDE DEF S
  <2> DEFINE h == [k \in 0..(m + 1) |-> IF k = m + 1 THEN step[k, g[m]] ELSE g[k]]
  <2>2. /\ m \in Nat /\ g \in [0..m -> Nat] /\ g[0] = base
        /\ Recurs(g, m, step)
    BY <2>0, <2>1 DEF Follows
  <2>3. g[m] \in Nat /\ \A k \in 0..(m + 1) : step[k, g[m]] \in Nat
    <3>1. g[m] \in Nat
      BY <2>2
    <3>2. \A k \in 0..(m + 1) : k \in Nat
      BY <2>2
    <3> QED
      BY <3>1, <3>2
  <2>6. h \in [0..(m + 1) -> Nat] /\ h[0] = base
    <3>1. ASSUME NEW k \in 0..(m + 1)
          PROVE  (IF k = m + 1 THEN step[k, g[m]] ELSE g[k]) \in Nat
      <4>1. k # m + 1 => k \in 0..m
        BY <2>2
      <4> QED
        BY <2>2, <2>3, <4>1
    <3>2. 0 \in 0..(m + 1) /\ 0 # m + 1
      BY <2>2
    <3> QED
      BY <2>2, <3>1, <3>2
  <2>4. ASSUME NEW k \in 0..(m + 1), k # 0 PROVE h[k] = step[k, h[k - 1]]
    <3>1. CASE k = m + 1
      <4>1. k - 1 = m /\ m \in 0..(m + 1) /\ m # m + 1
        BY <2>2, <3>1
      <4>2. h[m] = g[m]
        BY <4>1
      <4>3. h[k] = step[k, g[m]]
        BY <3>1
      <4> QED
        BY <4>1, <4>2, <4>3
    <3>2. CASE k # m + 1
      <4>1. k \in 0..m /\ k - 1 \in 0..m /\ k - 1 \in 0..(m + 1) /\ k - 1 # m + 1
        BY <2>2, <2>4, <3>2
      <4>2. h[k] = g[k] /\ h[k - 1] = g[k - 1]
        BY <3>2, <4>1
      <4> QED
        BY <2>2, <2>4, <4>1, <4>2 DEF Recurs
    <3> QED
      BY <3>1, <3>2
  <2>5. Follows(h, m + 1, base, step)
    <3> HIDE DEF h
    <3> QED
      BY <2>4, <2>6 DEF Follows, Recurs
  <2>7. m + 1 \in Nat
    BY <2>2
  <2> QED
    BY <2>5, <2>7 DEF S
<1>3. S = Nat
  <2>1. S \in SUBSET Nat
    OBVIOUS
  <2> HIDE DEF S
  <2> QED
    BY <1>1, <1>2, <2>1, SetInduction
<1> QED
  BY <1>3

\* Two functions that follow it agree as far as both go.
LEMMA FollowsAgrees ==
  ASSUME NEW base \in Nat, NEW step \in [Nat \X Nat -> Nat],
         NEW n \in Nat, NEW g, Follows(g, n, base, step),
         NEW m \in Nat, NEW h, Follows(h, m, base, step),
         NEW k \in Nat, k <= n, k <= m
  PROVE  g[k] = h[k]
<1> DEFINE S == {i \in Nat : i <= n /\ i <= m => g[i] = h[i]}
<1>1. 0 \in S
  BY DEF Follows
<1>2. ASSUME NEW i \in S PROVE i + 1 \in S
  <2>1. i \in Nat
    OBVIOUS
  <2> SUFFICES ASSUME i + 1 <= n, i + 1 <= m PROVE g[i + 1] = h[i + 1]
    BY <2>1
  <2>2. /\ i + 1 \in 0..n /\ i + 1 \in 0..m /\ i + 1 # 0 /\ (i + 1) - 1 = i
        /\ i <= n /\ i <= m
    BY <2>1
  <2>3. g[i + 1] = step[i + 1, g[i]] /\ h[i + 1] = step[i + 1, h[i]]
    BY <2>2 DEF Follows, Recurs
  <2>4. g[i] = h[i]
    BY <2>2
  <2> QED
    BY <2>3, <2>4
<1>3. S = Nat
  <2>1. S \in SUBSET Nat
    OBVIOUS
  <2> HIDE DEF S
  <2> QED
    BY <1>1, <1>2, <2>1, SetInduction
<1> QED
  BY <1>3

\* A recursion on a natural number defines a function on Nat.
LEMMA PrimitiveRecursion ==
  ASSUME NEW base \in Nat, NEW step \in [Nat \X Nat -> Nat]
  PROVE  \E f \in [Nat -> Nat] :
            f = [n \in Nat |-> IF n = 0 THEN base ELSE step[n, f[n - 1]]]
<1> DEFINE upTo == [n \in Nat |-> CHOOSE g : Follows(g, n, base, step)]
           f == [n \in Nat |-> upTo[n][n]]
<1>1. ASSUME NEW n \in Nat PROVE Follows(upTo[n], n, base, step)
  BY FollowsExists
<1> HIDE DEF upTo
<1>2. ASSUME NEW n \in Nat PROVE upTo[n][n] \in Nat
  <2>1. n \in 0..n /\ upTo[n] \in [0..n -> Nat]
    BY <1>1 DEF Follows
  <2> QED
    BY <2>1
<1>3. f \in [Nat -> Nat]
  BY <1>2
<1>4. ASSUME NEW n \in Nat PROVE f[n] = IF n = 0 THEN base ELSE step[n, f[n - 1]]
  <2>1. CASE n = 0
    BY <1>1, <2>1 DEF Follows
  <2>2. CASE n # 0
    <3>1. n - 1 \in Nat /\ n \in 0..n /\ n - 1 <= n /\ n - 1 <= n - 1
      BY <2>2
    <3>2. upTo[n][n] = step[n, upTo[n][n - 1]]
      BY <1>1, <2>2, <3>1 DEF Follows, Recurs
    <3>3. upTo[n][n - 1] = upTo[n - 1][n - 1]
      BY <1>1, <3>1, FollowsAgrees
    <3> QED
      BY <2>2, <3>1, <3>2, <3>3
  <2> QED
    BY <2>1, <2>2
<1>5. f = [n \in Nat |-> IF n = 0 THEN base ELSE step[n, f[n - 1]]]
  <2>1. f = [n \in Nat |-> f[n]]
    OBVIOUS
  <2> HIDE DEF f
  <2> QED
    BY <1>4, <2>1
<1> QED
  BY <1>3, <1>5

-----------------------------------------------------------------------------
(* The time an agent's calls may take.                                     *)

\* 2 ** attempt is a natural number, and with it the sleep.
LEMMA BackoffType == \A n \in Nat : Backoff(n) \in Nat
<1> DEFINE step == [p \in Nat \X Nat |-> 2 * p[2]]
<1>1. step \in [Nat \X Nat -> Nat]
  OBVIOUS
<1>2. PICK f \in [Nat -> Nat] : f = [n \in Nat |-> IF n = 0 THEN 1 ELSE step[n, f[n - 1]]]
  <2>1. 1 \in Nat
    OBVIOUS
  <2> HIDE DEF step
  <2> QED
    BY <1>1, <2>1, PrimitiveRecursion
<1>3. ASSUME NEW n \in Nat, n # 0 PROVE step[n, f[n - 1]] = 2 * f[n - 1]
  <2>1. n - 1 \in Nat
    BY <1>3
  <2> QED
    BY <1>2, <2>1
<1>4. f = [n \in Nat |-> IF n = 0 THEN 1 ELSE 2 * f[n - 1]]
  <2> HIDE DEF step
  <2> QED
    BY <1>2, <1>3
<1>5. Doubled = [n \in Nat |-> IF n = 0 THEN 1 ELSE 2 * Doubled[n - 1]]
  <2> HIDE DEF step
  <2> QED
    BY <1>4 DEF Doubled
<1>6. \A n \in Nat : Doubled[n] \in Nat
  <2> DEFINE S == {n \in Nat : Doubled[n] \in Nat}
  <2>1. S \in SUBSET Nat
    OBVIOUS
  <2>2. 0 \in S
    BY <1>5
  <2>3. ASSUME NEW n \in S PROVE n + 1 \in S
    <3>1. n \in Nat /\ n + 1 \in Nat /\ n + 1 # 0 /\ (n + 1) - 1 = n /\ Doubled[n] \in Nat
      OBVIOUS
    <3>2. Doubled[n + 1] = 2 * Doubled[n]
      BY <1>5, <3>1
    <3> QED
      BY <3>1, <3>2
  <2>4. S = Nat
    <3> HIDE DEF S
    <3> QED
      BY <2>1, <2>2, <2>3, SetInduction
  <2> QED
    BY <2>4
<1> QED
  BY <1>6 DEF Backoff, Cap

\* Each sleep adds to the ones before it.
LEMMA SleepsAdd ==
    /\ Sleeps[0] = 0
    /\ \A n \in Nat : Sleeps[n] \in Nat /\ Sleeps[n + 1] = Backoff(n + 1) + Sleeps[n]
<1> DEFINE step == [p \in Nat \X Nat |-> Backoff(p[1]) + p[2]]
<1>1. step \in [Nat \X Nat -> Nat]
  BY BackoffType
<1>2. PICK f \in [Nat -> Nat] : f = [n \in Nat |-> IF n = 0 THEN 0 ELSE step[n, f[n - 1]]]
  <2>1. 0 \in Nat
    OBVIOUS
  <2> HIDE DEF step
  <2> QED
    BY <1>1, <2>1, PrimitiveRecursion
<1>3. ASSUME NEW n \in Nat, n # 0 PROVE step[n, f[n - 1]] = Backoff(n) + f[n - 1]
  <2>1. n - 1 \in Nat
    BY <1>3
  <2> QED
    BY <1>2, <2>1
<1>4. f = [n \in Nat |-> IF n = 0 THEN 0 ELSE Backoff(n) + f[n - 1]]
  <2> HIDE DEF step
  <2> QED
    BY <1>2, <1>3
<1>5. Sleeps = [n \in Nat |-> IF n = 0 THEN 0 ELSE Backoff(n) + Sleeps[n - 1]]
  <2> HIDE DEF step
  <2> QED
    BY <1>4 DEF Sleeps
<1>6. ASSUME NEW n \in Nat PROVE Sleeps[n + 1] = Backoff(n + 1) + Sleeps[n]
  <2>1. n + 1 \in Nat /\ n + 1 # 0 /\ (n + 1) - 1 = n
    OBVIOUS
  <2> QED
    BY <1>5, <2>1
<1>7. Sleeps[0] = 0
  BY <1>5
<1>8. \A n \in Nat : Sleeps[n] \in Nat
  <2> DEFINE S == {n \in Nat : Sleeps[n] \in Nat}
  <2>1. S \in SUBSET Nat
    OBVIOUS
  <2>2. 0 \in S
    BY <1>7
  <2>3. ASSUME NEW n \in S PROVE n + 1 \in S
    <3>1. n \in Nat /\ n + 1 \in Nat /\ Sleeps[n] \in Nat
      OBVIOUS
    <3>2. Backoff(n + 1) \in Nat
      BY <3>1, BackoffType
    <3> QED
      BY <1>6, <3>1, <3>2
  <2>4. S = Nat
    <3> HIDE DEF S
    <3> QED
      BY <2>1, <2>2, <2>3, SetInduction
  <2> QED
    BY <2>4
<1> QED
  BY <1>6, <1>7, <1>8

\* One more attempt that fails takes at most the timeout and the sleep after it.
LEMMA FailedGrows ==
    /\ Failed(0) = 0
    /\ \A n \in Nat : /\ Failed(n) \in Nat
                      /\ Failed(n + 1) = Failed(n) + Timeout + Backoff(n + 1)
                      /\ Failed(n) <= Failed(n + 1)
<1>1. Timeout \in Nat
  BY LlmAssumption
<1>2. Failed(0) = 0
  BY <1>1, SleepsAdd DEF Failed
<1>3. ASSUME NEW n \in Nat
      PROVE  /\ Failed(n) \in Nat
             /\ Failed(n + 1) = Failed(n) + Timeout + Backoff(n + 1)
             /\ Failed(n) <= Failed(n + 1)
  <2>1. n * Timeout \in Nat /\ (n + 1) * Timeout = n * Timeout + Timeout
    BY <1>1
  <2>2. Sleeps[n] \in Nat /\ Sleeps[n + 1] = Backoff(n + 1) + Sleeps[n] /\ Backoff(n + 1) \in Nat
    BY SleepsAdd, BackoffType
  <2> QED
    BY <1>1, <2>1, <2>2 DEF Failed
<1> QED
  BY <1>2, <1>3

\* No more attempts take more time.
LEMMA FailedOrder ==
    ASSUME NEW m \in Nat, NEW n \in 0..m
    PROVE  Failed(n) <= Failed(m)
<1> DEFINE S == {d \in Nat : Failed(n) <= Failed(n + d)}
<1>1. S \in SUBSET Nat
  OBVIOUS
<1>2. n \in Nat /\ m - n \in Nat /\ n + (m - n) = m /\ n + 0 = n
  OBVIOUS
<1>3. 0 \in S
  BY <1>2, FailedGrows
<1>4. ASSUME NEW d \in S PROVE d + 1 \in S
  <2>1. d \in Nat /\ n + d \in Nat /\ n + (d + 1) = (n + d) + 1 /\ Failed(n) <= Failed(n + d)
    BY <1>2
  <2>2. /\ Failed(n) \in Nat /\ Failed(n + d) \in Nat /\ Failed((n + d) + 1) \in Nat
        /\ Failed(n + d) <= Failed((n + d) + 1)
    BY <1>2, <2>1, FailedGrows
  <2>3. Failed(n) <= Failed(n + (d + 1))
    BY <2>1, <2>2
  <2> QED
    BY <2>1, <2>3
<1>5. S = Nat
  <2> HIDE DEF S
  <2> QED
    BY <1>1, <1>3, <1>4, SetInduction
<1> QED
  BY <1>2, <1>5

\* The budget is what two agents may take that fail at every attempt.
LEMMA BudgetIs ==
    /\ Failed(MaxRetries) \in Nat
    /\ Budget \in Nat /\ Budget = 2 * (Failed(MaxRetries) + Timeout)
<1>1. MaxRetries \in Nat /\ Timeout \in Nat
  BY LlmAssumption
<1>2. (MaxRetries + 1) * Timeout = MaxRetries * Timeout + Timeout
  BY <1>1
<1>3. MaxRetries * Timeout \in Nat /\ Sleeps[MaxRetries] \in Nat
  BY <1>1, SleepsAdd
<1> QED
  BY <1>1, <1>2, <1>3 DEF Budget, Failed

\* A card c whose agent does something, and only c: what it has spent stays in
\* time when what its next place, attempt and total say of it is.
LEMMA SpentByOne ==
    ASSUME SpentInTime, NEW c \in Cards, TypeOK, TypeOK',
           NEW next, NEW n \in Nat, NEW total \in Nat,
           at' = [at EXCEPT ![c] = next], attempt' = [attempt EXCEPT ![c] = n],
           spent' = [spent EXCEPT ![c] = total],
           next = "summarize" => total <= Failed(n - 1),
           next = "draft" => total <= Failed(MaxRetries) + Timeout + Failed(n - 1),
           next \notin Agents => total <= Budget /\ n = 1, next # "new"
    PROVE  SpentInTime'
<1>1. at \in [Cards -> Agents \cup Sending \cup {"new", "sent", "raised", "gone"}]
  BY DEF TypeOK, GatewayTypeOK
<1>2. attempt \in [Cards -> 1..(MaxRetries + 1)] /\ spent \in [Cards -> Nat]
  BY DEF TypeOK, LlmTypeOK, SpentInTime
<1>3. spent' \in [Cards -> Nat]
  BY <1>2
<1>4. ASSUME NEW d \in Cards, d # c
      PROVE  at'[d] = at[d] /\ attempt'[d] = attempt[d] /\ spent'[d] = spent[d]
  BY <1>1, <1>2, <1>4
<1>5. at'[c] = next /\ attempt'[c] = n /\ spent'[c] = total
  BY <1>1, <1>2
<1> QED
  BY <1>3, <1>4, <1>5 DEF SpentInTime

\* No call of an agent, and no other step of a job, takes it out of its time.
LEMMA SpentStepOK == CardsIInv /\ SpentInTime /\ [Next]_vars => SpentInTime'
<1> SUFFICES ASSUME CardsIInv, SpentInTime, [Next]_vars PROVE SpentInTime'
  OBVIOUS
<1>1. TypeOK /\ TypeOK'
  BY CardsStepOK DEF CardsIInv
<1>2. /\ at \in [Cards -> Agents \cup Sending \cup {"new", "sent", "raised", "gone"}]
      /\ attempt \in [Cards -> 1..(MaxRetries + 1)] /\ spent \in [Cards -> Nat]
      /\ MaxRetries \in Nat /\ Timeout \in Nat /\ Took \in SUBSET (0..Timeout)
  BY <1>1, LlmAssumption DEF TypeOK, GatewayTypeOK, LlmTypeOK, SpentInTime
\* A step of none of the agents.
<1>3. ASSUME UNCHANGED llmVars,
             \A c \in Cards : \/ at'[c] = at[c]
                              \/ at[c] \notin Agents /\ at'[c] \notin Agents \cup {"new"}
                              \/ at[c] = "new" /\ at'[c] = "summarize"
      PROVE  SpentInTime'
  <2>1. spent' = spent /\ attempt' = attempt
    BY <1>3 DEF llmVars
  <2>2. Failed(1 - 1) = 0
    BY FailedGrows
  <2>3. ASSUME NEW c \in Cards, at'[c] # at[c]
        PROVE  /\ at'[c] # "draft" /\ at'[c] # "new" /\ spent[c] <= Budget /\ attempt[c] = 1
               /\ at'[c] = "summarize" => spent[c] = 0
    BY <1>3, <2>3 DEF SpentInTime, Agents
  <2>4. \A c \in Cards : at'[c] # at[c] /\ at'[c] = "summarize" => spent[c] <= Failed(1 - 1)
    BY <1>2, <2>2, <2>3
  <2> QED
    BY <1>2, <2>1, <2>3, <2>4 DEF SpentInTime
\* What the agent of c has spent after one attempt more: its timeout and a
\* sleep when it tries again, within the budget when it is the last.
<1>4. ASSUME NEW c \in Cards, at[c] \in Agents, NEW secs \in Nat, secs <= Timeout
      PROVE  /\ at[c] = "summarize" => spent[c] + secs <= Failed(MaxRetries) + Timeout
             /\ spent[c] + secs <= Budget
  <2>1. attempt[c] - 1 \in 0..MaxRetries /\ attempt[c] - 1 \in Nat
    BY <1>2
  <2>2. Failed(attempt[c] - 1) <= Failed(MaxRetries) /\ Failed(attempt[c] - 1) \in Nat
    BY <1>2, <2>1, FailedOrder, FailedGrows
  <2>3. /\ at[c] = "summarize" => spent[c] <= Failed(attempt[c] - 1)
        /\ at[c] = "draft" =>
              spent[c] <= Failed(MaxRetries) + Timeout + Failed(attempt[c] - 1)
    BY DEF SpentInTime
  <2>4. spent[c] \in Nat
    BY <1>2
  <2> QED
    BY <1>2, <1>4, <2>2, <2>3, <2>4, BudgetIs DEF Agents
<1>5. ASSUME NEW c \in Cards, at[c] \in Agents, NEW next, NEW secs \in Nat, secs <= Timeout,
             LeaveLoop(c, next, secs), next # "new",
             \/ next = "draft" /\ at[c] = "summarize"
             \/ next \notin Agents
      PROVE  SpentInTime'
  <2> DEFINE total == spent[c] + secs
  <2>1. /\ at' = [at EXCEPT ![c] = next] /\ attempt' = [attempt EXCEPT ![c] = 1]
        /\ spent' = [spent EXCEPT ![c] = total]
    BY <1>5 DEF LeaveLoop
  <2>2. total \in Nat /\ 1 \in Nat /\ Failed(1 - 1) = 0 /\ Failed(MaxRetries) \in Nat
    BY <1>2, FailedGrows, BudgetIs
  <2>3. at[c] = "summarize" => total <= Failed(MaxRetries) + Timeout
    BY <1>4, <1>5
  <2>4. total <= Budget
    BY <1>4, <1>5
  <2>5. next # "summarize"
    BY <1>5 DEF Agents
  <2>6. next = "draft" => total <= Failed(MaxRetries) + Timeout + Failed(1 - 1)
    <3> HIDE DEF total
    <3> QED
      BY <1>2, <1>5, <2>2, <2>3 DEF Agents
  <2> HIDE DEF total
  <2> QED
    BY <1>1, <1>5, <2>1, <2>2, <2>4, <2>5, <2>6, SpentByOne
<1>6. ASSUME NEW c \in Cards, NEW secs \in Nat, secs <= Timeout,
             NEW pause \in Nat, pause <= Backoff(attempt[c]), Again(c, secs, pause)
      PROVE  SpentInTime'
  <2>1. CASE attempt[c] > MaxRetries
    BY <1>5, <1>6, <2>1 DEF Again, Agents
  <2>2. CASE ~(attempt[c] > MaxRetries)
    <3> DEFINE total == spent[c] + secs + pause
               n == attempt[c] + 1
    <3>1. /\ at' = [at EXCEPT ![c] = at[c]] /\ attempt' = [attempt EXCEPT ![c] = n]
          /\ spent' = [spent EXCEPT ![c] = total] /\ at[c] \in Agents
      BY <1>2, <1>6, <2>2 DEF Again
    <3>2. /\ attempt[c] \in Nat /\ attempt[c] - 1 \in Nat /\ n \in Nat
          /\ (attempt[c] - 1) + 1 = attempt[c] /\ n - 1 = attempt[c]
          /\ spent[c] \in Nat /\ total \in Nat
      BY <1>2
    <3>3. /\ Failed(attempt[c]) = Failed(attempt[c] - 1) + Timeout + Backoff(attempt[c])
          /\ Failed(attempt[c]) \in Nat /\ Failed(attempt[c] - 1) \in Nat
          /\ Failed(MaxRetries) \in Nat /\ Backoff(attempt[c]) \in Nat
      BY <1>2, <3>2, FailedGrows, BackoffType
    <3>4. CASE at[c] = "summarize"
      <4>1. spent[c] <= Failed(attempt[c] - 1)
        BY <3>4 DEF SpentInTime
      <4>2. total <= Failed(n - 1)
        BY <1>2, <1>6, <3>2, <3>3, <4>1
      <4> HIDE DEF total, n
      <4> QED
        BY <1>1, <3>1, <3>2, <3>4, <4>2, SpentByOne DEF Agents
    <3>5. CASE at[c] = "draft"
      <4>1. spent[c] <= Failed(MaxRetries) + Timeout + Failed(attempt[c] - 1)
        BY <3>5 DEF SpentInTime
      <4>2. total <= Failed(MaxRetries) + Timeout + Failed(n - 1)
        BY <1>2, <1>6, <3>2, <3>3, <4>1
      <4> HIDE DEF total, n
      <4> QED
        BY <1>1, <3>1, <3>2, <3>5, <4>2, SpentByOne DEF Agents
    <3> QED
      BY <3>1, <3>4, <3>5 DEF Agents
  <2> QED
    BY <2>1, <2>2
<1>7. ASSUME NEW c \in Cards, CallEnds(c) PROVE SpentInTime'
  <2>1. Backoff(attempt[c]) \in Nat /\ \A secs \in Took : secs \in Nat /\ secs <= Timeout
    BY <1>2, BackoffType
  <2>2. ASSUME NEW secs \in Took, Answer(c, secs) PROVE SpentInTime'
    BY <1>5, <2>1, <2>2 DEF Answer, Agents
  <2>3. ASSUME NEW secs \in Took, GiveUp(c, secs) PROVE SpentInTime'
    BY <1>5, <2>1, <2>3 DEF GiveUp, Agents
  <2>4. ASSUME NEW secs \in Took, Transient(c, secs) PROVE SpentInTime'
    BY <1>6, <2>1, <2>4 DEF Transient
  <2>5. CASE TimesOut(c)
    BY <1>2, <1>6, <2>1, <2>5 DEF TimesOut
  <2> QED
    BY <1>7, <2>2, <2>3, <2>4, <2>5 DEF CallEnds
<1>8. CASE UNCHANGED vars
  BY <1>3, <1>8 DEF vars
<1>9. ASSUME NEW c \in Cards, Run(c) PROVE SpentInTime'
  BY <1>2, <1>3, <1>9 DEF Run, Move
<1>10. ASSUME NEW c \in Cards, Send(c) PROVE SpentInTime'
  <2>1. ASSUME NEW commit \in Commits, Insert(c, commit) PROVE SpentInTime'
    <3>1. PICK next \in {"file", "raised"} : at' = [at EXCEPT ![c] = next]
      BY <2>1 DEF Insert, Move
    <3>2. attempt[c] = 1
      BY <2>1 DEF Insert, SpentInTime, Agents
    <3>3. spent' = [spent EXCEPT ![c] = 0] /\ attempt' = [attempt EXCEPT ![c] = 1]
      BY <1>2, <2>1, <3>2 DEF Insert, LlmDone
    <3>4. 0 \in Nat /\ 1 \in Nat /\ 0 <= Budget
      BY BudgetIs
    <3> QED
      BY <1>1, <3>1, <3>3, <3>4, SpentByOne DEF Agents
  <2>2. ASSUME UNCHANGED llmVars,
               \E next \in Sending \cup {"sent", "raised"} :
                  at[c] \in Sending /\ at' = [at EXCEPT ![c] = next]
        PROVE  SpentInTime'
    BY <1>2, <1>3, <2>2 DEF Agents, Sending
  <2>3. ASSUME NEW commit \in Commits, Record(c, commit) PROVE SpentInTime'
    BY <2>2, <2>3 DEF Record, Move, Sending
  <2>4. ASSUME NEW written \in BOOLEAN, WriteFile(c, written) PROVE SpentInTime'
    BY <2>2, <2>4 DEF WriteFile, Move, NextHook, Sending
  <2>5. ASSUME NEW h \in Webhooks, NEW taken \in BOOLEAN, NEW heard \in BOOLEAN,
               Post(c, h, taken, heard)
        PROVE  SpentInTime'
    BY <2>2, <2>5, GatewayAssumption DEF Post, Move, NextHook, Sending
  <2> QED
    BY <1>10, <2>1, <2>3, <2>4, <2>5 DEF Send, send
<1>11. ASSUME NEW r \in Requests, Decide(r) \/ \E h \in Headers : PostDecide(r, h)
       PROVE  SpentInTime'
  <2>1. UNCHANGED <<at, llmVars>>
    BY <1>11 DEF Decide, DecideCommits, PostDecide, DecideReads
  <2> QED
    BY <1>3, <2>1
<1>12. CASE Crash
  <2>1. /\ spent' = [c \in Cards |-> 0] /\ attempt' = [c \in Cards |-> 1]
        /\ \A c \in Cards : at'[c] \notin Agents
    BY <1>12 DEF Crash, Agents, Sending
  <2> QED
    BY <2>1, BudgetIs DEF SpentInTime, Agents
<1> QED
  BY <1>7, <1>8, <1>9, <1>10, <1>11, <1>12 DEF Next, Agent

-----------------------------------------------------------------------------
(* The theorems.                                                           *)

\* CardsIInv is an invariant of the gateway, its senders and its deciders.
THEOREM CardsInvariance == Spec => []CardsIInv
<1>1. Init => CardsIInv
  BY GatewayAssumption, LlmAssumption
     DEF Init, LlmInit, GatewayInit, CardsIInv, TypeOK, LlmTypeOK, GatewayTypeOK,
         NotifiedIsDecidable, ViaIsTrue, AnsweredDecisionStood, Agents, Sending, Headers
<1> QED
  BY <1>1, CardsStepOK, PTL DEF Spec

\* send announces a card nowhere before its row is committed.
THEOREM NotifiedIsDecidableHolds == Spec => []NotifiedIsDecidable
<1>1. CardsIInv => NotifiedIsDecidable
  BY DEF CardsIInv
<1> QED
  BY <1>1, CardsInvariance, PTL

\* delivered_via names channels that have the card, whatever failed in send.
THEOREM ViaIsTrueHolds == Spec => []ViaIsTrue
<1>1. CardsIInv => ViaIsTrue
  BY DEF CardsIInv
<1> QED
  BY <1>1, CardsInvariance, PTL

\* A decision that decide answered with 200 was the row's meanwhile.
THEOREM AnsweredDecisionStoodHolds == Spec => []AnsweredDecisionStood
<1>1. CardsIInv => AnsweredDecisionStood
  BY DEF CardsIInv
<1> QED
  BY <1>1, CardsInvariance, PTL

\* _validate_bind_safety and _require_token together let no decision without
\* the token through a remote interface, nor through any when a token is set.
THEOREM RemoteNeedsTokenHolds == Spec => []RemoteNeedsToken
<1>1. CardsIInv => RemoteNeedsToken
  BY DEF CardsIInv, RemoteNeedsToken
<1> QED
  BY <1>1, CardsInvariance, PTL

\* Only decide changes a decision, and never back to pending: the last session
\* of send leaves it alone.
THEOREM DecisionSurvivesHolds == Spec => DecisionSurvives
<1>1. CardsIInv /\ [Next]_vars =>
        [\A c \in Cards : decision'[c] # decision[c] =>
           /\ decision'[c] # "none"
           /\ decidedAt'[c] # decidedAt[c]]_vars
  <2> DEFINE Survives == \A c \in Cards : decision'[c] # decision[c] =>
                            decision'[c] # "none" /\ decidedAt'[c] # decidedAt[c]
  <2> SUFFICES ASSUME CardsIInv, Next PROVE Survives
    OBVIOUS
  <2>1. CASE decision' = decision
    BY <2>1
  <2>2. ASSUME NEW r \in Requests, Decide(r) PROVE Survives
    <3>1. /\ answer[r] = "open" /\ wish[r] \in Decisions /\ about[r] \in Cards
          /\ decidedAt[about[r]] # r /\ decision \in [Cards -> Decisions \cup {"none"}]
          /\ decidedAt \in [Cards -> Requests \cup {NoRequest}]
      BY <2>2 DEF CardsIInv, TypeOK, GatewayTypeOK, Decide, DecideCommits
    <3>2. \/ decision' = decision
          \/ /\ decision' = [decision EXCEPT ![about[r]] = DecisionWritten(r)]
             /\ decidedAt' = [decidedAt EXCEPT ![about[r]] = r]
      BY <2>2 DEF Decide, DecideCommits
    <3> QED
      BY <3>1, <3>2 DEF DecisionWritten, Decisions
  <2>3. decision' = decision \/ \E r \in Requests : Decide(r)
    BY DEF Next, Run, Agent, Send, send, Insert, Record, WriteFile, Post, PostDecide,
       DecideReads, Crash, vars, gatewayVars, rowVars
  <2> QED
    BY <2>1, <2>2, <2>3
<1> QED
  BY <1>1, CardsInvariance, PTL DEF Spec, DecisionSurvives

\* An outage blocks a worker for a bounded time: for any timeout and number of
\* retries, _llm_call's two loops end within Budget, the last attempt included.
THEOREM LlmWithinBudgetHolds == Spec => []LlmWithinBudget
<1>1. Init => SpentInTime
  <2>1. 0 <= Budget /\ 0 \in Nat
    BY BudgetIs
  <2> QED
    BY <2>1 DEF Init, LlmInit, SpentInTime
<1>2. CardsIInv /\ SpentInTime => LlmWithinBudget
  <2> SUFFICES ASSUME CardsIInv, SpentInTime, NEW c \in Cards PROVE spent[c] <= Budget
    BY DEF LlmWithinBudget
  <2>1. /\ attempt[c] - 1 \in 0..MaxRetries /\ attempt[c] - 1 \in Nat
        /\ spent[c] \in Nat /\ MaxRetries \in Nat /\ Timeout \in Nat
    BY LlmAssumption DEF CardsIInv, TypeOK, LlmTypeOK, SpentInTime
  <2>2. /\ Failed(attempt[c] - 1) <= Failed(MaxRetries)
        /\ Failed(attempt[c] - 1) \in Nat
    BY <2>1, FailedOrder, FailedGrows
  <2>3. \/ spent[c] <= Failed(MaxRetries) + Timeout + Failed(attempt[c] - 1)
        \/ spent[c] <= Budget
    BY <2>1, <2>2, BudgetIs DEF SpentInTime, Agents
  <2> QED
    BY <2>1, <2>2, <2>3, BudgetIs
<1> QED
  BY <1>1, <1>2, CardsInvariance, SpentStepOK, PTL DEF Spec
=============================================================================
