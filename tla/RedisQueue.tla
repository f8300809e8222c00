----------------------------- MODULE RedisQueue -----------------------------
(***************************************************************************)
(* The three Redis lists of core/queues/redis_queue.py.  A job is pushed   *)
(* at the tail (RPUSH) and popped from the head (BLPOP) of the first       *)
(* non-empty list of HIGH, NORMAL.  FAILED is a dead-letter list: nothing  *)
(* pops it.  Each Redis command is atomic.  A job is its uuid; what the    *)
(* model needs of its JSON body is `attempt` and, in CommitPipeline, the   *)
(* handler and the (repo, sha) its type and payload select.                *)
(***************************************************************************)
EXTENDS Naturals, Sequences, FiniteSets

CONSTANT Jobs

VARIABLES
    queues,   \* queues[q]: the Redis list named q
    attempt   \* attempt[j]: the field Job.attempt

queueVars == <<queues, attempt>>

QueueName == {"HIGH", "NORMAL", "FAILED"}

QueueTypeOK ==
    /\ queues \in [QueueName -> Seq(Jobs)]
    /\ attempt \in [Jobs -> Nat]

QueueInit ==
    /\ queues = [q \in QueueName |-> <<>>]
    /\ attempt = [j \in Jobs |-> 0]

\* RedisQueue.enqueue: RPUSH.
enqueue(j, q) ==
    /\ queues' = [queues EXCEPT ![q] = Append(@, j)]
    /\ UNCHANGED attempt

\* Faulty variant: BLPOP is also given the dead-letter list.
ServedAlsoFailed ==
    IF queues["HIGH"] # <<>> THEN "HIGH"
    ELSE IF queues["NORMAL"] # <<>> THEN "NORMAL" ELSE "FAILED"

\* Faulty variant: BLPOP is given one list.
ServedOnlyNormal == "NORMAL"

\* The list BLPOP serves when it is given HIGH and NORMAL, in this order.
Served == IF queues["HIGH"] # <<>> THEN "HIGH" ELSE "NORMAL"

\* Faulty variant: the job is read and not removed.
dequeue_peeks(j) ==
    /\ queues[Served] # <<>>
    /\ j = Head(queues[Served])
    /\ UNCHANGED queueVars

\* RedisQueue.dequeue returning job j.
dequeue(j) ==
    /\ queues[Served] # <<>>
    /\ j = Head(queues[Served])
    /\ queues' = [queues EXCEPT ![Served] = Tail(@)]
    /\ UNCHANGED attempt

\* RedisQueue.fail: the attempt is counted in the job, then the job is
\* pushed; `pushed` is FALSE when the RPUSH did not reach Redis.
fail(j, pushed) ==
    /\ attempt' = [attempt EXCEPT ![j] = @ + 1]
    /\ queues' = IF pushed
                 THEN [queues EXCEPT !["FAILED"] = Append(@, j)]
                 ELSE queues

\* The number of copies of j in the list s.
Copies(j, s) == Cardinality({n \in DOMAIN s : s[n] = j})
=============================================================================
