---------------------------- MODULE EmailService ----------------------------
(***************************************************************************)
(* email_srv: the main thread polls Kafka and queues addresses, worker     *)
(* threads take them, ask Redis whether the address may be served, store a *)
(* fresh code in Redis and mail it.  The module follows the threads        *)
(* through the two mutexes and the two condition variables of              *)
(* emailServer.h and redispool.h, and Redis through its replies.           *)
(***************************************************************************)
EXTENDS Integers, Sequences, FiniteSets

CONSTANTS
    Emails,         \* addresses that ask for a code
    Workers,        \* worker threads
    Conns,          \* connections the pool was built with
    Codes,          \* codes gen_code can draw
    DedupTtl,       \* email.dedup_ttl_sec, in ticks of the clock
    RedisFails,     \* may a connection break in the middle of a command?
    RedisRejects,   \* may Redis answer a SET with an error reply?
    MaxTasks,       \* bound: messages received
    MaxClock,       \* bound: ticks
    None            \* no connection, no code, no address

ASSUME NoneAssumption == None \notin Conns \cup Codes \cup Emails
ASSUME ThreadAssumption == IsFiniteSet(Workers)
ASSUME SwitchAssumption == RedisFails \in BOOLEAN /\ RedisRejects \in BOOLEAN
ASSUME TtlAssumption == DedupTtl \in Nat \ {0}
ASSUME BoundAssumption == MaxTasks \in Nat /\ MaxClock \in Nat

VARIABLES
    running,    \* g_running
    main,       \* next statement of the main thread
    stop,       \* stop_
    tasks,      \* tasks_
    received,   \* how many messages were received
    pc,         \* next statement of each worker
    task,       \* the address a worker handles
    conn,       \* the connection a worker holds
    code,       \* the code a worker is to mail, None if it mails nothing
    since,      \* when Redis let a worker serve its address
    pool,       \* connections in pool_
    broken,     \* connections with err set
    dedup,      \* when the key email_dedup:<email> expires
    stored,     \* codes ever written under the key <email>
    rejected,   \* codes that Redis refused to write there (history)
    mails,      \* mails the SMTP server accepted
    clock

mainVars  == <<running, main, stop>>
queueVars == <<tasks, received>>
localVars == <<task, conn, code, since>>
poolVars  == <<pool, broken>>
redisVars == <<dedup, stored, rejected>>
vars == <<mainVars, queueVars, pc, localVars, poolVars, redisVars, mails, clock>>

Statements ==
    {"idle", "checked", "blocked", "get", "poolwait", "dedup", "store",
     "put", "send", "done"}

Init ==
    /\ running = TRUE
    /\ main = "poll"
    /\ stop = FALSE
    /\ tasks = <<>>
    /\ received = 0
    /\ pc = [w \in Workers |-> "idle"]
    /\ task = [w \in Workers |-> None]
    /\ conn = [w \in Workers |-> None]
    /\ code = [w \in Workers |-> None]
    /\ since = [w \in Workers |-> 0]
    /\ pool = Conns
    /\ broken = {}
    /\ dedup = [e \in Emails |-> 0]
    /\ stored = {} /\ rejected = {}
    /\ mails = {}
    /\ clock = 0

\* cv_.wait evaluates its predicate with mtx_ held and releases it only when
\* the thread blocks; all other critical sections of mtx_ are one step.
Unlocked == \A w \in Workers : pc[w] # "checked"

\* Mutant: nobody is notified.
NotifyOne_Nobody(from, p, q) == pc' = from

\* notify_one: one of the threads blocked at p, if there is any, runs on at q.
NotifyOne(from, p, q) ==
    LET asleep == {w \in Workers : from[w] = p}
    IN IF asleep = {} THEN pc' = from
                      ELSE \E w \in asleep : pc' = [from EXCEPT ![w] = q]

-----------------------------------------------------------------------------
(* The main thread *)

\* SIGINT or SIGTERM.
Signal ==
    /\ running
    /\ running' = FALSE
    /\ UNCHANGED <<main, stop, queueVars, pc, localVars, poolVars, redisVars, mails, clock>>

\* Mutant: enqueue pushes without mtx_.
Enqueue_NoLock(e) ==
    /\ main = "poll" /\ running
    /\ received < MaxTasks
    /\ tasks' = Append(tasks, e)
    /\ received' = received + 1
    /\ main' = "notify"
    /\ UNCHANGED <<running, stop, pc, localVars, poolVars, redisVars, mails, clock>>

\* A message arrives: enqueue pushes it under mtx_ ...
Enqueue(e) ==
    /\ main = "poll" /\ running
    /\ received < MaxTasks
    /\ Unlocked
    /\ tasks' = Append(tasks, e)
    /\ received' = received + 1
    /\ main' = "notify"
    /\ UNCHANGED <<running, stop, pc, localVars, poolVars, redisVars, mails, clock>>

\* ... and notifies one worker after mtx_ has been released.
NotifyTask ==
    /\ main = "notify"
    /\ NotifyOne(pc, "blocked", "idle")
    /\ main' = "poll"
    /\ UNCHANGED <<running, stop, queueVars, localVars, poolVars, redisVars, mails, clock>>

\* The loop ends; the destructor of EmailService sets stop_, without mtx_ ...
SetStop ==
    /\ main = "poll" /\ ~running
    /\ stop' = TRUE
    /\ main' = "stopping"
    /\ UNCHANGED <<running, queueVars, pc, localVars, poolVars, redisVars, mails, clock>>

\* ... wakes every worker that is blocked now ...
NotifyAll ==
    /\ main = "stopping"
    /\ pc' = [w \in Workers |-> IF pc[w] = "blocked" THEN "idle" ELSE pc[w]]
    /\ main' = "join"
    /\ UNCHANGED <<running, stop, queueVars, localVars, poolVars, redisVars, mails, clock>>

\* ... and joins them all; the queue is destroyed with what is left in it.
Join ==
    /\ main = "join"
    /\ \A w \in Workers : pc[w] = "done"
    /\ main' = "exited"
    /\ tasks' = <<>>
    /\ UNCHANGED <<running, stop, received, pc, localVars, poolVars, redisVars, mails, clock>>

-----------------------------------------------------------------------------
(* workerLoop *)

\* The worker locks mtx_: it ends, takes a task, or finds nothing to do.
Check(w) ==
    /\ pc[w] = "idle"
    /\ Unlocked
    /\ \/ /\ stop
          /\ pc' = [pc EXCEPT ![w] = "done"]
          /\ UNCHANGED <<tasks, task>>
       \/ /\ ~stop /\ tasks # <<>>
          /\ task' = [task EXCEPT ![w] = Head(tasks)]
          /\ tasks' = Tail(tasks)
          /\ pc' = [pc EXCEPT ![w] = "get"]
       \/ /\ ~stop /\ tasks = <<>>
          /\ pc' = [pc EXCEPT ![w] = "checked"]
          /\ UNCHANGED <<tasks, task>>
    /\ UNCHANGED <<mainVars, received, conn, code, since, poolVars, redisVars, mails, clock>>

\* The predicate was false: the thread blocks and releases mtx_.
Block(w) ==
    /\ pc[w] = "checked"
    /\ pc' = [pc EXCEPT ![w] = "blocked"]
    /\ UNCHANGED <<mainVars, queueVars, localVars, poolVars, redisVars, mails, clock>>

\* A condition variable may wake a thread for no reason.
SpuriousWake(w) ==
    /\ \/ pc[w] = "blocked" /\ pc' = [pc EXCEPT ![w] = "idle"]
       \/ pc[w] = "poolwait" /\ pc' = [pc EXCEPT ![w] = "get"]
    /\ UNCHANGED <<mainVars, queueVars, localVars, poolVars, redisVars, mails, clock>>
-----------------------------------------------------------------------------
(* handleTask and the pool *)

\* Mutant: the connection is not taken off the stack.
Pop_Keep(c) == pool' = pool

\* pool_ is a stack; which connection is on top is left open.
Pop(c) == pool' = pool \ {c}

\* RedisPool::get.  An empty pool blocks the worker, whatever stop_ says.  A
\* connection with err set is replaced while the pool is locked; when that
\* fails, get throws, handleTask gives the task up and the connection is gone.
Get(w) ==
    /\ pc[w] = "get"
    /\ \/ /\ pool = {}
          /\ pc' = [pc EXCEPT ![w] = "poolwait"]
          /\ UNCHANGED <<task, conn, poolVars>>
       \/ \E c \in pool :
          /\ Pop(c)
          /\ \/ /\ broken' = broken \ {c}
                /\ pc' = [pc EXCEPT ![w] = "dedup"]
                /\ conn' = [conn EXCEPT ![w] = c]
                /\ UNCHANGED task
             \/ /\ RedisFails /\ c \in broken
                /\ pc' = [pc EXCEPT ![w] = "idle"]
                /\ task' = [task EXCEPT ![w] = None]
                /\ UNCHANGED <<conn, broken>>
    /\ UNCHANGED <<mainVars, queueVars, code, since, redisVars, mails, clock>>

\* What redisCommand returns for SET.  NULL means that the connection broke;
\* the command may have been executed.
Replies == {r \in {"OK", "NIL", "ERROR", "NULL"} :
               (r = "ERROR" => RedisRejects) /\ (r = "NULL" => RedisFails)}

\* err is set on the connection that returned NULL.
Broken(w, r) == IF r = "NULL" THEN broken \cup {conn[w]} ELSE broken

\* The key email_dedup:<email> is there until its time to live has passed.
Recent(e) == dedup[e] > clock

\* Mutant: every reply but "the key exists" lets the worker go on.
CanSend_NotNil(r) == r # "NIL"

CanSend(r) == r = "OK"

\* SET email_dedup:<email> 1 NX EX ttl.
Dedup(w) ==
    LET e == task[w]
        set == [dedup EXCEPT ![e] = clock + DedupTtl]
    IN /\ pc[w] = "dedup"
       /\ \E r \in Replies :
          /\ r = "OK" => ~Recent(e) /\ dedup' = set
          /\ r = "NIL" => Recent(e) /\ dedup' = dedup
          /\ r = "ERROR" => dedup' = dedup
          /\ r = "NULL" => dedup' = dedup \/ (~Recent(e) /\ dedup' = set)
          /\ broken' = Broken(w, r)
          /\ pc' = [pc EXCEPT ![w] = IF CanSend(r) THEN "store" ELSE "put"]
          /\ since' = IF CanSend(r) THEN [since EXCEPT ![w] = clock] ELSE since
       /\ UNCHANGED <<mainVars, queueVars, task, conn, code, pool, stored, rejected, mails, clock>>

\* Mutant: the reply is not looked at.
Accepted_Always(r) == TRUE

\* Any reply passes for success, an error reply too.
Accepted(r) == r # "NULL"

\* SET <email> code EX ttl.
Store(w) ==
    /\ pc[w] = "store"
    /\ \E r \in Replies \ {"NIL"}, k \in Codes :
        LET pair == <<task[w], k>>
        IN /\ r = "OK" => stored' = stored \cup {pair}
           /\ r = "ERROR" => stored' = stored
           /\ r = "NULL" => stored' \in {stored, stored \cup {pair}}
           /\ rejected' = IF r = "ERROR" THEN rejected \cup {pair} ELSE rejected
           /\ broken' = Broken(w, r)
           /\ code' = [code EXCEPT ![w] = IF Accepted(r) THEN k ELSE None]
    /\ pc' = [pc EXCEPT ![w] = "put"]
    /\ UNCHANGED <<mainVars, queueVars, task, conn, since, pool, dedup, mails, clock>>

\* Mutant: the error paths forget the connection.
PutBack_OnlySent(w) == pool' = IF code[w] = None THEN pool ELSE pool \cup {conn[w]}

PutBack(w) == pool' = pool \cup {conn[w]}

AfterPut(w) == IF code[w] = None THEN "idle" ELSE "send"

\* RedisPool::put, then sendEmail if there is a code to send.
Put(w) ==
    /\ pc[w] = "put"
    /\ PutBack(w)
    /\ conn' = [conn EXCEPT ![w] = None]
    /\ task' = IF code[w] = None THEN [task EXCEPT ![w] = None] ELSE task
    /\ NotifyOne([pc EXCEPT ![w] = AfterPut(w)], "poolwait", "get")
    /\ UNCHANGED <<mainVars, queueVars, code, since, broken, redisVars, mails, clock>>

\* sendEmail, with the outcomes of curl_easy_perform: the server accepts the
\* mail or not, and the result, which is only logged, may be wrong.
Send(w) ==
    /\ pc[w] = "send"
    /\ mails' \in {mails, mails \cup {[email |-> task[w], code |-> code[w]]}}
    /\ pc' = [pc EXCEPT ![w] = "idle"]
    /\ task' = [task EXCEPT ![w] = None]
    /\ code' = [code EXCEPT ![w] = None]
    /\ UNCHANGED <<mainVars, queueVars, conn, since, poolVars, redisVars, clock>>

Tick ==
    /\ clock < MaxClock
    /\ clock' = clock + 1
    /\ UNCHANGED <<mainVars, queueVars, pc, localVars, poolVars, redisVars, mails>>

-----------------------------------------------------------------------------
MainStep == NotifyTask \/ SetStop \/ NotifyAll \/ Join

WorkerStep(w) ==
    \/ Check(w) \/ Block(w) \/ Get(w) \/ Dedup(w)
    \/ Store(w) \/ Put(w) \/ Send(w)

Next ==
    \/ Signal \/ Tick \/ MainStep
    \/ \E e \in Emails : Enqueue(e)
    \/ \E w \in Workers : WorkerStep(w) \/ SpuriousWake(w)

Spec == Init /\ [][Next]_vars

\* Threads are scheduled and commands return.  Nothing is assumed of signals,
\* of arrivals, of time, and of spurious wake-ups.
FairSpec == Spec /\ WF_vars(MainStep) /\ \A w \in Workers : WF_vars(WorkerStep(w))

-----------------------------------------------------------------------------
(* Properties *)

TypeOK ==
    /\ running \in BOOLEAN /\ stop \in BOOLEAN
    /\ main \in {"poll", "notify", "stopping", "join", "exited"}
    /\ tasks \in Seq(Emails) /\ received \in 0..MaxTasks
    /\ pc \in [Workers -> Statements]
    /\ task \in [Workers -> Emails \cup {None}]
    /\ conn \in [Workers -> Conns \cup {None}]
    /\ code \in [Workers -> Codes \cup {None}]
    /\ since \in [Workers -> Nat]
    /\ pool \subseteq Conns /\ broken \subseteq Conns
    /\ dedup \in [Emails -> Nat]
    /\ stored \subseteq Emails \X Codes /\ rejected \subseteq Emails \X Codes
    /\ mails \subseteq [email : Emails, code : Codes]
    /\ clock \in 0..MaxClock

\* A redisContext is not safe for two threads: each connection is in the pool
\* or in the hands of one worker (RedisPool::get and put).
PoolExclusion ==
    \A w \in Workers : conn[w] # None =>
        /\ conn[w] \notin pool
        /\ \A v \in Workers : conn[v] = conn[w] => v = w

\* No path through handleTask forgets its connection: only one that broke and
\* could not be replaced is missing from the pool and from all workers.
NoConnectionLeaks ==
    \A c \in Conns : c \in pool \cup broken \/ \E w \in Workers : conn[w] = c

\* No notification of enqueue is lost: while a worker sleeps, or is about to
\* sleep, every queued task has a worker of its own on its way to the queue,
\* so that no task waits for a worker that is busy with Redis or SMTP.
Idle == {w \in Workers : pc[w] = "idle"}

Asleep(w) == pc[w] \in {"checked", "blocked"}

NoSleeperIsMissed ==
    (main = "poll" /\ \E w \in Workers : Asleep(w)) => Len(tasks) <= Cardinality(Idle)

\* The worker goes on to store a code or to mail it.
Serving(w) == pc[w] = "store" \/ code[w] # None

\* Redis lets two workers serve one address at the same time only when their
\* permissions are DedupTtl apart, whatever replies were lost.
DedupExclusion ==
    \A v, w \in Workers :
        (v # w /\ Serving(v) /\ Serving(w) /\ task[v] = task[w]) =>
            \/ since[v] + DedupTtl <= since[w]
            \/ since[w] + DedupTtl <= since[v]

\* A mail says that its code is valid for some minutes, and handleTask writes
\* the code first.  No lost reply lets a code be mailed that was not written;
\* only an error reply does, which handleTask takes for success.
MailedIsStoredOrRejected ==
    \A m \in mails : <<m.email, m.code>> \in stored \cup rejected

\* "Signal received, exiting...": the process ends after a signal.
SignalEnds == ~running ~> main = "exited"
=============================================================================
