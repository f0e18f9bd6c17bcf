------------------------- MODULE EmailService_proofs -------------------------
(***************************************************************************)
(* Proofs about EmailService, for any numbers of addresses, workers and    *)
(* connections, any time to live and any failures of Redis.                *)
(***************************************************************************)
EXTENDS EmailService, FiniteSetTheorems, TLAPS

-----------------------------------------------------------------------------
(* Type correctness.  What a worker holds follows from its statement.       *)

HandlesTask ==
    \A w \in Workers :
        task[w] # None <=>
            pc[w] \in {"get", "poolwait", "dedup", "store", "put", "send"}

HoldsConn ==
    \A w \in Workers : conn[w] # None <=> pc[w] \in {"dedup", "store", "put"}

HoldsCode ==
    \A w \in Workers :
        /\ code[w] # None => pc[w] \in {"put", "send"}
        /\ pc[w] = "send" => code[w] # None

TypeInv == TypeOK /\ HandlesTask /\ HoldsConn /\ HoldsCode

LEMMA TypeInit == Init => TypeInv
<1> SUFFICES ASSUME Init PROVE TypeInv
  OBVIOUS
<1> USE NoneAssumption, BoundAssumption DEF Init
<1>1. TypeOK
  <2>1. tasks \in Seq(Emails) /\ received \in 0..MaxTasks /\ clock \in 0..MaxClock
    OBVIOUS
  <2>2. /\ stored \subseteq Emails \X Codes /\ rejected \subseteq Emails \X Codes
        /\ mails \subseteq [email : Emails, code : Codes]
    OBVIOUS
  <2>3. QED
    BY <2>1, <2>2 DEF TypeOK, Statements
<1>2. HandlesTask /\ HoldsConn /\ HoldsCode
  BY DEF HandlesTask, HoldsConn, HoldsCode
<1>3. QED
  BY <1>1, <1>2 DEF TypeInv

LEMMA TypeNext == TypeInv /\ [Next]_vars => TypeInv'
<1> SUFFICES ASSUME TypeInv, [Next]_vars PROVE TypeInv'
  OBVIOUS
<1> USE NoneAssumption, TtlAssumption, BoundAssumption
        DEF TypeInv, TypeOK, HandlesTask, HoldsConn, HoldsCode, Statements,
            mainVars, queueVars, localVars, poolVars, redisVars
<1>1. CASE Signal
  BY <1>1 DEF Signal
<1>2. ASSUME NEW e \in Emails, Enqueue(e) PROVE TypeInv'
  BY <1>2 DEF Enqueue
<1>3. CASE NotifyTask
  BY ZenonT(60), <1>3 DEF NotifyTask, NotifyOne
<1>4. CASE SetStop
  BY <1>4 DEF SetStop
<1>5. CASE NotifyAll
  BY <1>5 DEF NotifyAll
<1>6. CASE Join
  <2>1. tasks' \in Seq(Emails)
    BY <1>6 DEF Join
  <2>2. QED
    BY <1>6, <2>1 DEF Join
<1>7. ASSUME NEW w \in Workers, Check(w) PROVE TypeInv'
  <2>1. CASE stop
    BY ZenonT(60), <1>7, <2>1 DEF Check
  <2>2. CASE ~stop /\ tasks = <<>>
    BY ZenonT(60), <1>7, <2>2 DEF Check
  <2>3. CASE ~stop /\ tasks # <<>>
    <3>1. Head(tasks) \in Emails /\ Tail(tasks) \in Seq(Emails)
      BY <2>3
    <3>2. /\ tasks' = Tail(tasks)
          /\ task' = [task EXCEPT ![w] = Head(tasks)]
          /\ pc' = [pc EXCEPT ![w] = "get"]
          /\ UNCHANGED <<mainVars, received, conn, code, since, poolVars, redisVars, mails, clock>>
      BY <1>7, <2>3 DEF Check
    <3>3. TypeOK'
      BY <3>1, <3>2
    <3>4. HandlesTask' /\ HoldsConn' /\ HoldsCode'
      BY <1>7, <3>1, <3>2 DEF Check
    <3>5. QED
      BY <3>3, <3>4
  <2>4. QED
    BY <2>1, <2>2, <2>3
<1>8. ASSUME NEW w \in Workers, Block(w) \/ SpuriousWake(w) PROVE TypeInv'
  <2>1. TypeOK'
    BY <1>8 DEF Block, SpuriousWake
  <2>2. HandlesTask'
    BY ZenonT(60), <1>8 DEF Block, SpuriousWake
  <2>3. HoldsConn' /\ HoldsCode'
    BY ZenonT(60), <1>8 DEF Block, SpuriousWake
  <2>4. QED
    BY <2>1, <2>2, <2>3
<1>9. ASSUME NEW w \in Workers, Get(w) PROVE TypeInv'
  <2>1. CASE pool = {}
    BY ZenonT(60), <1>9, <2>1 DEF Get
  <2>2. ASSUME NEW c \in pool, Pop(c),
               broken' = broken \ {c},
               pc' = [pc EXCEPT ![w] = "dedup"],
               conn' = [conn EXCEPT ![w] = c],
               UNCHANGED task
        PROVE  TypeInv'
    <3>1. TypeOK'
      BY <1>9, <2>2 DEF Get, Pop
    <3>2. HandlesTask' /\ HoldsCode'
      BY <1>9, <2>2 DEF Get
    <3>3. HoldsConn'
      BY <1>9, <2>2 DEF Get
    <3>4. QED
      BY <3>1, <3>2, <3>3
  <2>3. ASSUME NEW c \in pool, Pop(c),
               pc' = [pc EXCEPT ![w] = "idle"],
               task' = [task EXCEPT ![w] = None],
               UNCHANGED <<conn, broken>>
        PROVE  TypeInv'
    <3>1. TypeOK'
      BY <1>9, <2>3 DEF Get, Pop
    <3>2. HandlesTask' /\ HoldsConn' /\ HoldsCode'
      BY <1>9, <2>3 DEF Get
    <3>3. QED
      BY <3>1, <3>2
  <2>4. QED
    BY <1>9, <2>1, <2>2, <2>3 DEF Get
<1>10. ASSUME NEW w \in Workers, Dedup(w) PROVE TypeInv'
  <2>1. task[w] \in Emails /\ conn[w] \in Conns
    BY <1>10 DEF Dedup
  <2>2. dedup' \in [Emails -> Nat]
    <3>1. dedup' = dedup \/ dedup' = [dedup EXCEPT ![task[w]] = clock + DedupTtl]
      BY <1>10 DEF Dedup, Replies
    <3>2. clock + DedupTtl \in Nat
      OBVIOUS
    <3>3. QED
      BY <2>1, <3>1, <3>2
  <2>3. broken' \subseteq Conns
    BY <1>10, <2>1 DEF Dedup, Broken
  <2>4. QED
    BY <1>10, <2>2, <2>3 DEF Dedup, CanSend
<1>11. ASSUME NEW w \in Workers, Store(w) PROVE TypeInv'
  <2>1. task[w] \in Emails /\ conn[w] \in Conns
    BY <1>11 DEF Store
  <2>2. stored' \subseteq Emails \X Codes
    BY <1>11, <2>1 DEF Store, Replies
  <2>3. broken' \subseteq Conns
    BY <1>11, <2>1 DEF Store, Broken
  <2>4. rejected' \subseteq Emails \X Codes
    BY <1>11, <2>1 DEF Store
  <2>5. QED
    BY <1>11, <2>2, <2>3, <2>4 DEF Store, Accepted
<1>12. ASSUME NEW w \in Workers, Put(w) PROVE TypeInv'
  <2> DEFINE from == [pc EXCEPT ![w] = IF code[w] = None THEN "idle" ELSE "send"]
  <2>1. /\ from \in [Workers -> Statements]
        /\ \/ pc' = from
           \/ \E v \in Workers : from[v] = "poolwait" /\ pc' = [from EXCEPT ![v] = "get"]
    BY <1>12 DEF Put, NotifyOne, AfterPut
  <2>2. /\ pc' \in [Workers -> Statements]
        /\ \A v \in Workers :
              \/ pc'[v] = from[v]
              \/ from[v] = "poolwait" /\ pc'[v] = "get"
    BY ZenonT(60), <2>1
  <2>3. conn[w] \in Conns
    BY <1>12 DEF Put
  <2>4. TypeOK'
    BY <1>12, <2>2, <2>3 DEF Put, PutBack
  <2>5. HandlesTask'
    BY <1>12, <2>2 DEF Put
  <2>6. HoldsConn'
    BY <1>12, <2>2 DEF Put
  <2>7. HoldsCode'
    BY <1>12, <2>2 DEF Put
  <2>8. QED
    BY <2>4, <2>5, <2>6, <2>7
<1>13. ASSUME NEW w \in Workers, Send(w) PROVE TypeInv'
  BY <1>13 DEF Send
<1>14. CASE Tick
  BY <1>14 DEF Tick
<1>15. CASE UNCHANGED vars
  BY <1>15 DEF vars
<1>16. QED
  BY <1>1, <1>2, <1>3, <1>4, <1>5, <1>6, <1>7, <1>8, <1>9, <1>10, <1>11,
     <1>12, <1>13, <1>14, <1>15 DEF Next, MainStep, WorkerStep

\* Every variable of the threads, the pool and Redis keeps its type.
THEOREM TypeCorrect == Spec => []TypeOK
<1>1. TypeInv => TypeOK
  BY DEF TypeInv
<1>2. QED
  BY TypeInit, TypeNext, <1>1, PTL DEF Spec
-----------------------------------------------------------------------------
(* The pool.  Both invariants together with TypeInv are inductive: get takes *)
(* from the pool what no worker holds, put returns what one worker held.     *)

PoolInv == TypeInv /\ PoolExclusion /\ NoConnectionLeaks

LEMMA PoolInit == Init => PoolInv
  BY TypeInit DEF Init, PoolInv, PoolExclusion, NoConnectionLeaks

\* A step that moves no connection.
LEMMA PoolFrame ==
  ASSUME PoolInv, TypeInv', UNCHANGED <<conn, pool>>, broken \subseteq broken'
  PROVE  PoolInv'
  BY DEF PoolInv, PoolExclusion, NoConnectionLeaks

LEMMA PoolNext == PoolInv /\ [Next]_vars => PoolInv'
<1> SUFFICES ASSUME PoolInv, [Next]_vars PROVE PoolInv'
  OBVIOUS
<1>1. TypeInv /\ TypeInv'
  BY TypeNext DEF PoolInv
<1> USE DEF mainVars, queueVars, localVars, poolVars, redisVars
<1>2. CASE Signal \/ Tick \/ MainStep
  <2>1. UNCHANGED <<conn, pool, broken>>
    BY <1>2 DEF Signal, Tick, MainStep, NotifyTask, SetStop, NotifyAll, Join
  <2>2. QED
    BY <1>1, <2>1, PoolFrame
<1>3. ASSUME NEW e \in Emails, Enqueue(e) PROVE PoolInv'
  BY <1>1, <1>3, PoolFrame DEF Enqueue
<1>4. ASSUME NEW w \in Workers,
             Check(w) \/ Block(w) \/ SpuriousWake(w) \/ Send(w)
      PROVE  PoolInv'
  <2>1. UNCHANGED <<conn, pool, broken>>
    BY <1>4 DEF Check, Block, SpuriousWake, Send
  <2>2. QED
    BY <1>1, <2>1, PoolFrame
<1>5. ASSUME NEW w \in Workers, Dedup(w) \/ Store(w) PROVE PoolInv'
  <2>1. UNCHANGED <<conn, pool>> /\ broken \subseteq broken'
    BY <1>5 DEF Dedup, Store, Broken
  <2>2. QED
    BY <1>1, <2>1, PoolFrame
<1>6. ASSUME NEW w \in Workers, Get(w) PROVE PoolInv'
  <2>1. CASE pool = {}
    <3>1. UNCHANGED <<conn, pool, broken>>
      BY <1>6, <2>1 DEF Get
    <3>2. QED
      BY <1>1, <3>1, PoolFrame
  <2>2. ASSUME NEW c \in pool, Pop(c), broken' = broken \ {c},
               conn' = [conn EXCEPT ![w] = c]
        PROVE  PoolInv'
    <3>1. c \in Conns /\ c # None /\ conn[w] = None
      <4>1. c \in Conns /\ c # None
        BY <1>1, <2>2, NoneAssumption DEF TypeInv, TypeOK
      <4>2. pc[w] = "get"
        BY <1>6 DEF Get
      <4>3. conn[w] = None
        BY <1>1, <4>2 DEF TypeInv, HoldsConn
      <4>4. QED
        BY <4>1, <4>3
    <3>2. conn'[w] = c /\ \A v \in Workers \ {w} : conn'[v] = conn[v]
      BY <1>1, <2>2 DEF TypeInv, TypeOK
    <3>3. PoolExclusion'
      BY <2>2, <3>1, <3>2 DEF PoolInv, PoolExclusion, Pop
    <3>4. NoConnectionLeaks'
      <4> SUFFICES ASSUME NEW d \in Conns, d \notin pool' \cup broken'
                   PROVE  \E v \in Workers : conn'[v] = d
        BY DEF NoConnectionLeaks
      <4>1. CASE d = c
        BY <3>2, <4>1
      <4>2. CASE d # c
        <5>1. PICK v \in Workers : conn[v] = d
          BY <2>2, <4>2 DEF PoolInv, NoConnectionLeaks, Pop
        <5>2. v # w
          BY <3>1, <5>1, NoneAssumption
        <5>3. QED
          BY <3>2, <5>1, <5>2
      <4>3. QED
        BY <4>1, <4>2
    <3>5. QED
      BY <1>1, <3>3, <3>4 DEF PoolInv
  <2>3. ASSUME NEW c \in pool, Pop(c), c \in broken, UNCHANGED <<conn, broken>>
        PROVE  PoolInv'
    BY <1>1, <2>3 DEF PoolInv, PoolExclusion, NoConnectionLeaks, Pop
  <2>4. QED
    BY <1>6, <2>1, <2>2, <2>3 DEF Get
<1>7. ASSUME NEW w \in Workers, Put(w) PROVE PoolInv'
  <2>1. conn[w] \in Conns /\ conn[w] # None
    BY <1>1, <1>7 DEF Put, TypeInv, TypeOK, HoldsConn
  <2>2. /\ pool' = pool \cup {conn[w]}
        /\ conn'[w] = None
        /\ \A v \in Workers \ {w} : conn'[v] = conn[v]
        /\ broken' = broken
    BY <1>1, <1>7 DEF Put, PutBack, TypeInv, TypeOK
  <2>3. PoolExclusion'
    BY <2>1, <2>2 DEF PoolInv, PoolExclusion
  <2>4. NoConnectionLeaks'
    BY <2>1, <2>2 DEF PoolInv, NoConnectionLeaks
  <2>5. QED
    BY <1>1, <2>3, <2>4 DEF PoolInv
<1>8. CASE UNCHANGED vars
  BY <1>1, <1>8, PoolFrame DEF vars
<1>9. QED
  BY <1>2, <1>3, <1>4, <1>5, <1>6, <1>7, <1>8 DEF Next, WorkerStep

\* No two workers ever use one connection.
THEOREM PoolCorrect == Spec => []PoolExclusion
<1>1. PoolInv => PoolExclusion
  BY DEF PoolInv
<1>2. QED
  BY PoolInit, PoolNext, <1>1, PTL DEF Spec

\* A connection that works is never lost, on whichever path handleTask ends.
THEOREM PoolComplete == Spec => []NoConnectionLeaks
<1>1. PoolInv => NoConnectionLeaks
  BY DEF PoolInv
<1>2. QED
  BY PoolInit, PoolNext, <1>1, PTL DEF Spec

-----------------------------------------------------------------------------
(* Wake-ups.  The queue is empty while a worker holds mtx_ after having     *)
(* found it so, because enqueue needs mtx_; and between the push and the     *)
(* notification one task more than idle workers may be queued.               *)

CheckedIsEmpty == \A w \in Workers : pc[w] = "checked" => tasks = <<>>

StopIsLate == main \in {"poll", "notify"} => ~stop

Notifying == IF main = "notify" THEN 1 ELSE 0

EnoughIdle ==
    (main \in {"poll", "notify"} /\ \E w \in Workers : Asleep(w))
        => Len(tasks) <= Cardinality(Idle) + Notifying

WakeInv == TypeInv /\ CheckedIsEmpty /\ StopIsLate /\ EnoughIdle

LEMMA IdleIsFinite ==
  /\ IsFiniteSet(Idle) /\ Cardinality(Idle) \in Nat
  /\ IsFiniteSet(Idle)' /\ Cardinality(Idle)' \in Nat
<1>1. IsFiniteSet(Idle) /\ IsFiniteSet(Idle)'
  BY ThreadAssumption, FS_Subset DEF Idle
<1>2. QED
  BY <1>1, FS_CardinalityType

LEMMA WakeInit == Init => WakeInv
  BY TypeInit DEF Init, WakeInv, CheckedIsEmpty, StopIsLate, EnoughIdle, Asleep

\* A step that puts no worker to sleep and keeps the idle workers idle.
LEMMA WakeFrame ==
  ASSUME WakeInv, TypeInv', UNCHANGED <<main, stop, tasks>>,
         \A w \in Workers : pc'[w] = pc[w] \/ pc'[w] \notin {"checked", "blocked"},
         \A w \in Workers : pc[w] = "idle" => pc'[w] = "idle"
  PROVE  WakeInv'
<1>1. Idle \subseteq Idle'
  BY DEF Idle
<1>2. Cardinality(Idle) <= Cardinality(Idle)'
  BY <1>1, IdleIsFinite, FS_Subset
<1>3. (\E w \in Workers : Asleep(w))' => \E w \in Workers : Asleep(w)
  BY DEF Asleep
<1>4. Len(tasks) \in Nat
  BY DEF WakeInv, TypeInv, TypeOK
<1>5. EnoughIdle'
  BY <1>2, <1>3, <1>4, IdleIsFinite DEF WakeInv, EnoughIdle, Notifying
<1>6. CheckedIsEmpty' /\ StopIsLate'
  BY DEF WakeInv, CheckedIsEmpty, StopIsLate
<1>7. QED
  BY <1>5, <1>6 DEF WakeInv

LEMMA WakeNext == WakeInv /\ [Next]_vars => WakeInv'
<1> SUFFICES ASSUME WakeInv, [Next]_vars PROVE WakeInv'
  OBVIOUS
<1>1. TypeInv /\ TypeInv'
  BY TypeNext DEF WakeInv
<1>2. pc \in [Workers -> Statements] /\ tasks \in Seq(Emails) /\ Len(tasks) \in Nat
  BY <1>1 DEF TypeInv, TypeOK
<1> USE DEF mainVars, queueVars, localVars, poolVars, redisVars
<1>3. CASE Signal \/ Tick
  BY <1>1, <1>3, WakeFrame DEF Signal, Tick
<1>4. ASSUME NEW e \in Emails, Enqueue(e) PROVE WakeInv'
  <2>1. /\ Len(tasks') = Len(tasks) + 1 /\ main = "poll" /\ main' = "notify"
        /\ UNCHANGED <<pc, stop>> /\ \A w \in Workers : pc[w] # "checked"
    BY <1>2, <1>4 DEF Enqueue, Unlocked
  <2>2. Cardinality(Idle)' = Cardinality(Idle)
    BY <2>1 DEF Idle
  <2>3. EnoughIdle'
    BY <1>2, <2>1, <2>2, IdleIsFinite DEF WakeInv, EnoughIdle, Notifying, Asleep
  <2>4. QED
    BY <1>1, <2>1, <2>3 DEF WakeInv, CheckedIsEmpty, StopIsLate
<1>5. CASE NotifyTask
  <2>1. tasks' = tasks /\ main = "notify" /\ main' = "poll" /\ stop' = stop
    BY <1>5 DEF NotifyTask
  <2>2. CASE \A w \in Workers : pc[w] # "blocked"
    <3>1. pc' = pc
      BY <1>5, <2>2 DEF NotifyTask, NotifyOne
    <3>2. (\E w \in Workers : Asleep(w)) => Len(tasks) = 0
      BY <2>2 DEF WakeInv, CheckedIsEmpty, Asleep
    <3>3. EnoughIdle'
      BY <2>1, <3>1, <3>2, IdleIsFinite DEF EnoughIdle, Notifying, Asleep
    <3>4. QED
      BY <1>1, <2>1, <3>1, <3>3 DEF WakeInv, CheckedIsEmpty, StopIsLate
  <2>3. CASE \E w \in Workers : pc[w] = "blocked"
    <3>1. PICK w \in Workers : pc[w] = "blocked" /\ pc' = [pc EXCEPT ![w] = "idle"]
      BY <1>5, <2>3 DEF NotifyTask, NotifyOne
    <3>2. pc'[w] = "idle" /\ \A v \in Workers \ {w} : pc'[v] = pc[v]
      BY <1>2, <3>1
    <3>3. w \notin Idle /\ Idle' = Idle \cup {w}
      BY <3>1, <3>2 DEF Idle
    <3>4. Cardinality(Idle)' = Cardinality(Idle) + 1
      BY <3>3, IdleIsFinite, FS_AddElement
    <3>5. Len(tasks) <= Cardinality(Idle) + 1
      BY <2>1, <3>1 DEF WakeInv, EnoughIdle, Notifying, Asleep
    <3>6. EnoughIdle'
      BY <1>2, <2>1, <3>4, <3>5, IdleIsFinite DEF EnoughIdle, Notifying
    <3>7. CheckedIsEmpty' /\ StopIsLate'
      BY <2>1, <3>2 DEF WakeInv, CheckedIsEmpty, StopIsLate
    <3>8. QED
      BY <1>1, <3>6, <3>7 DEF WakeInv
  <2>4. QED
    BY <2>2, <2>3
<1>6. CASE SetStop \/ NotifyAll \/ Join
  BY <1>1, <1>2, <1>6
  DEF SetStop, NotifyAll, Join, WakeInv, CheckedIsEmpty, StopIsLate, EnoughIdle
<1>7. ASSUME NEW w \in Workers, Check(w) PROVE WakeInv'
  <2>1. pc[w] = "idle" /\ \A v \in Workers : pc[v] # "checked"
    BY <1>7 DEF Check, Unlocked
  <2>2. \A v \in Workers \ {w} : pc'[v] = pc[v]
    BY <1>2, <1>7 DEF Check
  <2>3. main' = main /\ stop' = stop
    BY <1>7 DEF Check
  <2>4. CASE stop
    <3>1. main \notin {"poll", "notify"} /\ pc'[w] = "done"
      BY <1>2, <1>7, <2>4 DEF Check, WakeInv, StopIsLate
    <3>2. QED
      BY <1>1, <2>1, <2>2, <2>3, <3>1
      DEF WakeInv, CheckedIsEmpty, StopIsLate, EnoughIdle
  <2>5. CASE ~stop /\ tasks # <<>>
    <3>1. pc'[w] = "get" /\ tasks' = Tail(tasks)
      BY <1>2, <1>7, <2>5 DEF Check
    <3>2. Len(tasks') = Len(tasks) - 1
      BY <1>2, <2>5, <3>1
    <3>3. w \in Idle /\ Idle' = Idle \ {w}
      BY <2>1, <2>2, <3>1 DEF Idle
    <3>4. Cardinality(Idle)' = Cardinality(Idle) - 1
      BY <3>3, IdleIsFinite, FS_RemoveElement
    <3>5. (\E v \in Workers : Asleep(v))' => \E v \in Workers : Asleep(v)
      BY <2>2, <3>1 DEF Asleep
    <3>6. EnoughIdle'
      BY <1>2, <2>3, <3>2, <3>4, <3>5, IdleIsFinite DEF WakeInv, EnoughIdle, Notifying
    <3>7. CheckedIsEmpty' /\ StopIsLate'
      BY <2>1, <2>2, <2>3, <3>1 DEF WakeInv, CheckedIsEmpty, StopIsLate
    <3>8. QED
      BY <1>1, <3>6, <3>7 DEF WakeInv
  <2>6. CASE ~stop /\ tasks = <<>>
    <3>1. tasks' = <<>>
      BY <1>7, <2>6 DEF Check
    <3>2. EnoughIdle'
      BY <3>1, IdleIsFinite DEF EnoughIdle, Notifying
    <3>3. QED
      BY <1>1, <2>3, <3>1, <3>2 DEF WakeInv, CheckedIsEmpty, StopIsLate
  <2>7. QED
    BY <2>4, <2>5, <2>6
<1>8. ASSUME NEW w \in Workers, Block(w) PROVE WakeInv'
  <2>1. tasks' = <<>> /\ main' = main /\ stop' = stop
    BY <1>8 DEF Block, WakeInv, CheckedIsEmpty
  <2>2. EnoughIdle'
    BY <2>1, IdleIsFinite DEF EnoughIdle, Notifying
  <2>3. QED
    BY <1>1, <2>1, <2>2 DEF WakeInv, CheckedIsEmpty, StopIsLate
<1>9. ASSUME NEW w \in Workers,
             SpuriousWake(w) \/ Get(w) \/ Dedup(w) \/ Store(w) \/ Send(w)
      PROVE  WakeInv'
  <2>1. UNCHANGED <<main, stop, tasks>>
    BY <1>9 DEF SpuriousWake, Get, Dedup, Store, Send
  <2>2. /\ pc[w] # "idle" /\ pc'[w] \notin {"checked", "blocked"}
        /\ \A v \in Workers \ {w} : pc'[v] = pc[v]
    BY <1>2, <1>9 DEF SpuriousWake, Get, Dedup, Store, Send
  <2>3. QED
    BY <1>1, <2>1, <2>2, WakeFrame
<1>10. ASSUME NEW w \in Workers, Put(w) PROVE WakeInv'
  <2> DEFINE from == [pc EXCEPT ![w] = IF code[w] = None THEN "idle" ELSE "send"]
  <2>1. /\ pc[w] = "put"
        /\ \/ pc' = from
           \/ \E v \in Workers : from[v] = "poolwait" /\ pc' = [from EXCEPT ![v] = "get"]
    BY <1>10 DEF Put, NotifyOne, AfterPut
  <2>2. /\ \A v \in Workers : pc'[v] = pc[v] \/ pc'[v] \notin {"checked", "blocked"}
        /\ \A v \in Workers : pc[v] = "idle" => pc'[v] = "idle"
    BY <1>2, <2>1
  <2>3. UNCHANGED <<main, stop, tasks>>
    BY <1>10 DEF Put
  <2>4. QED
    BY <1>1, <2>2, <2>3, WakeFrame
<1>11. CASE UNCHANGED vars
  BY <1>1, <1>11, WakeFrame DEF vars
<1>12. QED
  BY <1>3, <1>4, <1>5, <1>6, <1>7, <1>8, <1>9, <1>10, <1>11
  DEF Next, MainStep, WorkerStep

\* No notification of enqueue is lost, whatever the number of threads.
THEOREM WakeCorrect == Spec => []NoSleeperIsMissed
<1>1. WakeInv => NoSleeperIsMissed
  BY IdleIsFinite DEF WakeInv, EnoughIdle, NoSleeperIsMissed, Notifying
<1>2. QED
  BY WakeInit, WakeNext, <1>1, PTL DEF Spec

-----------------------------------------------------------------------------
(* The dedup key.  It outlives the time to live of every permission that is  *)
(* still in use, so that a new permission comes at least that much later.    *)

Permitted ==
    \A w \in Workers : Serving(w) =>
        /\ since[w] <= clock
        /\ since[w] + DedupTtl <= dedup[task[w]]

DedupInv == TypeInv /\ Permitted /\ DedupExclusion

LEMMA DedupInit == Init => DedupInv
  BY TypeInit DEF Init, DedupInv, Permitted, DedupExclusion, Serving

LEMMA ServingHasTask ==
  ASSUME TypeInv, NEW w \in Workers, Serving(w)
  PROVE  task[w] \in Emails
  BY DEF TypeInv, TypeOK, HandlesTask, HoldsCode, Serving

\* A step that gives no permission: dedup keys are written, if at all, over
\* keys that have expired.
LEMMA DedupFrame ==
  ASSUME DedupInv, TypeInv', UNCHANGED since, clock <= clock',
         \A e \in Emails : dedup'[e] >= dedup[e],
         \A w \in Workers : Serving(w)' => Serving(w) /\ task'[w] = task[w]
  PROVE  DedupInv'
<1>1. \A w \in Workers : Serving(w)' => task[w] \in Emails
  BY ServingHasTask DEF DedupInv
<1>2. Permitted'
  <2> SUFFICES ASSUME NEW w \in Workers, Serving(w)'
               PROVE  since'[w] <= clock' /\ since'[w] + DedupTtl <= dedup'[task'[w]]
    BY DEF Permitted
  <2>1. since[w] <= clock /\ since[w] + DedupTtl <= dedup[task[w]]
    BY DEF DedupInv, Permitted
  <2>2. dedup'[task[w]] >= dedup[task[w]]
    BY <1>1
  <2>3. /\ since[w] \in Nat /\ clock \in Nat /\ clock' \in Nat
        /\ dedup[task[w]] \in Nat /\ dedup'[task[w]] \in Nat
    BY <1>1, BoundAssumption DEF DedupInv, TypeInv, TypeOK
  <2>4. QED
    BY <2>1, <2>2, <2>3, TtlAssumption
<1>3. DedupExclusion'
  BY DEF DedupInv, DedupExclusion
<1>4. QED
  BY <1>2, <1>3 DEF DedupInv

\* SET NX writes over an expired key only.
LEMMA KeyGrows ==
  ASSUME TypeInv, NEW w \in Workers, Dedup(w)
  PROVE  /\ \A e \in Emails : dedup'[e] >= dedup[e]
         /\ task[w] \in Emails
<1> USE TtlAssumption, BoundAssumption DEF TypeInv, TypeOK
<1>1. task[w] \in Emails
  BY DEF Dedup, HandlesTask
<1>2. \/ dedup' = dedup
      \/ ~Recent(task[w]) /\ dedup' = [dedup EXCEPT ![task[w]] = clock + DedupTtl]
  BY DEF Dedup, Replies
<1>3. dedup \in [Emails -> Nat] /\ clock \in Nat /\ DedupTtl \in Nat
  OBVIOUS
<1>4. CASE dedup' = dedup
  BY <1>1, <1>3, <1>4
<1>5. CASE ~Recent(task[w]) /\ dedup' = [dedup EXCEPT ![task[w]] = clock + DedupTtl]
  BY <1>1, <1>3, <1>5 DEF Recent
<1>6. QED
  BY <1>1, <1>2, <1>4, <1>5

LEMMA DedupNext == DedupInv /\ [Next]_vars => DedupInv'
<1> SUFFICES ASSUME DedupInv, [Next]_vars PROVE DedupInv'
  OBVIOUS
<1>1. TypeInv /\ TypeInv'
  BY TypeNext DEF DedupInv
<1>2. /\ pc \in [Workers -> Statements] /\ task \in [Workers -> Emails \cup {None}]
      /\ code \in [Workers -> Codes \cup {None}] /\ since \in [Workers -> Nat]
      /\ dedup \in [Emails -> Nat] /\ clock \in Nat
  BY <1>1, BoundAssumption DEF TypeInv, TypeOK
<1>3. \A e \in Emails : dedup[e] >= dedup[e]
  BY <1>2
<1>4. clock <= clock
  BY <1>2
<1> USE DEF mainVars, queueVars, localVars, poolVars, redisVars
<1>5. CASE Signal \/ SetStop \/ Join \/ (\E e \in Emails : Enqueue(e))
  <2>1. UNCHANGED <<pc, task, code, since, dedup, clock>>
    BY <1>5 DEF Signal, SetStop, Join, Enqueue
  <2>2. QED
    BY <1>1, <1>3, <1>4, <2>1, DedupFrame DEF Serving
<1>6. CASE Tick
  <2>1. UNCHANGED <<pc, task, code, since, dedup>> /\ clock' = clock + 1
    BY <1>6 DEF Tick
  <2>2. clock <= clock'
    BY <1>2, <2>1
  <2>3. QED
    BY <1>1, <1>3, <2>1, <2>2, DedupFrame DEF Serving
<1>7. CASE NotifyTask \/ NotifyAll
  <2>1. UNCHANGED <<task, code, since, dedup, clock>>
    BY <1>7 DEF NotifyTask, NotifyAll
  <2>2. \A w \in Workers : pc'[w] = pc[w] \/ pc'[w] = "idle"
    BY <1>2, <1>7 DEF NotifyTask, NotifyOne, NotifyAll
  <2>3. QED
    BY <1>1, <1>3, <1>4, <2>1, <2>2, DedupFrame DEF Serving
<1>8. ASSUME NEW w \in Workers, Check(w) \/ Get(w) PROVE DedupInv'
  <2>1. UNCHANGED <<code, since, dedup, clock>>
    BY <1>8 DEF Check, Get
  <2>2. ~Serving(w) /\ pc'[w] # "store"
    BY <1>1, <1>2, <1>8 DEF Check, Get, Serving, TypeInv, HoldsCode
  <2>3. \A v \in Workers \ {w} : pc'[v] = pc[v] /\ task'[v] = task[v]
    BY <1>2, <1>8 DEF Check, Get
  <2>4. \A v \in Workers : Serving(v)' => Serving(v) /\ task'[v] = task[v]
    BY <2>1, <2>2, <2>3 DEF Serving
  <2>5. QED
    BY <1>1, <1>3, <1>4, <2>1, <2>4, DedupFrame
<1>9. ASSUME NEW w \in Workers, Block(w) \/ SpuriousWake(w) PROVE DedupInv'
  <2>1. UNCHANGED <<task, code, since, dedup, clock>>
    BY <1>9 DEF Block, SpuriousWake
  <2>2. \A v \in Workers : pc'[v] = pc[v] \/ pc'[v] \in {"blocked", "idle", "get"}
    BY <1>2, <1>9 DEF Block, SpuriousWake
  <2>3. QED
    BY <1>1, <1>3, <1>4, <2>1, <2>2, DedupFrame DEF Serving
<1>10. ASSUME NEW w \in Workers, Dedup(w), pc'[w] = "store" PROVE DedupInv'
  <2> DEFINE e == task[w]
  <2>1. e \in Emails /\ \A d \in Emails : dedup'[d] >= dedup[d]
    BY <1>1, <1>10, KeyGrows
  <2>2. /\ dedup[e] <= clock
        /\ dedup'[e] = clock + DedupTtl
        /\ since' = [since EXCEPT ![w] = clock]
        /\ UNCHANGED <<task, code, clock>>
        /\ pc' = [pc EXCEPT ![w] = "store"]
    <3>1. PICK r \in Replies :
            /\ r = "OK" => ~Recent(e) /\ dedup' = [dedup EXCEPT ![e] = clock + DedupTtl]
            /\ pc' = [pc EXCEPT ![w] = IF CanSend(r) THEN "store" ELSE "put"]
            /\ since' = IF CanSend(r) THEN [since EXCEPT ![w] = clock] ELSE since
      BY <1>10 DEF Dedup
    <3>2. CanSend(r) /\ r = "OK"
      BY <1>2, <1>10, <3>1 DEF CanSend
    <3>3. UNCHANGED <<task, code, clock>>
      BY <1>10 DEF Dedup
    <3>4. dedup[e] <= clock
      BY <1>2, <2>1, <3>1, <3>2 DEF Recent
    <3>5. QED
      BY <1>2, <2>1, <3>1, <3>2, <3>3, <3>4
  <2>3. \A v \in Workers \ {w} :
          pc'[v] = pc[v] /\ since'[v] = since[v] /\ (Serving(v)' <=> Serving(v))
    BY <1>2, <2>2 DEF Serving
  <2>4. since'[w] = clock
    BY <1>2, <2>2
  <2>5. \A v \in Workers \ {w} : Serving(v) =>
          /\ since[v] <= clock /\ since[v] + DedupTtl <= dedup[task[v]]
          /\ task[v] \in Emails
    BY <1>1, ServingHasTask DEF DedupInv, Permitted
  <2>6. Permitted'
    <3> SUFFICES ASSUME NEW v \in Workers, Serving(v)'
                 PROVE  since'[v] <= clock' /\ since'[v] + DedupTtl <= dedup'[task'[v]]
      BY DEF Permitted
    <3>1. CASE v = w
      BY <1>2, <2>1, <2>2, <2>4, <3>1, TtlAssumption
    <3>2. CASE v # w
      <4>1. /\ since[v] <= clock /\ since[v] + DedupTtl <= dedup[task[v]]
            /\ task[v] \in Emails /\ since'[v] = since[v]
        BY <2>3, <2>5, <3>2
      <4>2. dedup'[task[v]] >= dedup[task[v]]
        BY <2>1, <4>1
      <4>3. dedup'[task[v]] \in Nat
        BY <1>1, <4>1 DEF TypeInv, TypeOK
      <4>4. QED
        BY <1>2, <2>2, <4>1, <4>2, <4>3, TtlAssumption
    <3>3. QED
      BY <3>1, <3>2
  <2>7. DedupExclusion'
    <3>1. \A v \in Workers \ {w} :
            (Serving(v) /\ task[v] = e) => since[v] + DedupTtl <= clock
      BY <1>2, <2>2, <2>5, TtlAssumption
    <3>2. QED
      BY <2>2, <2>3, <2>4, <3>1 DEF DedupInv, DedupExclusion
  <2>8. QED
    BY <1>1, <2>6, <2>7 DEF DedupInv
<1>11. ASSUME NEW w \in Workers, Dedup(w), pc'[w] # "store" PROVE DedupInv'
  <2>1. /\ UNCHANGED <<task, code, since, clock>>
        /\ \A v \in Workers \ {w} : pc'[v] = pc[v]
    BY <1>2, <1>11 DEF Dedup
  <2>2. \A v \in Workers : Serving(v)' => Serving(v) /\ task'[v] = task[v]
    BY <1>11, <2>1 DEF Serving
  <2>3. \A e \in Emails : dedup'[e] >= dedup[e]
    BY <1>1, <1>11, KeyGrows
  <2>4. QED
    BY <1>1, <1>4, <2>1, <2>2, <2>3, DedupFrame
<1>12. ASSUME NEW w \in Workers, Store(w) PROVE DedupInv'
  <2>1. /\ UNCHANGED <<task, since, dedup, clock>>
        /\ pc[w] = "store" /\ pc'[w] # "store"
        /\ \A v \in Workers \ {w} : pc'[v] = pc[v] /\ code'[v] = code[v]
    BY <1>2, <1>12 DEF Store
  <2>2. \A v \in Workers : Serving(v)' => Serving(v) /\ task'[v] = task[v]
    BY <2>1 DEF Serving
  <2>3. QED
    BY <1>1, <1>3, <1>4, <2>1, <2>2, DedupFrame
<1>13. ASSUME NEW w \in Workers, Put(w) PROVE DedupInv'
  <2> DEFINE from == [pc EXCEPT ![w] = IF code[w] = None THEN "idle" ELSE "send"]
  <2>1. /\ UNCHANGED <<code, since, dedup, clock>>
        /\ task' = IF code[w] = None THEN [task EXCEPT ![w] = None] ELSE task
        /\ pc[w] = "put"
        /\ \/ pc' = from
           \/ \E v \in Workers : pc' = [from EXCEPT ![v] = "get"]
    BY <1>13 DEF Put, NotifyOne, AfterPut
  <2>2. \A v \in Workers : pc'[v] = "store" => pc[v] = "store" /\ v # w
    BY <1>2, <2>1
  <2>3. \A v \in Workers : Serving(v)' => Serving(v) /\ task'[v] = task[v]
    BY <1>2, <2>1, <2>2 DEF Serving
  <2>4. QED
    BY <1>1, <1>3, <1>4, <2>1, <2>3, DedupFrame
<1>14. ASSUME NEW w \in Workers, Send(w) PROVE DedupInv'
  <2>1. /\ UNCHANGED <<since, dedup, clock>>
        /\ pc'[w] = "idle" /\ code'[w] = None
        /\ \A v \in Workers \ {w} :
              pc'[v] = pc[v] /\ code'[v] = code[v] /\ task'[v] = task[v]
    BY <1>2, <1>14 DEF Send
  <2>2. \A v \in Workers : Serving(v)' => Serving(v) /\ task'[v] = task[v]
    BY <2>1 DEF Serving
  <2>3. QED
    BY <1>1, <1>3, <1>4, <2>1, <2>2, DedupFrame
<1>15. CASE UNCHANGED vars
  BY <1>1, <1>3, <1>4, <1>15, DedupFrame DEF vars, Serving
<1>16. QED
  BY <1>5, <1>6, <1>7, <1>8, <1>9, <1>10, <1>11, <1>12, <1>13, <1>14, <1>15
  DEF Next, MainStep, WorkerStep

\* Two workers serve one address together only with permissions DedupTtl apart.
THEOREM DedupCorrect == Spec => []DedupExclusion
<1>1. DedupInv => DedupExclusion
  BY DEF DedupInv
<1>2. QED
  BY DedupInit, DedupNext, <1>1, PTL DEF Spec

-----------------------------------------------------------------------------
(* Mailed codes.  A worker has a code to mail only if Redis has answered the *)
(* command that was to store it.                                             *)

Known == stored \cup rejected

CodeIsKnown ==
    \A w \in Workers : code[w] # None => <<task[w], code[w]>> \in Known

MailInv == TypeInv /\ CodeIsKnown /\ MailedIsStoredOrRejected

LEMMA MailInit == Init => MailInv
  BY TypeInit DEF Init, MailInv, CodeIsKnown, MailedIsStoredOrRejected

LEMMA MailFrame ==
  ASSUME MailInv, TypeInv', UNCHANGED mails, Known \subseteq Known',
         \A w \in Workers :
            code'[w] # None => code'[w] = code[w] /\ task'[w] = task[w]
  PROVE  MailInv'
  BY DEF MailInv, CodeIsKnown, MailedIsStoredOrRejected, Known

LEMMA MailNext == MailInv /\ [Next]_vars => MailInv'
<1> SUFFICES ASSUME MailInv, [Next]_vars PROVE MailInv'
  OBVIOUS
<1>1. TypeInv /\ TypeInv'
  BY TypeNext DEF MailInv
<1>2. /\ task \in [Workers -> Emails \cup {None}]
      /\ code \in [Workers -> Codes \cup {None}]
  BY <1>1 DEF TypeInv, TypeOK
<1> USE DEF mainVars, queueVars, localVars, poolVars, redisVars
<1>3. CASE Signal \/ Tick \/ MainStep \/ (\E e \in Emails : Enqueue(e))
  <2>1. UNCHANGED <<task, code, stored, rejected, mails>>
    BY <1>3 DEF Signal, Tick, MainStep, NotifyTask, SetStop, NotifyAll, Join, Enqueue
  <2>2. QED
    BY <1>1, <2>1, MailFrame DEF Known
<1>4. ASSUME NEW w \in Workers, Block(w) \/ SpuriousWake(w) \/ Dedup(w)
      PROVE  MailInv'
  <2>1. UNCHANGED <<task, code, stored, rejected, mails>>
    BY <1>4 DEF Block, SpuriousWake, Dedup
  <2>2. QED
    BY <1>1, <2>1, MailFrame DEF Known
<1>5. ASSUME NEW w \in Workers, Check(w) \/ Get(w) PROVE MailInv'
  <2>1. /\ UNCHANGED <<code, stored, rejected, mails>> /\ code[w] = None
        /\ \A v \in Workers \ {w} : task'[v] = task[v]
    BY <1>1, <1>2, <1>5 DEF Check, Get, TypeInv, HoldsCode
  <2>2. QED
    BY <1>1, <2>1, MailFrame DEF Known
<1>6. ASSUME NEW w \in Workers, Store(w) PROVE MailInv'
  <2>1. PICK r \in Replies \ {"NIL"}, k \in Codes :
          LET pair == <<task[w], k>>
          IN /\ r = "OK" => stored' = stored \cup {pair}
             /\ r = "ERROR" => stored' = stored
             /\ r = "NULL" => stored' \in {stored, stored \cup {pair}}
             /\ rejected' = IF r = "ERROR" THEN rejected \cup {pair} ELSE rejected
             /\ code' = [code EXCEPT ![w] = IF Accepted(r) THEN k ELSE None]
    BY <1>6 DEF Store
  <2>2. r \in {"OK", "ERROR", "NULL"} /\ UNCHANGED <<task, mails>>
    BY <1>6, <2>1 DEF Replies, Store
  <2>3. stored \subseteq stored' /\ rejected \subseteq rejected'
    BY <2>1, <2>2
  <2>4. r # "NULL" => <<task[w], k>> \in stored' \cup rejected'
    BY <2>1, <2>2
  <2>5. /\ \A v \in Workers \ {w} : code'[v] = code[v]
        /\ code'[w] # None => code'[w] = k /\ r # "NULL"
    BY <1>2, <2>1 DEF Accepted
  <2>6. CodeIsKnown'
    BY <2>2, <2>3, <2>4, <2>5 DEF MailInv, CodeIsKnown, Known
  <2>7. MailedIsStoredOrRejected'
    BY <2>2, <2>3 DEF MailInv, MailedIsStoredOrRejected
  <2>8. QED
    BY <1>1, <2>6, <2>7 DEF MailInv
<1>7. ASSUME NEW w \in Workers, Put(w) PROVE MailInv'
  <2>1. /\ UNCHANGED <<code, stored, rejected, mails>>
        /\ \A v \in Workers : code[v] # None => task'[v] = task[v]
    BY <1>2, <1>7 DEF Put
  <2>2. QED
    BY <1>1, <2>1, MailFrame DEF Known
<1>8. ASSUME NEW w \in Workers, Send(w) PROVE MailInv'
  <2>1. code[w] # None
    BY <1>1, <1>8 DEF Send, TypeInv, HoldsCode
  <2>2. /\ UNCHANGED <<stored, rejected>>
        /\ mails' \subseteq mails \cup {[email |-> task[w], code |-> code[w]]}
        /\ code'[w] = None
        /\ \A v \in Workers \ {w} : code'[v] = code[v] /\ task'[v] = task[v]
    BY <1>2, <1>8 DEF Send
  <2>3. MailedIsStoredOrRejected'
    <3> SUFFICES ASSUME NEW m \in mails' PROVE <<m.email, m.code>> \in Known'
      BY DEF MailedIsStoredOrRejected, Known
    <3>1. CASE m \in mails
      BY <2>2, <3>1 DEF MailInv, MailedIsStoredOrRejected, Known
    <3>2. CASE m = [email |-> task[w], code |-> code[w]]
      <4>1. m.email = task[w] /\ m.code = code[w]
        BY <3>2
      <4>2. QED
        BY <2>1, <2>2, <4>1 DEF MailInv, CodeIsKnown, Known
    <3>3. QED
      BY <2>2, <3>1, <3>2
  <2>4. CodeIsKnown'
    BY <2>2 DEF MailInv, CodeIsKnown, Known
  <2>5. QED
    BY <1>1, <2>3, <2>4 DEF MailInv
<1>9. CASE UNCHANGED vars
  BY <1>1, <1>9, MailFrame DEF vars, Known
<1>10. QED
  BY <1>3, <1>4, <1>5, <1>6, <1>7, <1>8, <1>9 DEF Next, WorkerStep

\* A code that was mailed had been stored, or Redis had refused to store it
\* with an error reply, whatever breaks and however the workers interleave.
THEOREM MailCorrect == Spec => []MailedIsStoredOrRejected
<1>1. MailInv => MailedIsStoredOrRejected
  BY DEF MailInv
<1>2. QED
  BY MailInit, MailNext, <1>1, PTL DEF Spec
=============================================================================
