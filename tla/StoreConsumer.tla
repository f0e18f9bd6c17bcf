---------------------------- MODULE StoreConsumer ----------------------------
(***************************************************************************)
(* store_srv as a whole: a Kafka consumer group on topic file.upload.cmd   *)
(* (src/other_srv/store_srv/main.go) whose members push what they fetch    *)
(* into a bounded channel (ConsumeClaim) that the worker goroutines of     *)
(* StoreWorker drain.                                                      *)
(*                                                                         *)
(* The broker and the sarama client are external.  What the code relies on *)
(* of them:                                                                *)
(*  - a group generation assigns every partition to one member;            *)
(*  - a session lives on the client until it learns of a rebalance or its  *)
(*    ctx is cancelled, so an evicted member goes on for a while with its  *)
(*    old session; the broker rejects commits of an old generation;        *)
(*  - MarkMessage raises the session's mark of the partition to offset + 1 *)
(*    and never lowers it; commits send the mark; the end of a session     *)
(*    flushes it;                                                          *)
(*  - a session starts at the committed offset or, if there is none, at    *)
(*    Offsets.Initial = OffsetNewest.                                      *)
(***************************************************************************)
EXTENDS StoreWorker, Sequences, FiniteSets

CONSTANTS
    Partitions, \* partitions of the topic
    QueueSize,  \* capacity of taskCh: workerCount*2
    MaxLog,     \* bound on the messages of a partition
    MaxGen      \* bound on the group generations

ASSUME QueueAssumption == QueueSize \in Nat \ {0} /\ MaxLog \in Nat /\ MaxGen \in Nat

VARIABLES
    log,        \* log[p]: the messages of partition p
    committed,  \* committed[p]: committed offset; 0 if there is none
    gen,        \* generation of the consumer group
    session,    \* session[i]: generation of the live session of i; 0 if none
    claims,     \* claims[i]: partitions of that session
    position,   \* position[i][p]: next offset ConsumeClaim will read
    marks,      \* marks[i][p]: offset the session has marked; 0 if none
    taskCh,     \* taskCh[i]: the channel of process i, a sequence of tasks
    task        \* task[w]: the task worker w took from the channel

brokerVars   == <<log, committed, gen>>
sessionVars  == <<session, claims, position, marks>>
taskVars     == <<taskCh, task>>
consumerVars == <<brokerVars, sessionVars, taskVars>>
vars         == <<workerVars, consumerVars>>

Offsets == 0..(MaxLog - 1)

Task == [msg : Events \cup {Malformed}, partition : Partitions,
         offset : Offsets, session : 1..MaxGen]

Init ==
    /\ WorkerInit
    /\ log = [p \in Partitions |-> <<>>]
    /\ committed = [p \in Partitions |-> 0]
    /\ gen = 0
    /\ session = [i \in Instances |-> 0]
    /\ claims = [i \in Instances |-> {}]
    /\ position = [i \in Instances |-> [p \in Partitions |-> 0]]
    /\ marks = [i \in Instances |-> [p \in Partitions |-> 0]]
    /\ taskCh = [i \in Instances |-> <<>>]
    /\ task = [w \in Workers |-> Null]

-----------------------------------------------------------------------------
(* Broker and sessions *)

\* The file service appends an upload command; it may send one twice.
Produce(p, m) ==
    /\ Len(log[p]) < MaxLog
    /\ log' = [log EXCEPT ![p] = Append(@, m)]
    /\ UNCHANGED <<workerVars, committed, gen, sessionVars, taskVars>>

\* Where a new session begins to read partition p.
InitialOffset(p) == IF committed[p] > 0 THEN committed[p] ELSE Len(log[p])

\* The partitions an assignment gives to member i.
Share(assign, i) == {p \in Partitions : assign[p] = i}

\* The members that wait in Consume form the next generation; assign gives
\* every partition to one of them, in even shares (BalanceStrategyRange).  A
\* member that still has a session is not waiting: it is evicted and does
\* not know yet.
Rebalance(members, assign) ==
    /\ gen < MaxGen
    /\ \A i, j \in members :
          Cardinality(Share(assign, i)) - Cardinality(Share(assign, j)) <= 1
    /\ \A i \in members : proc[i] = "up" /\ session[i] = 0
    /\ gen' = gen + 1
    /\ session' = [i \in Instances |-> IF i \in members THEN gen + 1 ELSE session[i]]
    /\ claims' = [i \in Instances |->
                    IF i \in members THEN Share(assign, i) ELSE claims[i]]
    /\ position' = [i \in Instances |->
                      IF i \in members
                      THEN [p \in Partitions |->
                              IF assign[p] = i THEN InitialOffset(p) ELSE 0]
                      ELSE position[i]]
    /\ UNCHANGED <<workerVars, log, committed, marks, taskVars>>

\* The broker takes the marks of the current generation only.
CommitMarks(i) ==
    committed' = [p \in Partitions |->
                    IF session[i] = gen /\ marks[i][p] > 0 THEN marks[i][p] ELSE committed[p]]

\* Every second, while the session lives.
AutoCommit(i) ==
    /\ session[i] # 0
    /\ CommitMarks(i)
    /\ UNCHANGED <<workerVars, log, gen, sessionVars, taskVars>>

ForgetSession(i) ==
    /\ session' = [session EXCEPT ![i] = 0]
    /\ claims' = [claims EXCEPT ![i] = {}]
    /\ position' = [position EXCEPT ![i] = [p \in Partitions |-> 0]]
    /\ marks' = [marks EXCEPT ![i] = [p \in Partitions |-> 0]]

\* The session's ctx is done: ConsumeClaim returns, Cleanup runs (it waits
\* for nothing) and sarama flushes the marks.  The channel is left as it is.
Cleanup(i) ==
    /\ session[i] # 0
    /\ CommitMarks(i)
    /\ ForgetSession(i)
    /\ UNCHANGED <<workerVars, log, gen, taskVars>>

\* Fetch one message and push it.  The select gives up when the session is
\* done, which is Cleanup; a full channel blocks.
ConsumeClaim(i, p) ==
    /\ session[i] # 0
    /\ p \in claims[i]
    /\ position[i][p] < Len(log[p])
    /\ Len(taskCh[i]) < QueueSize
    /\ taskCh' = [taskCh EXCEPT ![i] =
                    Append(@, [msg       |-> log[p][position[i][p] + 1],
                               partition |-> p,
                               offset    |-> position[i][p],
                               session   |-> session[i]])]
    /\ position' = [position EXCEPT ![i][p] = @ + 1]
    /\ UNCHANGED <<workerVars, brokerVars, session, claims, marks, task>>

-----------------------------------------------------------------------------
(* Worker goroutines *)

\* for t := range c.taskCh
Receive(w) ==
    LET i == Me(w)
    IN  /\ taskCh[i] # <<>>
        /\ Take(w, Head(taskCh[i]).msg)
        /\ task' = [task EXCEPT ![w] = Head(taskCh[i])]
        /\ taskCh' = [taskCh EXCEPT ![i] = Tail(@)]
        /\ UNCHANGED <<brokerVars, sessionVars>>

Process(w) == WorkerStep(w) /\ UNCHANGED consumerVars

\* Mutant of MayMark: failures are marked too.
MayMark_AnyResult(w) ==
    /\ event[w] # Malformed
    /\ session[Me(w)] = task[w].session
    /\ proc[Me(w)] = "up"

\* Mutant of MayMark: the session kept in the consumer is used, not the one
\* the task came from.
MayMark_CurrentSession(w) ==
    /\ pc[w] = "ok"
    /\ session[Me(w)] # 0
    /\ proc[Me(w)] = "up"

\* Success is marked, if the session of the task is still the live one and
\* its ctx, which descends from the ctx of main, is not cancelled.
MayMark(w) ==
    /\ pc[w] = "ok"
    /\ session[Me(w)] = task[w].session
    /\ proc[Me(w)] = "up"

\* processMessage has returned: mark or log, then back to the channel.
Finish(w) ==
    LET i == Me(w)
        p == task[w].partition
    IN  /\ Return(w)
        /\ marks' = IF MayMark(w)
                    THEN [marks EXCEPT ![i][p] =
                            IF task[w].offset + 1 > @ THEN task[w].offset + 1 ELSE @]
                    ELSE marks
        /\ task' = [task EXCEPT ![w] = Null]
        /\ UNCHANGED <<brokerVars, session, claims, position, taskCh>>

-----------------------------------------------------------------------------
(* Processes *)

\* main cancels ctx; Consume returns after Cleanup.
Shutdown(i) == Stop(i) /\ UNCHANGED consumerVars

\* The process ends: the channel, the tasks and unflushed marks are gone.
Die(i) ==
    /\ Exit(i)
    /\ ForgetSession(i)
    /\ taskCh' = [taskCh EXCEPT ![i] = <<>>]
    /\ task' = [w \in Workers |-> IF Me(w) = i THEN Null ELSE task[w]]
    /\ UNCHANGED brokerVars

Restart(i) == Start(i) /\ UNCHANGED consumerVars

Time == Tick /\ UNCHANGED consumerVars

Next ==
    \/ \E p \in Partitions : \E m \in Events \cup {Malformed} : Produce(p, m)
    \/ \E members \in SUBSET Instances \ {{}} :
          \E assign \in [Partitions -> members] : Rebalance(members, assign)
    \/ \E i \in Instances : \/ AutoCommit(i) \/ Cleanup(i)
                            \/ Shutdown(i) \/ Die(i) \/ Restart(i)
                            \/ \E p \in Partitions : ConsumeClaim(i, p)
    \/ \E w \in Workers : Receive(w) \/ Process(w) \/ Finish(w)
    \/ Time

Spec == Init /\ [][Next]_vars

-----------------------------------------------------------------------------
(* Fairness: goroutines are scheduled and statements return.  Nothing is    *)
(* assumed of the broker, of signals or of the clock.                       *)

FairSpec ==
    /\ Spec
    /\ \A w \in Workers : WF_vars(Receive(w)) /\ WF_vars(Process(w)) /\ WF_vars(Finish(w))

-----------------------------------------------------------------------------
(* Properties *)

\* Types of the Kafka side, and of the tasks in the channel and the workers.
ConsumerTypeOK ==
    /\ WorkerTypeOK
    /\ log \in [Partitions -> Seq(Events \cup {Malformed})]
    /\ \A p \in Partitions : Len(log[p]) <= MaxLog
    /\ committed \in [Partitions -> 0..MaxLog]
    /\ gen \in 0..MaxGen
    /\ session \in [Instances -> 0..MaxGen]
    /\ claims \in [Instances -> SUBSET Partitions]
    /\ position \in [Instances -> [Partitions -> 0..MaxLog]]
    /\ marks \in [Instances -> [Partitions -> 0..MaxLog]]
    /\ taskCh \in [Instances -> Seq(Task)]
    /\ \A i \in Instances : Len(taskCh[i]) <= QueueSize
    /\ task \in [Workers -> Task \cup {Null}]

\* The message whose offset was committed last is published: neither a
\* failed attempt, a malformed message nor a task of an ended session ever
\* sets the committed offset of a partition.
CommittedIsPublished ==
    \A p \in Partitions : committed[p] > 0 =>
        /\ log[p][committed[p]] # Malformed
        /\ Published(log[p][committed[p]])

\* A session marks only what it has itself read from a partition it claims,
\* although its process still works on tasks of earlier sessions.
MarkedInOwnClaim ==
    \A i \in Instances, p \in Partitions : marks[i][p] > 0 =>
        p \in claims[i] /\ marks[i][p] <= position[i][p]

\* The committed offset of a partition never goes back, whichever members
\* commit and however late.
CommitsOnlyAdvance ==
    [][\A p \in Partitions : committed'[p] >= committed[p]]_vars

\* What is in the channel of a process is published in the end, whatever
\* rebalances happen meanwhile, when nothing fails.
QueuedIsPublished ==
    \A e \in Events :
        (\E i \in Instances : \E k \in DOMAIN taskCh[i] : taskCh[i][k].msg = e)
            ~> Published(e)

\* An inbox row that somebody processes becomes DONE in the end, even if its
\* lock expires and changes hands on the way, when nothing fails.
ProcessingIsDone ==
    \A e \in Events :
        (inbox[e].status = "PROCESSING") ~> (inbox[e].status = "DONE")

\* "A failed message is not marked so that Kafka delivers it again" (comment
\* in the worker loop): the offset of a message that has just failed is not
\* below the committed offset, for then the group would never see it again.
FailedIsRedelivered ==
    \A w \in Workers :
        (pc[w] = "err" /\ event[w] # Malformed /\ ~Published(event[w]))
            => committed[task[w].partition] <= task[w].offset
=============================================================================
