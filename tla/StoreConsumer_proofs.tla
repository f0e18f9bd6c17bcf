------------------------ MODULE StoreConsumer_proofs ------------------------
(***************************************************************************)
(* Proofs about StoreConsumer, for any numbers of processes, workers,      *)
(* partitions, messages and generations.  The workers of the composition   *)
(* behave as those of StoreWorker, so that what is proved of them there    *)
(* holds here; the rest is about offsets.                                  *)
(***************************************************************************)
EXTENDS StoreConsumer, StoreWorker_proofs, SequenceTheorems

Messages == Events \cup {Malformed}

-----------------------------------------------------------------------------
(* Pending tasks                                                           *)

Queued(i) == {taskCh[i][k] : k \in DOMAIN taskCh[i]}
Taken(i)  == {task[w] : w \in {v \in Workers : Me(v) = i /\ pc[v] # "idle"}}

\* The tasks process i works on or will work on, of whatever session.
Pending(i) == Queued(i) \cup Taken(i)

\* A worker that is not idle processes the message of its task.
TaskInHand ==
    \A w \in Workers : pc[w] # "idle" => task[w] \in Task /\ event[w] = task[w].msg

KafkaTypeInv == TypeInv /\ ConsumerTypeOK /\ TaskInHand

-----------------------------------------------------------------------------
(* What the offsets mean                                                   *)

\* Offset k of partition p may be committed: the message before it is done.
Good(p, k) ==
    /\ k <= Len(log[p])
    /\ log[p][k] # Malformed
    /\ Published(log[p][k])

SessionsAreGenerations ==
    \A i \in Instances :
        /\ session[i] <= gen
        /\ session[i] = 0 => claims[i] = {} /\ \A p \in Partitions : marks[i][p] = 0

\* In one generation a partition is claimed once.
ClaimsApart ==
    \A i, j \in Instances :
        (i # j /\ session[i] # 0 /\ session[i] = session[j]) => claims[i] \cap claims[j] = {}

\* A task is a message of the log.  If its session is the live one, the
\* session has read it; if that session has marked nothing yet, the task is
\* not behind the committed offset.
TaskRead(i, t) ==
    /\ t.offset < Len(log[t.partition])
    /\ t.msg = log[t.partition][t.offset + 1]
    /\ t.session <= gen
    /\ t.session = session[i] =>
          /\ t.partition \in claims[i]
          /\ t.offset < position[i][t.partition]
          /\ (session[i] = gen /\ marks[i][t.partition] = 0)
                => committed[t.partition] <= t.offset

TasksRead == \A i \in Instances : \A t \in Pending(i) : TaskRead(i, t)

MarksGood ==
    \A i \in Instances, p \in Partitions :
        marks[i][p] > 0 => p \in claims[i] /\ marks[i][p] <= position[i][p] /\ Good(p, marks[i][p])

CommitsGood == \A p \in Partitions : committed[p] > 0 => Good(p, committed[p])

\* What a session of the current generation reads and marks of its own
\* partitions is not behind what is committed.
Ahead(i, p) ==
    /\ committed[p] <= position[i][p]
    /\ marks[i][p] > 0 => committed[p] <= marks[i][p]

CurrentAhead ==
    \A i \in Instances : \A p \in claims[i] : session[i] = gen => Ahead(i, p)

PositionInLog ==
    \A i \in Instances : \A p \in claims[i] : position[i][p] <= Len(log[p])

OffsetInv ==
    /\ KafkaTypeInv
    /\ EffectInv
    /\ SessionsAreGenerations
    /\ ClaimsApart
    /\ TasksRead
    /\ MarksGood
    /\ CommitsGood
    /\ CurrentAhead
    /\ PositionInLog

-----------------------------------------------------------------------------
(* The workers behave as in StoreWorker                                    *)

\* What a process takes from its channel is a message.
LEMMA HeadIsMessage ==
  ASSUME ConsumerTypeOK, NEW i \in Instances, taskCh[i] # <<>>
  PROVE  /\ Head(taskCh[i]) \in Task
         /\ Head(taskCh[i]).msg \in Messages
         /\ Tail(taskCh[i]) \in Seq(Task)
         /\ Len(Tail(taskCh[i])) = Len(taskCh[i]) - 1
<1>1. taskCh[i] \in Seq(Task)
  BY DEF ConsumerTypeOK
<1>2. /\ Head(taskCh[i]) \in Task
      /\ Tail(taskCh[i]) \in Seq(Task)
      /\ Len(Tail(taskCh[i])) = Len(taskCh[i]) - 1
  BY <1>1, HeadTailProperties
<1>3. QED
  BY <1>2 DEF Task, Messages

LEMMA StepOfWorkers == ConsumerTypeOK /\ [Next]_vars => [WorkerNext]_workerVars
<1> SUFFICES ASSUME ConsumerTypeOK, [Next]_vars PROVE [WorkerNext]_workerVars
  OBVIOUS
<1>1. ASSUME NEW w \in Workers, Receive(w)
      PROVE  WorkerNext
  <2>1. Me(w) \in Instances
    BY PayloadAssumption DEF Me
  <2>2. Head(taskCh[Me(w)]).msg \in Events \cup {Malformed}
    BY <1>1, <2>1, HeadIsMessage DEF Receive, Messages
  <2>3. QED
    BY <1>1, <2>2 DEF Receive, WorkerNext
<1>2. ASSUME NEW w \in Workers, Process(w) \/ Finish(w)
      PROVE  WorkerNext
  BY <1>2 DEF Process, Finish, WorkerNext
<1>3. ASSUME NEW i \in Instances, Shutdown(i) \/ Die(i) \/ Restart(i)
      PROVE  WorkerNext
  BY <1>3 DEF Shutdown, Die, Restart, WorkerNext
<1>4. CASE Time
  BY <1>4 DEF Time, WorkerNext
<1>5. ASSUME NEW i \in Instances,
             AutoCommit(i) \/ Cleanup(i) \/ \E p \in Partitions : ConsumeClaim(i, p)
      PROVE  UNCHANGED workerVars
  BY <1>5 DEF AutoCommit, Cleanup, ConsumeClaim
<1>6. ASSUME NEW p \in Partitions, NEW m \in Messages, Produce(p, m)
      PROVE  UNCHANGED workerVars
  BY <1>6 DEF Produce
<1>7. ASSUME NEW members, NEW assign, Rebalance(members, assign)
      PROVE  UNCHANGED workerVars
  BY <1>7 DEF Rebalance
<1>8. CASE UNCHANGED vars
  BY <1>8 DEF vars
<1>9. QED
  BY <1>1, <1>2, <1>3, <1>4, <1>5, <1>6, <1>7, <1>8 DEF Next, Messages

-----------------------------------------------------------------------------
(* Types                                                                   *)

LEMMA KafkaTypeInit == Init => KafkaTypeInv
<1> SUFFICES ASSUME Init PROVE KafkaTypeInv
  OBVIOUS
<1>1. TypeInv /\ WorkerTypeOK
  BY TypeInit DEF Init, TypeInv
<1>2. <<>> \in Seq(Events \cup {Malformed}) /\ <<>> \in Seq(Task) /\ Len(<<>>) = 0
  OBVIOUS
<1>3. ConsumerTypeOK
  BY <1>1, <1>2, QueueAssumption DEF Init, ConsumerTypeOK
<1>4. TaskInHand
  BY DEF Init, WorkerInit, TaskInHand
<1>5. QED
  BY <1>1, <1>3, <1>4 DEF KafkaTypeInv

LEMMA ProduceType ==
  ASSUME KafkaTypeInv, TypeInv', NEW p \in Partitions, NEW m \in Messages, Produce(p, m)
  PROVE  KafkaTypeInv'
<1> USE DEF KafkaTypeInv, ConsumerTypeOK, Messages
<1>1. log[p] \in Seq(Messages) /\ Len(log[p]) \in Nat
  OBVIOUS
<1>2. Append(log[p], m) \in Seq(Messages) /\ Len(Append(log[p], m)) = Len(log[p]) + 1
  BY <1>1, AppendProperties
<1>3. /\ log' \in [Partitions -> Seq(Messages)]
      /\ \A q \in Partitions : Len(log'[q]) <= MaxLog
  BY <1>1, <1>2, QueueAssumption DEF Produce
<1>4. QED
  BY <1>3 DEF Produce, TypeInv, TaskInHand, workerVars, sessionVars, taskVars

LEMMA RebalanceType ==
  ASSUME KafkaTypeInv, TypeInv', NEW members \in SUBSET Instances \ {{}},
         NEW assign \in [Partitions -> members], Rebalance(members, assign)
  PROVE  KafkaTypeInv'
<1> USE DEF KafkaTypeInv, ConsumerTypeOK
<1>1. gen' \in 0..MaxGen /\ gen + 1 \in 0..MaxGen
  BY QueueAssumption DEF Rebalance
<1>2. session' \in [Instances -> 0..MaxGen]
  BY <1>1 DEF Rebalance
<1>3. claims' \in [Instances -> SUBSET Partitions]
  BY DEF Rebalance, Share
<1>4. \A p \in Partitions : InitialOffset(p) \in 0..MaxLog
  <2> TAKE p \in Partitions
  <2>1. Len(log[p]) \in Nat /\ Len(log[p]) <= MaxLog /\ committed[p] \in 0..MaxLog
    OBVIOUS
  <2>2. QED
    BY <2>1, QueueAssumption DEF InitialOffset
<1>5. position' \in [Instances -> [Partitions -> 0..MaxLog]]
  BY <1>4, QueueAssumption DEF Rebalance
<1>6. QED
  BY <1>1, <1>2, <1>3, <1>5 DEF Rebalance, TypeInv, TaskInHand, workerVars, taskVars

LEMMA CommitType ==
  ASSUME ConsumerTypeOK, NEW i \in Instances, CommitMarks(i)
  PROVE  committed' \in [Partitions -> 0..MaxLog]
  BY DEF CommitMarks, ConsumerTypeOK

LEMMA ForgetType ==
  ASSUME ConsumerTypeOK, NEW i \in Instances, ForgetSession(i)
  PROVE  /\ session' \in [Instances -> 0..MaxGen]
         /\ claims' \in [Instances -> SUBSET Partitions]
         /\ position' \in [Instances -> [Partitions -> 0..MaxLog]]
         /\ marks' \in [Instances -> [Partitions -> 0..MaxLog]]
  BY QueueAssumption DEF ForgetSession, ConsumerTypeOK

LEMMA SessionEndType ==
  ASSUME KafkaTypeInv, TypeInv', NEW i \in Instances, AutoCommit(i) \/ Cleanup(i)
  PROVE  KafkaTypeInv'
<1> USE DEF KafkaTypeInv
<1>1. committed' \in [Partitions -> 0..MaxLog]
  BY CommitType DEF AutoCommit, Cleanup
<1>2. CASE AutoCommit(i)
  BY <1>1, <1>2 DEF AutoCommit, ConsumerTypeOK, TypeInv, TaskInHand, workerVars,
                    sessionVars, taskVars
<1>3. CASE Cleanup(i)
  BY <1>1, <1>3, ForgetType DEF Cleanup, ConsumerTypeOK, TypeInv, TaskInHand, workerVars,
                                taskVars
<1>4. QED
  BY <1>2, <1>3

\* The task that ConsumeClaim makes of the message it has read.
Read(i, p) == [msg       |-> log[p][position[i][p] + 1],
               partition |-> p,
               offset    |-> position[i][p],
               session   |-> session[i]]

LEMMA ReadIsTask ==
  ASSUME KafkaTypeInv, NEW i \in Instances, NEW p \in Partitions, ConsumeClaim(i, p)
  PROVE  /\ Read(i, p) \in Task
         /\ position[i][p] + 1 \in 1..Len(log[p])
         /\ taskCh[i] \in Seq(Task)
         /\ taskCh' = [taskCh EXCEPT ![i] = Append(@, Read(i, p))]
<1> USE DEF KafkaTypeInv, ConsumerTypeOK
<1>1. /\ log[p] \in Seq(Messages) /\ Len(log[p]) \in Nat /\ Len(log[p]) <= MaxLog
      /\ position[i][p] \in 0..MaxLog /\ session[i] \in 0..MaxGen
  BY DEF Messages
<1>2. position[i][p] \in Offsets /\ position[i][p] + 1 \in 1..Len(log[p])
  BY <1>1, QueueAssumption DEF ConsumeClaim, Offsets
<1>3. log[p][position[i][p] + 1] \in Messages
  BY <1>1, <1>2, ElementOfSeq
<1>4. session[i] \in 1..MaxGen
  BY <1>1, QueueAssumption DEF ConsumeClaim
<1>5. Read(i, p) \in Task
  BY <1>2, <1>3, <1>4 DEF Read, Task, Messages
<1>6. QED
  BY <1>2, <1>5 DEF ConsumeClaim, Read

LEMMA ConsumeType ==
  ASSUME KafkaTypeInv, TypeInv', NEW i \in Instances, NEW p \in Partitions, ConsumeClaim(i, p)
  PROVE  KafkaTypeInv'
<1> USE DEF KafkaTypeInv, ConsumerTypeOK
<1>1. /\ Append(taskCh[i], Read(i, p)) \in Seq(Task)
      /\ Len(Append(taskCh[i], Read(i, p))) = Len(taskCh[i]) + 1
  BY ReadIsTask, AppendProperties
<1>2. /\ taskCh' \in [Instances -> Seq(Task)]
      /\ \A j \in Instances : Len(taskCh'[j]) <= QueueSize
  <2>1. Len(taskCh[i]) \in Nat /\ Len(taskCh[i]) < QueueSize
    BY DEF ConsumeClaim
  <2>2. taskCh' = [taskCh EXCEPT ![i] = Append(taskCh[i], Read(i, p))]
    BY ReadIsTask
  <2>3. QED
    BY <1>1, <2>1, <2>2, QueueAssumption
<1>3. position' \in [Instances -> [Partitions -> 0..MaxLog]]
  <2>1. position[i][p] + 1 \in 0..MaxLog
    <3>1. Len(log[p]) \in Nat /\ Len(log[p]) <= MaxLog /\ position[i][p] \in 0..MaxLog
      OBVIOUS
    <3>2. position[i][p] + 1 \in 1..Len(log[p])
      BY ReadIsTask
    <3>3. QED
      BY <3>1, <3>2, QueueAssumption
  <2>2. QED
    BY <2>1 DEF ConsumeClaim
<1>4. QED
  BY <1>2, <1>3 DEF ConsumeClaim, TypeInv, TaskInHand, workerVars, brokerVars

LEMMA ReceiveType ==
  ASSUME KafkaTypeInv, TypeInv', NEW w \in Workers, Receive(w)
  PROVE  KafkaTypeInv'
<1> USE DEF KafkaTypeInv
<1> DEFINE i == Me(w)
<1>1. i \in Instances
  BY PayloadAssumption DEF Me
<1>2. /\ Head(taskCh[i]) \in Task /\ Tail(taskCh[i]) \in Seq(Task)
      /\ Len(Tail(taskCh[i])) = Len(taskCh[i]) - 1
  BY <1>1, HeadIsMessage DEF Receive
<1>3. taskCh' = [taskCh EXCEPT ![i] = Tail(taskCh[i])]
  BY DEF Receive
<1>4. \A j \in Instances : Len(taskCh[j]) \in Nat /\ Len(taskCh[j]) <= QueueSize
  BY DEF ConsumerTypeOK
<1>5. /\ taskCh' \in [Instances -> Seq(Task)]
      /\ \A j \in Instances : Len(taskCh'[j]) <= QueueSize
  BY <1>1, <1>2, <1>3, <1>4, QueueAssumption DEF ConsumerTypeOK
<1>6. task' \in [Workers -> Task \cup {Null}]
  BY <1>2 DEF Receive, ConsumerTypeOK
<1>7. TaskInHand'
  BY <1>2 DEF Receive, Take, TaskInHand, Goto, TypeInv, WorkerTypeOK, ConsumerTypeOK
<1>8. QED
  BY <1>5, <1>6, <1>7 DEF Receive, TypeInv, ConsumerTypeOK, brokerVars, sessionVars

LEMMA ProcessType ==
  ASSUME KafkaTypeInv, TypeInv', NEW w \in Workers, Process(w)
  PROVE  KafkaTypeInv' /\ \A v \in Workers : pc'[v] # "idle" => pc[v] # "idle"
<1> USE DEF KafkaTypeInv
<1>1. /\ \A v \in Workers : pc'[v] # "idle" => pc[v] # "idle"
      /\ event' = event
  BY DEF Process, WorkerStep, InsertInbox, FindInbox, TakeOver, CheckObject, Upload,
         FinalizeSuccess, MarkInboxFailed, Goto, TypeInv, WorkerTypeOK
<1>2. QED
  BY <1>1 DEF Process, TaskInHand, TypeInv, ConsumerTypeOK, consumerVars, brokerVars,
              sessionVars, taskVars

\* The mark is raised to the offset after the task, or left alone.
LEMMA FinishEffect ==
  ASSUME KafkaTypeInv, NEW w \in Workers, Finish(w)
  PROVE  /\ pc' = [pc EXCEPT ![w] = "idle"]
         /\ task[w] \in Task
         /\ \/ marks' = marks
            \/ /\ MayMark(w)
               /\ marks[Me(w)][task[w].partition] < task[w].offset + 1
               /\ marks' = [marks EXCEPT ![Me(w)][task[w].partition] = task[w].offset + 1]
<1> USE DEF KafkaTypeInv
<1>1. pc' = [pc EXCEPT ![w] = "idle"] /\ task[w] \in Task
  BY DEF Finish, Return, Goto, TaskInHand
<1>2. CASE MayMark(w)
  <2> DEFINE i == Me(w)
             p == task[w].partition
  <2>1. i \in Instances /\ p \in Partitions /\ task[w].offset \in Int
    BY <1>1, PayloadAssumption DEF Me, Task, Offsets
  <2>2. marks[i][p] \in Int
    BY <2>1 DEF ConsumerTypeOK
  <2>3. CASE task[w].offset + 1 > marks[i][p]
    BY <1>1, <1>2, <2>1, <2>2, <2>3 DEF Finish
  <2>4. CASE ~(task[w].offset + 1 > marks[i][p])
    <3>1. marks' = [marks EXCEPT ![i][p] = marks[i][p]]
      BY <1>2, <2>4 DEF Finish
    <3>2. QED
      BY <1>1, <2>1, <3>1 DEF ConsumerTypeOK
  <2>5. QED
    BY <2>3, <2>4
<1>3. CASE ~MayMark(w)
  BY <1>1, <1>3 DEF Finish
<1>4. QED
  BY <1>2, <1>3

LEMMA FinishType ==
  ASSUME KafkaTypeInv, TypeInv', NEW w \in Workers, Finish(w)
  PROVE  KafkaTypeInv'
<1> USE DEF KafkaTypeInv
<1>1. marks' \in [Instances -> [Partitions -> 0..MaxLog]]
  <2>1. task[w].partition \in Partitions /\ task[w].offset + 1 \in 0..MaxLog
    BY FinishEffect, QueueAssumption DEF Task, Offsets
  <2>2. ASSUME NEW i \in Instances, NEW p \in Partitions, NEW k \in 0..MaxLog
        PROVE  [marks EXCEPT ![i][p] = k] \in [Instances -> [Partitions -> 0..MaxLog]]
    BY DEF ConsumerTypeOK
  <2>3. Me(w) \in Instances /\ marks \in [Instances -> [Partitions -> 0..MaxLog]]
    BY PayloadAssumption DEF Me, ConsumerTypeOK
  <2>4. QED
    BY <2>1, <2>2, <2>3, FinishEffect
<1>2. task' \in [Workers -> Task \cup {Null}]
  BY DEF Finish, ConsumerTypeOK
<1>3. TaskInHand'
  <2>1. \A v \in Workers : pc'[v] # "idle" =>
            pc[v] # "idle" /\ task'[v] = task[v] /\ event'[v] = event[v]
    BY DEF Finish, Return, Goto, TypeInv, WorkerTypeOK, ConsumerTypeOK
  <2>2. QED
    BY <2>1 DEF TaskInHand
<1>4. QED
  BY <1>1, <1>2, <1>3 DEF Finish, TypeInv, ConsumerTypeOK, brokerVars

LEMMA DieType ==
  ASSUME KafkaTypeInv, TypeInv', NEW i \in Instances, Die(i)
  PROVE  KafkaTypeInv'
<1> USE DEF KafkaTypeInv
<1>1. <<>> \in Seq(Task) /\ Len(<<>>) = 0
  OBVIOUS
<1>2. /\ taskCh' \in [Instances -> Seq(Task)]
      /\ \A j \in Instances : Len(taskCh'[j]) <= QueueSize
  BY <1>1, QueueAssumption DEF Die, ConsumerTypeOK
<1>3. task' \in [Workers -> Task \cup {Null}]
  BY DEF Die, ConsumerTypeOK
<1>4. TaskInHand'
  BY DEF Die, Exit, TaskInHand
<1>5. QED
  BY <1>2, <1>3, <1>4, ForgetType DEF Die, TypeInv, ConsumerTypeOK, brokerVars

LEMMA KafkaTypeNext == KafkaTypeInv /\ [Next]_vars => KafkaTypeInv'
<1> SUFFICES ASSUME KafkaTypeInv, [Next]_vars PROVE KafkaTypeInv'
  OBVIOUS
<1>1. TypeInv'
  BY StepOfWorkers, TypeNext DEF KafkaTypeInv
<1>2. ASSUME UNCHANGED <<pc, event, consumerVars>>
      PROVE  KafkaTypeInv'
  BY <1>1, <1>2 DEF KafkaTypeInv, ConsumerTypeOK, TaskInHand, TypeInv, consumerVars,
                    brokerVars, sessionVars, taskVars
<1>3. ASSUME NEW i \in Instances, Shutdown(i) \/ Restart(i)
      PROVE  KafkaTypeInv'
  BY <1>2, <1>3 DEF Shutdown, Restart, Stop, Start
<1>4. CASE Time \/ UNCHANGED vars
  BY <1>2, <1>4 DEF Time, Tick, vars, workerVars
<1>5. QED
  BY <1>1, <1>3, <1>4, ProduceType, RebalanceType, SessionEndType, ConsumeType,
     ReceiveType, ProcessType, FinishType, DieType DEF Next, Messages

\* The variables of the Kafka side, the channel and the tasks keep their types.
THEOREM ConsumerTypeCorrect == Spec => []ConsumerTypeOK
<1>1. KafkaTypeInv => ConsumerTypeOK
  BY DEF KafkaTypeInv
<1>2. QED
  BY KafkaTypeInit, KafkaTypeNext, <1>1, PTL DEF Spec

\* Whatever Kafka hands to whom, and whichever process dies with what in its
\* channel, the workers of the group behave as StoreWorker says.
THEOREM WorkersImplemented == Spec => WorkerSpec
<1>1. Init => WorkerInit
  BY DEF Init
<1>2. KafkaTypeInv /\ [Next]_vars => [WorkerNext]_workerVars
  BY StepOfWorkers DEF KafkaTypeInv
<1>3. QED
  BY KafkaTypeInit, KafkaTypeNext, <1>1, <1>2, PTL DEF Spec, WorkerSpec

\* Hence the group as a whole implements the upload life cycle.
THEOREM GroupImplementsLifecycle == Spec => ImplementsLifecycle
  BY WorkersImplemented, LifecycleImplemented

-----------------------------------------------------------------------------
(* What a step does to published events, to the log and to pending tasks   *)

LEMMA PublishedGrows ==
  ASSUME TypeInv, [WorkerNext]_workerVars, NEW e \in Events, Published(e)
  PROVE  Published(e)'
<1>1. /\ objects \subseteq objects'
      /\ \A s \in Sha1s : files[s] = "SUCCESS" => files'[s] = "SUCCESS"
  <2>1. ASSUME NEW w \in Workers, WorkerStep(w)
        PROVE  /\ objects \subseteq objects'
               /\ \A s \in Sha1s : files[s] = "SUCCESS" => files'[s] = "SUCCESS"
    BY <2>1 DEF WorkerStep, InsertInbox, FindInbox, TakeOver, CheckObject, Upload,
                FinalizeSuccess, MarkInboxFailed, rowVars, TypeInv, WorkerTypeOK
  <2>2. CASE UNCHANGED <<objects, files>>
    BY <2>2
  <2>3. QED
    BY <2>1, <2>2 DEF WorkerNext, Take, Return, Stop, Exit, Start, Tick, workerVars
<1>2. QED
  BY <1>1, PublishedStable

LEMMA LogGrows ==
  ASSUME KafkaTypeInv, [Next]_vars, NEW p \in Partitions
  PROVE  /\ Len(log[p]) \in Nat /\ Len(log'[p]) \in Nat
         /\ Len(log[p]) <= Len(log'[p])
         /\ \A k \in 1..Len(log[p]) : log'[p][k] = log[p][k]
<1> USE DEF KafkaTypeInv
<1>1. log[p] \in Seq(Messages) /\ Len(log[p]) \in Nat
  BY DEF ConsumerTypeOK, Messages
<1>2. ASSUME NEW q \in Partitions, NEW m \in Messages, Produce(q, m)
      PROVE  /\ Len(log'[p]) \in Nat /\ Len(log[p]) <= Len(log'[p])
             /\ \A k \in 1..Len(log[p]) : log'[p][k] = log[p][k]
  <2>1. CASE q = p
    <3>1. log'[p] = Append(log[p], m)
      BY <1>2, <2>1 DEF Produce, ConsumerTypeOK
    <3>2. QED
      BY <1>1, <3>1, AppendProperties
  <2>2. CASE q # p
    BY <1>1, <1>2, <2>2 DEF Produce, ConsumerTypeOK
  <2>3. QED
    BY <2>1, <2>2
<1>3. CASE log' = log
  BY <1>1, <1>3
<1>4. CASE UNCHANGED vars
  BY <1>3, <1>4 DEF vars, consumerVars, brokerVars
<1>5. QED
  BY <1>1, <1>2, <1>3, <1>4
  DEF Next, Messages, Rebalance, AutoCommit, Cleanup, ConsumeClaim, Receive, Process, Finish,
      Shutdown, Die, Restart, Time, consumerVars, brokerVars

\* What is good stays good.
LEMMA GoodStable ==
  ASSUME KafkaTypeInv, [Next]_vars, NEW p \in Partitions, NEW k \in Nat, k > 0, Good(p, k)
  PROVE  Good(p, k)'
<1>1. /\ Len(log[p]) \in Nat /\ Len(log'[p]) \in Nat /\ Len(log[p]) <= Len(log'[p])
      /\ \A j \in 1..Len(log[p]) : log'[p][j] = log[p][j]
  BY LogGrows
<1>2. k \in 1..Len(log[p]) /\ k <= Len(log'[p])
  BY <1>1 DEF Good
<1>3. log'[p][k] = log[p][k]
  BY <1>1, <1>2
<1>4. log[p][k] \in Events
  <2>1. log[p] \in Seq(Messages)
    BY DEF KafkaTypeInv, ConsumerTypeOK, Messages
  <2>2. QED
    BY <1>2, <2>1, ElementOfSeq DEF Good, Messages
<1>5. Published(log[p][k])'
  <2>1. [WorkerNext]_workerVars
    BY StepOfWorkers DEF KafkaTypeInv
  <2>2. PICK e \in Events : e = log[p][k]
    BY <1>4
  <2>3. Published(e)'
    BY <2>1, <2>2, PublishedGrows DEF KafkaTypeInv, Good
  <2>4. QED
    BY <1>3, <2>2, <2>3 DEF Published
<1>6. QED
  BY <1>2, <1>3, <1>5 DEF Good

\* A pending task was pending before the step or has just been read.
LEMMA PendingStep ==
  ASSUME KafkaTypeInv, [Next]_vars, NEW j \in Instances, NEW t, t \in Pending(j)'
  PROVE  t \in Pending(j) \/ \E p \in Partitions : ConsumeClaim(j, p) /\ t = Read(j, p)
<1> DEFINE Known == t \in Pending(j)
           New(p) == ConsumeClaim(j, p) /\ t = Read(j, p)
<1> USE DEF KafkaTypeInv
<1>1. ASSUME taskCh'[j] = taskCh[j],
             \A v \in Workers : (Me(v) = j /\ pc'[v] # "idle")
                                   => pc[v] # "idle" /\ task'[v] = task[v]
      PROVE  Known
  BY <1>1 DEF Pending, Queued, Taken, Me
<1>2. ASSUME NEW w \in Workers, Receive(w)
      PROVE  Known
  <2>1. Me(w) \in Instances
    BY PayloadAssumption DEF Me
  <2>2. CASE Me(w) # j
    BY <1>1, <1>2, <2>1, <2>2 DEF Receive, Take, Goto, TypeInv, WorkerTypeOK, ConsumerTypeOK
  <2>3. CASE Me(w) = j
    <3>1. taskCh[j] \in Seq(Task) /\ taskCh[j] # <<>> /\ taskCh'[j] = Tail(taskCh[j])
      BY <1>2, <2>3 DEF Receive, ConsumerTypeOK
    <3>2. /\ Head(taskCh[j]) = taskCh[j][1] /\ 1 \in DOMAIN taskCh[j]
          /\ \A k \in DOMAIN Tail(taskCh[j]) :
                k + 1 \in DOMAIN taskCh[j] /\ Tail(taskCh[j])[k] = taskCh[j][k + 1]
      BY <3>1, HeadTailProperties, LenProperties, EmptySeq
    <3>3. Queued(j)' \subseteq Queued(j)
      BY <3>1, <3>2 DEF Queued
    <3>4. \A v \in Workers : v # w => pc'[v] = pc[v] /\ task'[v] = task[v]
      BY <1>2 DEF Receive, Take, Goto, TypeInv, WorkerTypeOK, ConsumerTypeOK
    <3>5. task'[w] = taskCh[j][1]
      BY <1>2, <2>3, <3>2 DEF Receive, ConsumerTypeOK
    <3>6. Taken(j)' \subseteq Pending(j)
      BY <3>2, <3>4, <3>5 DEF Pending, Queued, Taken, Me
    <3>7. QED
      BY <3>3, <3>6 DEF Pending
  <2>4. QED
    BY <2>2, <2>3
<1>3. ASSUME NEW i \in Instances, NEW p \in Partitions, ConsumeClaim(i, p)
      PROVE  Known \/ New(p)
  <2>1. taskCh[i] \in Seq(Task) /\ Read(i, p) \in Task
    BY <1>3, ReadIsTask
  <2>2. taskCh' = [taskCh EXCEPT ![i] = Append(taskCh[i], Read(i, p))]
    BY <1>3, ReadIsTask
  <2>3. CASE i # j
    BY <1>1, <1>3, <2>2, <2>3 DEF ConsumeClaim, ConsumerTypeOK, workerVars
  <2>4. CASE i = j
    <3>1. taskCh'[j] = Append(taskCh[j], Read(j, p))
      BY <2>2, <2>4 DEF ConsumerTypeOK
    <3>2. /\ Len(Append(taskCh[j], Read(j, p))) = Len(taskCh[j]) + 1
          /\ \A k \in 1..Len(taskCh[j]) : Append(taskCh[j], Read(j, p))[k] = taskCh[j][k]
          /\ Append(taskCh[j], Read(j, p))[Len(taskCh[j]) + 1] = Read(j, p)
          /\ Append(taskCh[j], Read(j, p)) \in Seq(Task)
      BY <2>1, <2>4, AppendProperties
    <3>3. /\ DOMAIN taskCh[j] = 1..Len(taskCh[j]) /\ Len(taskCh[j]) \in Nat
          /\ DOMAIN taskCh'[j] = 1..(Len(taskCh[j]) + 1)
      BY <2>1, <2>4, <3>1, <3>2, LenProperties
    <3>4. Queued(j)' \subseteq Queued(j) \cup {Read(j, p)}
      BY <3>1, <3>2, <3>3 DEF Queued
    <3>5. Taken(j)' = Taken(j)
      BY <1>3 DEF ConsumeClaim, Taken, workerVars
    <3>6. t \in Pending(j) \/ t = Read(j, p)
      BY <3>4, <3>5 DEF Pending
    <3>7. QED
      BY <1>3, <2>4, <3>6
  <2>5. QED
    BY <2>3, <2>4
<1>4. ASSUME NEW w \in Workers, Process(w)
      PROVE  Known
  <2>1. TypeInv'
    BY <1>4, StepOfWorkers, TypeNext
  <2>2. QED
    BY <1>1, <1>4, <2>1, ProcessType DEF Process, consumerVars, taskVars
<1>5. ASSUME NEW w \in Workers, Finish(w)
      PROVE  Known
  <2>1. pc' = [pc EXCEPT ![w] = "idle"] /\ task' = [task EXCEPT ![w] = Null] /\ taskCh' = taskCh
    BY <1>5, FinishEffect DEF Finish
  <2>2. QED
    BY <1>1, <2>1 DEF TypeInv, WorkerTypeOK, ConsumerTypeOK
<1>6. ASSUME NEW i \in Instances, Die(i)
      PROVE  Known
  <2>1. \A v \in Workers : pc'[v] = IF Me(v) = i THEN "idle" ELSE pc[v]
    BY <1>6 DEF Die, Exit
  <2>2. \A v \in Workers : Me(v) # i => task'[v] = task[v]
    BY <1>6 DEF Die
  <2>3. taskCh'[j] = IF j = i THEN <<>> ELSE taskCh[j]
    BY <1>6 DEF Die, ConsumerTypeOK
  <2>4. CASE j = i
    <3>1. Queued(j)' = {}
      BY <2>3, <2>4 DEF Queued
    <3>2. Taken(j)' = {}
      BY <2>1, <2>4 DEF Taken, Me
    <3>3. QED
      BY <3>1, <3>2 DEF Pending
  <2>5. CASE j # i
    BY <1>1, <2>1, <2>2, <2>3, <2>5
  <2>6. QED
    BY <2>4, <2>5
<1>7. CASE UNCHANGED <<pc, taskCh, task>>
  BY <1>1, <1>7
<1>8. QED
  BY <1>2, <1>3, <1>4, <1>5, <1>6, <1>7
  DEF Next, Produce, Rebalance, AutoCommit, Cleanup, Shutdown, Restart, Time, Stop, Start, Tick,
      vars, workerVars, consumerVars, taskVars

LEMMA PendingIsTask ==
  ASSUME KafkaTypeInv, NEW j \in Instances, NEW t \in Pending(j)
  PROVE  t \in Task
<1>1. \A k \in DOMAIN taskCh[j] : taskCh[j][k] \in Task
  <2>1. taskCh[j] \in Seq(Task)
    BY DEF KafkaTypeInv, ConsumerTypeOK
  <2>2. QED
    BY <2>1, LenProperties, ElementOfSeq
<1>2. QED
  BY <1>1 DEF Pending, Queued, Taken, KafkaTypeInv, TaskInHand

-----------------------------------------------------------------------------
(* Offsets, action by action                                               *)

LEMMA OffsetInit == Init => OffsetInv
<1> SUFFICES ASSUME Init PROVE OffsetInv
  OBVIOUS
<1>1. KafkaTypeInv /\ EffectInv
  BY KafkaTypeInit, EffectInit DEF Init
<1>2. SessionsAreGenerations /\ ClaimsApart /\ MarksGood /\ CommitsGood /\ CurrentAhead
      /\ PositionInLog
  BY DEF Init, SessionsAreGenerations, ClaimsApart, MarksGood, CommitsGood, CurrentAhead,
         PositionInLog
<1>3. TasksRead
  BY DEF Init, WorkerInit, TasksRead, Pending, Queued, Taken
<1>4. QED
  BY <1>1, <1>2, <1>3 DEF OffsetInv

\* The types of an offset's neighbourhood, as numbers.
LEMMA Numbers ==
  ASSUME KafkaTypeInv
  PROVE  /\ gen \in Nat
         /\ \A i \in Instances : session[i] \in Nat
         /\ \A p \in Partitions : committed[p] \in Nat /\ Len(log[p]) \in Nat
         /\ \A i \in Instances, p \in Partitions : marks[i][p] \in Nat /\ position[i][p] \in Nat
         /\ \A t \in Task : t.offset \in Nat /\ t.session \in Nat \ {0} /\ t.partition \in Partitions
<1>1. /\ gen \in 0..MaxGen
      /\ \A i \in Instances : session[i] \in 0..MaxGen
      /\ \A p \in Partitions : committed[p] \in 0..MaxLog /\ Len(log[p]) \in Nat
      /\ \A i \in Instances, p \in Partitions :
            marks[i][p] \in 0..MaxLog /\ position[i][p] \in 0..MaxLog
  BY DEF KafkaTypeInv, ConsumerTypeOK
<1>2. \A t \in Task : t.offset \in 0..(MaxLog - 1) /\ t.session \in 1..MaxGen
                      /\ t.partition \in Partitions
  BY DEF Task, Offsets
<1>3. QED
  BY <1>1, <1>2, QueueAssumption

\* What was good is good after the step.
LEMMA GoodNext ==
  ASSUME OffsetInv, [Next]_vars
  PROVE  \A p \in Partitions : \A k \in Nat \ {0} : Good(p, k) => Good(p, k)'
  BY GoodStable DEF OffsetInv

\* A task of the log stays one.
LEMMA TaskInLog ==
  ASSUME OffsetInv, [Next]_vars, NEW j \in Instances, NEW t \in Pending(j)
  PROVE  /\ t \in Task
         /\ t.offset < Len(log'[t.partition])
         /\ t.msg = log'[t.partition][t.offset + 1]
<1>1. t \in Task /\ t.offset \in Nat /\ t.partition \in Partitions
  BY PendingIsTask, Numbers DEF OffsetInv
<1>2. TaskRead(j, t)
  BY DEF OffsetInv, TasksRead
<1>3. /\ Len(log[t.partition]) \in Nat /\ Len(log'[t.partition]) \in Nat
      /\ Len(log[t.partition]) <= Len(log'[t.partition])
      /\ \A k \in 1..Len(log[t.partition]) : log'[t.partition][k] = log[t.partition][k]
  BY <1>1, LogGrows DEF OffsetInv
<1>4. t.offset + 1 \in 1..Len(log[t.partition])
  BY <1>1, <1>2, <1>3 DEF TaskRead
<1>5. QED
  BY <1>1, <1>2, <1>3, <1>4 DEF TaskRead

\* Types and workers take care of themselves.
LEMMA BaseNext == OffsetInv /\ [Next]_vars => KafkaTypeInv' /\ EffectInv'
  BY KafkaTypeNext, StepOfWorkers, EffectNext DEF OffsetInv, KafkaTypeInv

\* A task is taken up only by a step that moves a position.
LEMMA PendingKept ==
  ASSUME KafkaTypeInv, [Next]_vars, NEW j \in Instances,
         \A p \in Partitions : position'[j][p] <= position[j][p]
  PROVE  Pending(j)' \subseteq Pending(j)
<1> SUFFICES ASSUME NEW p \in Partitions, ConsumeClaim(j, p) PROVE FALSE
  BY PendingStep
<1>1. position'[j][p] = position[j][p] + 1 /\ position[j][p] \in Nat
  BY Numbers DEF ConsumeClaim, KafkaTypeInv, ConsumerTypeOK
<1>2. QED
  BY <1>1

LEMMA MarkKept ==
  ASSUME OffsetInv, [Next]_vars, NEW i \in Instances, NEW p \in Partitions,
         marks[i][p] > 0, marks'[i][p] = marks[i][p]
  PROVE  Good(p, marks[i][p])'
<1>1. PICK k \in Nat \ {0} : k = marks[i][p]
  BY Numbers DEF OffsetInv
<1>2. Good(p, k)'
  BY <1>1, GoodNext DEF OffsetInv, MarksGood
<1>3. QED
  BY <1>1, <1>2 DEF Good, Published

LEMMA CommitKept ==
  ASSUME OffsetInv, [Next]_vars, NEW p \in Partitions,
         committed[p] > 0, committed'[p] = committed[p]
  PROVE  Good(p, committed[p])'
<1>1. PICK k \in Nat \ {0} : k = committed[p]
  BY Numbers DEF OffsetInv
<1>2. Good(p, k)'
  BY <1>1, GoodNext DEF OffsetInv, CommitsGood
<1>3. QED
  BY <1>1, <1>2 DEF Good, Published

LEMMA PositionKept ==
  ASSUME OffsetInv, [Next]_vars, NEW i \in Instances, NEW p \in claims[i]
  PROVE  p \in Partitions /\ position[i][p] <= Len(log'[p])
<1>1. p \in Partitions /\ position[i][p] <= Len(log[p])
  BY DEF OffsetInv, PositionInLog, KafkaTypeInv, ConsumerTypeOK
<1>2. QED
  BY <1>1, LogGrows, Numbers DEF OffsetInv

\* Steps that leave the offsets alone and take up no task.
LEMMA OffsetQuiet ==
  ASSUME OffsetInv, [Next]_vars, UNCHANGED <<committed, gen, sessionVars>>
  PROVE  OffsetInv'
<1> USE DEF sessionVars
<1>1. SessionsAreGenerations' /\ ClaimsApart' /\ CurrentAhead'
  BY DEF OffsetInv, SessionsAreGenerations, ClaimsApart, CurrentAhead, Ahead
<1>2. TasksRead'
  <2> SUFFICES ASSUME NEW j \in Instances, NEW t \in Pending(j)'
               PROVE  TaskRead(j, t)'
    BY DEF TasksRead
  <2>1. t \in Pending(j) /\ TaskRead(j, t)
    BY PendingKept, Numbers DEF OffsetInv, TasksRead
  <2>2. QED
    BY <2>1, TaskInLog DEF TaskRead
<1>3. MarksGood'
  BY MarkKept DEF OffsetInv, MarksGood
<1>4. CommitsGood'
  BY CommitKept DEF CommitsGood
<1>5. PositionInLog'
  BY PositionKept DEF PositionInLog
<1>6. QED
  BY <1>1, <1>2, <1>3, <1>4, <1>5, BaseNext DEF OffsetInv

\* A commit: the marks of a current session replace what was committed, and
\* nothing that is behind them is pending in that session.
LEMMA CommitEffect ==
  ASSUME OffsetInv, [Next]_vars, NEW i \in Instances, CommitMarks(i)
  PROVE  /\ \A p \in Partitions : committed[p] <= committed'[p]
         /\ \A p \in Partitions : \/ committed'[p] = committed[p]
                                  \/ /\ session[i] = gen /\ session[i] # 0
                                     /\ p \in claims[i] /\ marks[i][p] > 0
                                     /\ committed'[p] = marks[i][p]
<1> SUFFICES ASSUME NEW p \in Partitions
             PROVE  \/ committed'[p] = committed[p]
                    \/ /\ session[i] = gen /\ session[i] # 0
                       /\ p \in claims[i] /\ marks[i][p] > 0
                       /\ committed'[p] = marks[i][p] /\ committed[p] <= marks[i][p]
  BY Numbers DEF OffsetInv
<1>1. CASE session[i] = gen /\ marks[i][p] > 0
  <2>1. p \in claims[i]
    BY <1>1 DEF OffsetInv, MarksGood
  <2>2. session[i] # 0
    BY <1>1, Numbers DEF OffsetInv, SessionsAreGenerations
  <2>3. committed[p] <= marks[i][p]
    BY <1>1, <2>1 DEF OffsetInv, CurrentAhead, Ahead
  <2>4. committed'[p] = marks[i][p]
    BY <1>1 DEF CommitMarks
  <2>5. QED
    BY <1>1, <2>1, <2>2, <2>3, <2>4
<1>2. CASE ~(session[i] = gen /\ marks[i][p] > 0)
  BY <1>2 DEF CommitMarks
<1>3. QED
  BY <1>1, <1>2

LEMMA CommitsGoodNext ==
  ASSUME OffsetInv, [Next]_vars, NEW i \in Instances, CommitMarks(i)
  PROVE  CommitsGood'
<1> SUFFICES ASSUME NEW p \in Partitions, committed'[p] > 0
             PROVE  Good(p, committed[p])'
  BY DEF CommitsGood
<1>1. CASE committed'[p] = committed[p]
  BY <1>1, CommitKept
<1>2. CASE marks[i][p] > 0 /\ committed'[p] = marks[i][p]
  <2>1. PICK k \in Nat \ {0} : k = marks[i][p]
    BY <1>2, Numbers DEF OffsetInv
  <2>2. Good(p, k)'
    BY <1>2, <2>1, GoodNext DEF OffsetInv, MarksGood
  <2>3. QED
    BY <1>2, <2>1, <2>2 DEF Good, Published
<1>3. QED
  BY <1>1, <1>2, CommitEffect

\* Another session of the current generation is not behind i's commit.
LEMMA OthersAhead ==
  ASSUME OffsetInv, [Next]_vars, NEW i \in Instances, CommitMarks(i),
         NEW j \in Instances, j # i, session[j] = gen, NEW p \in claims[j]
  PROVE  p \in Partitions /\ committed'[p] = committed[p]
<1>1. p \in Partitions
  BY DEF OffsetInv, KafkaTypeInv, ConsumerTypeOK
<1>2. ~(session[i] = gen /\ session[i] # 0 /\ p \in claims[i])
  BY DEF OffsetInv, ClaimsApart
<1>3. QED
  BY <1>1, <1>2, CommitEffect

LEMMA OffsetAutoCommit ==
  ASSUME OffsetInv, [Next]_vars, NEW i \in Instances, AutoCommit(i)
  PROVE  OffsetInv'
<1> USE DEF AutoCommit, sessionVars, taskVars
<1>1. SessionsAreGenerations' /\ ClaimsApart'
  BY DEF OffsetInv, SessionsAreGenerations, ClaimsApart
<1>2. TasksRead'
  <2> SUFFICES ASSUME NEW j \in Instances, NEW t \in Pending(j)'
               PROVE  TaskRead(j, t)'
    BY DEF TasksRead
  <2>1. t \in Pending(j) /\ TaskRead(j, t)
    BY PendingKept, Numbers DEF OffsetInv, TasksRead
  <2>2. ASSUME t.session = session[j], session[j] = gen, marks[j][t.partition] = 0
        PROVE  committed'[t.partition] = committed[t.partition]
    <3>1. t.partition \in claims[j] /\ t.partition \in Partitions
      BY <2>1, <2>2, PendingIsTask, Numbers DEF OffsetInv, TaskRead
    <3>2. CASE j = i
      BY <2>2, <3>1, <3>2, CommitEffect
    <3>3. CASE j # i
      BY <2>2, <3>1, <3>3, OthersAhead
    <3>4. QED
      BY <3>2, <3>3
  <2>3. QED
    BY <2>1, <2>2, TaskInLog DEF TaskRead
<1>3. MarksGood'
  BY MarkKept DEF OffsetInv, MarksGood
<1>4. CommitsGood'
  BY CommitsGoodNext
<1>5. CurrentAhead'
  <2> SUFFICES ASSUME NEW j \in Instances, NEW p \in claims[j], session[j] = gen
               PROVE  Ahead(j, p)'
    BY DEF CurrentAhead
  <2>1. Ahead(j, p) /\ p \in Partitions
    BY DEF OffsetInv, CurrentAhead, KafkaTypeInv, ConsumerTypeOK
  <2>2. CASE j = i
    <3>1. \/ committed'[p] = committed[p]
          \/ committed'[p] = marks[j][p] /\ marks[j][p] <= position[j][p]
      BY <2>1, <2>2, CommitEffect DEF OffsetInv, MarksGood
    <3>2. QED
      BY <2>1, <3>1, Numbers DEF Ahead, OffsetInv
  <2>3. CASE j # i
    BY <2>1, <2>3, OthersAhead DEF Ahead
  <2>4. QED
    BY <2>2, <2>3
<1>6. PositionInLog'
  BY PositionKept DEF PositionInLog
<1>7. QED
  BY <1>1, <1>2, <1>3, <1>4, <1>5, <1>6, BaseNext DEF OffsetInv

LEMMA ForgetEffect ==
  ASSUME KafkaTypeInv, NEW i \in Instances, ForgetSession(i), NEW j \in Instances
  PROVE  /\ j = i => /\ session'[j] = 0 /\ claims'[j] = {}
                     /\ \A p \in Partitions : position'[j][p] = 0 /\ marks'[j][p] = 0
         /\ j # i => /\ session'[j] = session[j] /\ claims'[j] = claims[j]
                     /\ position'[j] = position[j] /\ marks'[j] = marks[j]
  BY DEF ForgetSession, KafkaTypeInv, ConsumerTypeOK

\* The end of a session, with its last commit or without.
LEMMA OffsetForget ==
  ASSUME OffsetInv, [Next]_vars, NEW i \in Instances, ForgetSession(i),
         CommitMarks(i) \/ committed' = committed, gen' = gen
  PROVE  OffsetInv'
<1>1. ASSUME NEW j \in Instances
      PROVE  /\ j = i => /\ session'[j] = 0 /\ claims'[j] = {}
                         /\ \A p \in Partitions : position'[j][p] = 0 /\ marks'[j][p] = 0
             /\ j # i => /\ session'[j] = session[j] /\ claims'[j] = claims[j]
                         /\ position'[j] = position[j] /\ marks'[j] = marks[j]
  BY ForgetEffect DEF OffsetInv
<1>2. ASSUME NEW j \in Instances, j # i, session[j] = gen, NEW p \in claims[j]
      PROVE  committed'[p] = committed[p]
  BY <1>2, OthersAhead
<1>3. SessionsAreGenerations'
  BY <1>1, Numbers DEF OffsetInv, SessionsAreGenerations
<1>4. ClaimsApart'
  BY <1>1 DEF OffsetInv, ClaimsApart
<1>5. TasksRead'
  <2> SUFFICES ASSUME NEW j \in Instances, NEW t \in Pending(j)'
               PROVE  TaskRead(j, t)'
    BY DEF TasksRead
  <2>1. t \in Pending(j) /\ TaskRead(j, t)
    BY <1>1, PendingKept, Numbers DEF OffsetInv, TasksRead
  <2>2. t \in Task /\ t.session # 0
    BY <2>1, PendingIsTask, Numbers DEF OffsetInv
  <2>3. CASE j = i
    BY <1>1, <2>1, <2>2, <2>3, TaskInLog DEF TaskRead
  <2>4. CASE j # i
    BY <1>1, <1>2, <2>1, <2>2, <2>4, TaskInLog DEF TaskRead
  <2>5. QED
    BY <2>3, <2>4
<1>6. MarksGood'
  <2> SUFFICES ASSUME NEW j \in Instances, NEW p \in Partitions, marks'[j][p] > 0
               PROVE  p \in claims'[j] /\ marks'[j][p] <= position'[j][p] /\ Good(p, marks[j][p])'
    BY DEF MarksGood
  <2>1. j # i /\ marks'[j][p] = marks[j][p]
    BY <1>1
  <2>2. p \in claims[j] /\ marks[j][p] <= position[j][p]
    BY <2>1 DEF OffsetInv, MarksGood
  <2>3. QED
    BY <1>1, <2>1, <2>2, MarkKept
<1>7. CommitsGood'
  BY CommitsGoodNext, CommitKept DEF CommitsGood
<1>8. CurrentAhead'
  <2> SUFFICES ASSUME NEW j \in Instances, NEW p \in claims'[j], session'[j] = gen
               PROVE  Ahead(j, p)'
    BY DEF CurrentAhead
  <2>1. j # i /\ session[j] = gen /\ p \in claims[j]
    BY <1>1
  <2>2. Ahead(j, p)
    BY <2>1 DEF OffsetInv, CurrentAhead
  <2>3. QED
    BY <1>1, <1>2, <2>1, <2>2 DEF Ahead
<1>9. PositionInLog'
  BY <1>1, PositionKept DEF PositionInLog
<1>10. QED
  BY <1>3, <1>4, <1>5, <1>6, <1>7, <1>8, <1>9, BaseNext DEF OffsetInv

\* A new generation reads on from what is committed.
LEMMA OffsetRebalance ==
  ASSUME OffsetInv, [Next]_vars, NEW members \in SUBSET Instances \ {{}},
         NEW assign \in [Partitions -> members], Rebalance(members, assign)
  PROVE  OffsetInv'
<1>1. ASSUME NEW j \in Instances
      PROVE  /\ j \in members => /\ session[j] = 0 /\ session'[j] = gen + 1
                                 /\ claims'[j] = Share(assign, j)
                                 /\ \A p \in Share(assign, j) : position'[j][p] = InitialOffset(p)
             /\ j \notin members => /\ session'[j] = session[j] /\ claims'[j] = claims[j]
                                    /\ position'[j] = position[j]
  BY DEF Rebalance, Share
<1>2. UNCHANGED <<log, committed, marks, pc, task, taskCh>> /\ gen' = gen + 1 /\ gen \in Nat
  BY Numbers DEF Rebalance, taskVars, workerVars, OffsetInv
<1>3. ASSUME NEW j \in Instances
      PROVE  session[j] \in Nat /\ session[j] <= gen
  BY Numbers DEF OffsetInv, SessionsAreGenerations
<1>4. ASSUME NEW j \in Instances, j \in members, NEW p \in Partitions
      PROVE  marks[j][p] = 0
  BY <1>1, <1>4 DEF OffsetInv, SessionsAreGenerations
<1>5. SessionsAreGenerations'
  BY <1>1, <1>2, <1>3 DEF OffsetInv, SessionsAreGenerations
<1>6. ClaimsApart'
  <2> SUFFICES ASSUME NEW i \in Instances, NEW j \in Instances, i # j, session'[i] # 0,
                      session'[i] = session'[j]
               PROVE  claims'[i] \cap claims'[j] = {}
    BY DEF ClaimsApart
  <2>1. CASE i \in members /\ j \in members
    BY <1>1, <2>1 DEF Share
  <2>2. CASE i \notin members /\ j \notin members
    BY <1>1, <2>2 DEF OffsetInv, ClaimsApart
  <2>3. CASE (i \in members) # (j \in members)
    BY <1>1, <1>2, <1>3, <2>3
  <2>4. QED
    BY <2>1, <2>2, <2>3
<1>7. TasksRead'
  <2> SUFFICES ASSUME NEW j \in Instances, NEW t \in Pending(j)'
               PROVE  TaskRead(j, t)'
    BY DEF TasksRead
  <2>1. t \in Pending(j) /\ TaskRead(j, t)
    BY <1>2 DEF Pending, Queued, Taken, Me, OffsetInv, TasksRead
  <2>2. t \in Task /\ t.session \in Nat /\ t.session <= gen
    BY <2>1, PendingIsTask, Numbers DEF OffsetInv, TaskRead
  <2>3. CASE j \in members
    BY <1>1, <1>2, <2>1, <2>2, <2>3, TaskInLog DEF TaskRead
  <2>4. CASE j \notin members
    BY <1>1, <1>2, <1>3, <2>1, <2>2, <2>4, TaskInLog DEF TaskRead
  <2>5. QED
    BY <2>3, <2>4
<1>8. MarksGood'
  <2> SUFFICES ASSUME NEW j \in Instances, NEW p \in Partitions, marks[j][p] > 0
               PROVE  p \in claims'[j] /\ marks[j][p] <= position'[j][p] /\ Good(p, marks[j][p])'
    BY <1>2 DEF MarksGood
  <2>1. j \notin members
    BY <1>4
  <2>2. QED
    BY <1>1, <1>2, <2>1, MarkKept DEF OffsetInv, MarksGood
<1>9. CommitsGood'
  BY <1>2, CommitKept DEF CommitsGood
<1>10. ASSUME NEW p \in Partitions
       PROVE  committed[p] <= InitialOffset(p) /\ InitialOffset(p) <= Len(log[p])
  BY Numbers DEF InitialOffset, OffsetInv, CommitsGood, Good
<1>11. CurrentAhead'
  <2> SUFFICES ASSUME NEW j \in Instances, NEW p \in claims'[j], session'[j] = gen + 1
               PROVE  Ahead(j, p)'
    BY <1>2 DEF CurrentAhead
  <2>1. j \in members
    BY <1>1, <1>2, <1>3
  <2>2. p \in Partitions /\ position'[j][p] = InitialOffset(p)
    BY <1>1, <2>1 DEF Share
  <2>3. QED
    BY <1>2, <1>4, <1>10, <2>1, <2>2 DEF Ahead
<1>12. PositionInLog'
  <2> SUFFICES ASSUME NEW j \in Instances, NEW p \in claims'[j]
               PROVE  position'[j][p] <= Len(log'[p])
    BY DEF PositionInLog
  <2>1. CASE j \in members
    BY <1>1, <1>2, <1>10, <2>1 DEF Share
  <2>2. CASE j \notin members
    BY <1>1, <2>2, PositionKept
  <2>3. QED
    BY <2>1, <2>2
<1>13. QED
  BY <1>5, <1>6, <1>7, <1>8, <1>9, <1>11, <1>12, BaseNext DEF OffsetInv

LEMMA ConsumeEffect ==
  ASSUME KafkaTypeInv, NEW i \in Instances, NEW q \in Partitions, ConsumeClaim(i, q)
  PROVE  /\ UNCHANGED <<log, committed, gen, session, claims, marks>>
         /\ q \in claims[i] /\ position[i][q] < Len(log[q])
         /\ \A j \in Instances, p \in Partitions :
               /\ position[j][p] \in Nat /\ position[j][p] <= position'[j][p]
               /\ j # i \/ p # q => position'[j][p] = position[j][p]
               /\ j = i /\ p = q => position'[j][p] = position[j][p] + 1
<1>1. /\ UNCHANGED <<log, committed, gen, session, claims, marks>>
      /\ q \in claims[i] /\ position[i][q] \in Nat /\ position[i][q] < Len(log[q])
      /\ position' = [position EXCEPT ![i][q] = position[i][q] + 1]
  BY Numbers DEF ConsumeClaim, brokerVars
<1>2. ASSUME NEW j \in Instances, NEW p \in Partitions
      PROVE  /\ position[j][p] \in Nat /\ position[j][p] <= position'[j][p]
             /\ j # i \/ p # q => position'[j][p] = position[j][p]
             /\ j = i /\ p = q => position'[j][p] = position[j][p] + 1
  <2>1. position \in [Instances -> [Partitions -> 0..MaxLog]]
    BY DEF KafkaTypeInv, ConsumerTypeOK
  <2>2. position[j][p] \in Nat
    BY Numbers
  <2>3. CASE j # i
    BY <1>1, <2>1, <2>2, <2>3
  <2>4. CASE j = i
    <3>1. position'[j] = [position[j] EXCEPT ![q] = position[j][q] + 1]
      BY <1>1, <2>1, <2>4
    <3>2. position[j] \in [Partitions -> 0..MaxLog]
      BY <2>1
    <3>3. QED
      BY <2>2, <2>4, <3>1, <3>2
  <2>5. QED
    BY <2>3, <2>4
<1>3. QED
  BY <1>1, <1>2

LEMMA OffsetConsume ==
  ASSUME OffsetInv, [Next]_vars, NEW i \in Instances, NEW q \in Partitions, ConsumeClaim(i, q)
  PROVE  OffsetInv'
<1>1. /\ UNCHANGED <<log, committed, gen, session, claims, marks>>
      /\ q \in claims[i] /\ position[i][q] < Len(log[q])
  BY ConsumeEffect DEF OffsetInv
<1>2. ASSUME NEW j \in Instances, NEW p \in Partitions
      PROVE  /\ position[j][p] \in Nat /\ position[j][p] <= position'[j][p]
             /\ position'[j][p] \in Nat
             /\ j # i \/ p # q => position'[j][p] = position[j][p]
             /\ j = i /\ p = q => position'[j][p] = position[j][p] + 1
  BY ConsumeEffect DEF OffsetInv
<1>3. SessionsAreGenerations' /\ ClaimsApart'
  BY <1>1 DEF OffsetInv, SessionsAreGenerations, ClaimsApart
<1>4. TasksRead'
  <2> SUFFICES ASSUME NEW j \in Instances, NEW t, t \in Pending(j)'
               PROVE  TaskRead(j, t)'
    BY DEF TasksRead
  <2>1. CASE t \in Pending(j)
    <3>1. TaskRead(j, t) /\ t.partition \in Partitions /\ t.offset \in Nat
      BY <2>1, PendingIsTask, Numbers DEF OffsetInv, TasksRead
    <3>2. /\ position[j][t.partition] \in Nat /\ position'[j][t.partition] \in Nat
          /\ position[j][t.partition] <= position'[j][t.partition]
      BY <1>2, <3>1
    <3>3. QED
      BY <1>1, <2>1, <3>1, <3>2, TaskInLog DEF TaskRead
  <2>2. ASSUME NEW p \in Partitions, ConsumeClaim(j, p), t = Read(j, p)
        PROVE  TaskRead(j, t)'
    <3>1. /\ t.partition = p /\ t.offset = position[j][p] /\ t.session = session[j]
          /\ t.msg = log[p][position[j][p] + 1]
      BY <2>2 DEF Read
    <3>2. p \in claims[j] /\ position[j][p] < Len(log[p])
      BY <2>2 DEF ConsumeClaim
    <3>3. position[j][p] < position'[j][p] /\ position[j][p] \in Nat
      BY <2>2, ConsumeEffect DEF OffsetInv
    <3>4. session[j] <= gen
      BY DEF OffsetInv, SessionsAreGenerations
    <3>5. session[j] = gen => committed[p] <= position[j][p]
      BY <3>2 DEF OffsetInv, CurrentAhead, Ahead
    <3>6. QED
      BY <1>1, <3>1, <3>2, <3>3, <3>4, <3>5 DEF TaskRead
  <2>3. QED
    BY <2>1, <2>2, PendingStep DEF OffsetInv
<1>5. MarksGood'
  <2> SUFFICES ASSUME NEW j \in Instances, NEW p \in Partitions, marks[j][p] > 0
               PROVE  p \in claims[j] /\ marks[j][p] <= position'[j][p] /\ Good(p, marks[j][p])'
    BY <1>1 DEF MarksGood
  <2>1. p \in claims[j] /\ marks[j][p] <= position[j][p]
    BY DEF OffsetInv, MarksGood
  <2>2. marks[j][p] <= position'[j][p]
    BY <1>2, <2>1, Numbers DEF OffsetInv
  <2>3. QED
    BY <1>1, <2>1, <2>2, MarkKept
<1>6. CommitsGood'
  BY <1>1, CommitKept DEF CommitsGood
<1>7. CurrentAhead'
  <2> SUFFICES ASSUME NEW j \in Instances, NEW p \in claims[j], session[j] = gen
               PROVE  Ahead(j, p)'
    BY <1>1 DEF CurrentAhead
  <2>1. Ahead(j, p) /\ p \in Partitions
    BY DEF OffsetInv, CurrentAhead, KafkaTypeInv, ConsumerTypeOK
  <2>2. QED
    BY <1>1, <1>2, <2>1, Numbers DEF Ahead, OffsetInv
<1>8. PositionInLog'
  <2> SUFFICES ASSUME NEW j \in Instances, NEW p \in claims[j]
               PROVE  position'[j][p] <= Len(log[p])
    BY <1>1 DEF PositionInLog
  <2>1. p \in Partitions /\ position[j][p] <= Len(log[p])
    BY <1>1, PositionKept
  <2>2. QED
    BY <1>1, <1>2, <2>1, Numbers DEF OffsetInv
<1>9. QED
  BY <1>3, <1>4, <1>5, <1>6, <1>7, <1>8, BaseNext DEF OffsetInv

\* What processMessage has reported as handled may be committed.
LEMMA FinishedIsGood ==
  ASSUME OffsetInv, NEW w \in Workers, Finish(w), MayMark(w)
  PROVE  /\ task[w] \in Pending(Me(w))
         /\ Good(task[w].partition, task[w].offset + 1)
<1>1. pc[w] = "ok" /\ event[w] \in Events /\ Published(event[w])
  BY DEF MayMark, OffsetInv, EffectInv, AcknowledgedIsPublished, TypeInv, HandlesEvent
<1>2. task[w] \in Pending(Me(w)) /\ event[w] = task[w].msg /\ task[w] \in Task
  BY <1>1 DEF Pending, Taken, OffsetInv, KafkaTypeInv, TaskInHand
<1>3. Me(w) \in Instances
  BY PayloadAssumption DEF Me
<1>4. TaskRead(Me(w), task[w])
  BY <1>2, <1>3 DEF OffsetInv, TasksRead
<1>5. task[w].offset + 1 <= Len(log[task[w].partition])
  BY <1>2, <1>4, Numbers DEF TaskRead, OffsetInv
<1>6. QED
  BY <1>1, <1>2, <1>4, <1>5, PayloadAssumption DEF TaskRead, Good

LEMMA OffsetFinish ==
  ASSUME OffsetInv, [Next]_vars, NEW w \in Workers, Finish(w)
  PROVE  OffsetInv'
<1> DEFINE i == Me(w)
           q == task[w].partition
           m == task[w].offset + 1
<1>1. UNCHANGED <<log, committed, gen, session, claims, position>>
  BY DEF Finish, brokerVars
<1>2. CASE marks' = marks
  BY <1>1, <1>2, OffsetQuiet DEF sessionVars
<1>3. CASE MayMark(w) /\ marks[i][q] < m /\ marks' = [marks EXCEPT ![i][q] = m]
  <2>1. task[w] \in Pending(i) /\ Good(q, m)
    BY <1>3, FinishedIsGood
  <2>2. i \in Instances
    BY PayloadAssumption DEF Me
  <2>3. q \in Partitions /\ m \in Nat \ {0} /\ m - 1 = task[w].offset
    <3>1. KafkaTypeInv
      BY DEF OffsetInv
    <3>2. task[w] \in Task
      BY <2>1, <2>2, <3>1, PendingIsTask
    <3>3. q \in Partitions /\ task[w].offset \in Nat
      BY <3>1, <3>2, Numbers
    <3>4. QED
      BY <3>3
  <2>4. TaskRead(i, task[w]) /\ session[i] = task[w].session
    BY <1>3, <2>1, <2>2 DEF OffsetInv, TasksRead, MayMark
  <2>5. q \in claims[i] /\ m <= position[i][q]
    BY <2>2, <2>3, <2>4, Numbers DEF TaskRead, OffsetInv
  <2>6. (session[i] = gen /\ marks[i][q] = 0) => committed[q] <= m
    BY <2>3, <2>4, Numbers DEF TaskRead, OffsetInv
  <2>7. ASSUME NEW j \in Instances, NEW p \in Partitions
        PROVE  /\ j # i \/ p # q => marks'[j][p] = marks[j][p]
               /\ j = i /\ p = q => marks'[j][p] = m
               /\ marks[j][p] \in Nat
               /\ marks'[j][p] = 0 => marks[j][p] = 0
    BY <1>3, <2>2, <2>3, Numbers DEF OffsetInv, KafkaTypeInv, ConsumerTypeOK
  <2>8. session[i] # 0
    BY <2>1, <2>2, <2>4, PendingIsTask, Numbers DEF OffsetInv
  <2>9. SessionsAreGenerations' /\ ClaimsApart'
    BY <1>1, <2>2, <2>7, <2>8 DEF OffsetInv, SessionsAreGenerations, ClaimsApart
  <2>10. TasksRead'
    <3> SUFFICES ASSUME NEW j \in Instances, NEW t \in Pending(j)'
                 PROVE  TaskRead(j, t)'
      BY DEF TasksRead
    <3>1. t \in Pending(j) /\ TaskRead(j, t)
      BY <1>1, PendingKept, Numbers DEF OffsetInv, TasksRead
    <3>2. t.partition \in Partitions
      BY <3>1, PendingIsTask, Numbers DEF OffsetInv
    <3>3. QED
      BY <1>1, <2>7, <3>1, <3>2, TaskInLog DEF TaskRead
  <2>11. MarksGood'
    <3>1. ASSUME NEW j \in Instances, NEW p \in Partitions, marks'[j][p] > 0
          PROVE  p \in claims[j] /\ marks'[j][p] <= position[j][p] /\ Good(p, marks'[j][p])
      <4>1. CASE j = i /\ p = q
        BY <2>1, <2>5, <2>7, <4>1
      <4>2. CASE j # i \/ p # q
        BY <2>7, <3>1, <4>2 DEF OffsetInv, MarksGood
      <4>3. QED
        BY <4>1, <4>2
    <3>2. ASSUME NEW j \in Instances, NEW p \in Partitions, marks'[j][p] > 0
          PROVE  Good(p, marks[j][p])'
      <4>1. PICK k \in Nat \ {0} : k = marks'[j][p]
        BY <2>3, <2>7, <3>2
      <4>2. Good(p, k)'
        BY <3>1, <3>2, <4>1, GoodNext DEF OffsetInv
      <4>3. QED
        BY <4>1, <4>2 DEF Good, Published
    <3>3. QED
      BY <1>1, <3>1, <3>2 DEF MarksGood
  <2>12. CommitsGood'
    BY <1>1, CommitKept DEF CommitsGood
  <2>13. CurrentAhead'
    <3> SUFFICES ASSUME NEW j \in Instances, NEW p \in claims[j], session[j] = gen
                 PROVE  Ahead(j, p)'
      BY <1>1 DEF CurrentAhead
    <3>1. Ahead(j, p) /\ p \in Partitions
      BY DEF OffsetInv, CurrentAhead, KafkaTypeInv, ConsumerTypeOK
    <3>2. CASE j = i /\ p = q
      BY <1>1, <1>3, <2>3, <2>6, <2>7, <3>1, <3>2, Numbers DEF Ahead, OffsetInv
    <3>3. CASE j # i \/ p # q
      BY <1>1, <2>7, <3>1, <3>3 DEF Ahead
    <3>4. QED
      BY <3>2, <3>3
  <2>14. PositionInLog'
    BY <1>1, PositionKept DEF PositionInLog
  <2>15. QED
    BY <2>9, <2>10, <2>11, <2>12, <2>13, <2>14, BaseNext DEF OffsetInv
<1>4. QED
  BY <1>2, <1>3, FinishEffect DEF OffsetInv

LEMMA OffsetNext == OffsetInv /\ [Next]_vars => OffsetInv'
<1> SUFFICES ASSUME OffsetInv, [Next]_vars PROVE OffsetInv'
  OBVIOUS
<1>1. ASSUME NEW i \in Instances, Cleanup(i)
      PROVE  OffsetInv'
  BY <1>1, OffsetForget DEF Cleanup
<1>2. ASSUME NEW i \in Instances, Die(i)
      PROVE  OffsetInv'
  BY <1>2, OffsetForget DEF Die, brokerVars
<1>3. CASE UNCHANGED <<committed, gen, sessionVars>>
  BY <1>3, OffsetQuiet
<1>4. QED
  BY <1>1, <1>2, <1>3, OffsetAutoCommit, OffsetRebalance, OffsetConsume, OffsetFinish
  DEF Next, Produce, Receive, Process, Shutdown, Restart, Time, vars, consumerVars, brokerVars

LEMMA OffsetInvariant == Spec => []OffsetInv
  BY OffsetInit, OffsetNext, PTL DEF Spec

-----------------------------------------------------------------------------
(* Theorems                                                                *)

\* The message whose offset was committed last is published, whatever
\* rebalances, zombie sessions, failures and crashes there were.
THEOREM CommittedCorrect == Spec => []CommittedIsPublished
<1>1. OffsetInv => CommittedIsPublished
  BY DEF OffsetInv, CommitsGood, Good, CommittedIsPublished
<1>2. QED
  BY OffsetInvariant, <1>1, PTL

\* A session marks only what it has itself read from its own partitions,
\* although its process still works on tasks of earlier sessions.
THEOREM MarkedCorrect == Spec => []MarkedInOwnClaim
<1>1. OffsetInv => MarkedInOwnClaim
  BY DEF OffsetInv, MarksGood, MarkedInOwnClaim
<1>2. QED
  BY OffsetInvariant, <1>1, PTL

\* No commit, however late and of whichever member, moves an offset back.
THEOREM CommitsCorrect == Spec => CommitsOnlyAdvance
<1>1. OffsetInv /\ [Next]_vars => [\A p \in Partitions : committed'[p] >= committed[p]]_vars
  <2> SUFFICES ASSUME OffsetInv, [Next]_vars, NEW p \in Partitions
               PROVE  committed'[p] >= committed[p]
    OBVIOUS
  <2>1. committed[p] \in Nat /\ committed'[p] \in Nat
    BY BaseNext, Numbers DEF OffsetInv, KafkaTypeInv, ConsumerTypeOK
  <2>2. ASSUME NEW i \in Instances, AutoCommit(i) \/ Cleanup(i)
        PROVE  committed'[p] >= committed[p]
    BY <2>1, <2>2, CommitEffect DEF AutoCommit, Cleanup
  <2>3. CASE committed' = committed
    BY <2>1, <2>3
  <2>4. QED
    BY <2>2, <2>3
    DEF Next, Produce, Rebalance, ConsumeClaim, Receive, Process, Finish, Shutdown, Die,
        Restart, Time, vars, consumerVars, brokerVars
<1>2. QED
  BY OffsetInvariant, <1>1, PTL DEF CommitsOnlyAdvance, Spec
=============================================================================
