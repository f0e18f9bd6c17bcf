---------------------------- MODULE Verification ----------------------------
(***************************************************************************)
(* The verification of an address from end to end: a gateway's sendcode    *)
(* hands the address to Kafka (KafkaProducer.h), email_srv stores a code   *)
(* in Redis and mails it (EmailService), and verifycode compares what the  *)
(* user enters with what is in Redis (AccountController.cc).               *)
(*                                                                         *)
(* Added to EmailService are the producer of one gateway, the topic, which  *)
(* is a log with the consumer's committed offset, the code that is under   *)
(* an address at each moment, and deaths: the gateway's, with what its     *)
(* producer holds, and that of email_srv, with the tasks in its memory,    *)
(* some of which the topic hands out again.  Two draws of gen_code never   *)
(* give the same code here.                                                *)
(***************************************************************************)
EXTENDS EmailService

CONSTANTS
    CodeTtl,    \* email.code_ttl_sec
    KafkaFails, \* may the producer and the broker fail?
    MaxCrashes  \* bound: crashes of email_srv

ASSUME CodeAssumption == Codes \subseteq Nat /\ CodeTtl \in Nat /\ KafkaFails \in BOOLEAN
ASSUME CrashAssumption == MaxCrashes \in Nat

VARIABLES
    outbox,     \* the message in the queue of the producer
    topic,      \* the log; email_srv has received the first "received" of it
    committed,  \* the offset committed for the consumer group, 0 if none
    origin,     \* where the consumer began
    key,        \* the code under the key <email> ...
    until,      \* ... and when it expires
    crashes,
    (* History, for the properties. *)
    lastMail,   \* the code in the last mail that reached an address
    waiting,    \* addresses told that a code is sent, and no worker took yet
    disturbed   \* addresses with a job that was slow, failed or broke off,
                \* and none that went well since

kafkaVars == <<outbox, topic, committed, origin>>
keyVars == <<key, until>>
historyVars == <<lastMail, waiting, disturbed>>
allVars == <<vars, kafkaVars, keyVars, crashes, historyVars>>

VInit ==
    /\ Init
    /\ outbox = None /\ topic = <<>> /\ committed = 0 /\ origin = 0
    /\ key = [e \in Emails |-> None]
    /\ until = [e \in Emails |-> 0]
    /\ crashes = 0
    /\ lastMail = [e \in Emails |-> None]
    /\ waiting = {} /\ disturbed = {}

-----------------------------------------------------------------------------
(* The gateway *)

\* Mutant: the result of init and send is not looked at.
SendCode_IgnoreError(e) ==
    /\ Len(topic) < MaxTasks
    /\ outbox' \in {e} \cup (IF KafkaFails THEN {None, outbox} ELSE {})
    /\ waiting' = (waiting \ {outbox}) \cup {e}
    /\ UNCHANGED <<vars, topic, committed, origin, keyVars, crashes, lastMail, disturbed>>

\* sendcode: init builds a new producer and destroys the one before with what
\* it has not transmitted; then the address is queued.  If the configuration
\* is refused, the old producer stays; if the new one cannot be created or
\* does not take the message, there is nothing to transmit.
SendCode(e) ==
    /\ Len(topic) < MaxTasks
    /\ \/ outbox' = e /\ waiting' = (waiting \ {outbox}) \cup {e}
       \/ KafkaFails /\ UNCHANGED <<outbox, waiting>>
       \/ KafkaFails /\ outbox' = None /\ waiting' = waiting \ {outbox}
    /\ UNCHANGED <<vars, topic, committed, origin, keyVars, crashes, lastMail, disturbed>>

\* The producer's thread transmits the message; a retry may store it twice.
\* When it gives up, dr_cb prints a line, whether the message was stored or not.
Transmit ==
    /\ outbox # None
    /\ outbox' = None
    /\ \/ topic' = Append(topic, outbox) /\ UNCHANGED waiting
       \/ /\ KafkaFails /\ Len(topic) + 2 <= MaxTasks
          /\ topic' = topic \o <<outbox, outbox>> /\ UNCHANGED waiting
       \/ KafkaFails /\ waiting' = waiting \ {outbox} /\ UNCHANGED topic
    /\ UNCHANGED <<vars, committed, origin, keyVars, crashes, lastMail, disturbed>>

\* The gateway dies and is started again.
GatewayDies ==
    /\ outbox # None
    /\ outbox' = None
    /\ waiting' = waiting \ {outbox}
    /\ UNCHANGED <<vars, topic, committed, origin, keyVars, crashes, lastMail, disturbed>>

\* verifycode: what GET <email> returns is compared with the code entered; the
\* key stays.
VerifyCode(e, k) ==
    IF key[e] = None \/ clock >= until[e] THEN "absent"
    ELSE IF key[e] = k THEN "matched" ELSE "mismatched"

-----------------------------------------------------------------------------
(* email_srv *)

\* The consumer receives the next message.
Receive ==
    /\ received < Len(topic)
    /\ Enqueue(topic[received + 1])
    /\ UNCHANGED <<kafkaVars, keyVars, crashes, historyVars>>

\* The offset to commit: what was received, as soon as something was.
Stored == IF received > origin THEN received ELSE committed

\* Every few seconds the consumer commits, whatever became of the tasks.
Commit ==
    /\ main # "exited" /\ ~stop
    /\ committed' = Stored
    /\ UNCHANGED <<vars, outbox, topic, origin, keyVars, crashes, historyVars>>

\* The consumer is closed, with a last commit, before EmailService is destroyed.
Close ==
    /\ SetStop
    /\ committed' \in {Stored} \cup (IF KafkaFails THEN {committed} ELSE {})
    /\ UNCHANGED <<outbox, topic, origin, keyVars, crashes, historyVars>>

Queued == {tasks[i] : i \in DOMAIN tasks}

\* The messages after a position.
Unread(n) == {topic[i] : i \in n + 1..Len(topic)}

Leave ==
    /\ Join
    /\ waiting' = waiting \ Queued
    /\ UNCHANGED <<kafkaVars, keyVars, crashes, lastMail, disturbed>>

\* A worker takes a task.
Take(w) ==
    /\ Check(w)
    /\ waiting' = waiting \ {task'[w]}
    /\ UNCHANGED <<kafkaVars, keyVars, crashes, lastMail, disturbed>>

\* gen_code draws a code that was never stored; Codes bounds how many draws.
Unused == {k \in Codes : \A e \in Emails : <<e, k>> \notin stored \cup rejected}

Fresh == CHOOSE k \in Unused : TRUE

\* SET <email> code EX ttl.
SetKey(e, k) ==
    /\ key' = [key EXCEPT ![e] = k]
    /\ until' = [until EXCEPT ![e] = clock + CodeTtl]

\* No other worker serves the address of w, and w is within its time.
Alone(w) ==
    /\ since[w] + DedupTtl > clock
    /\ \A v \in Workers \ {w} : ~(Serving(v) /\ task[v] = task[w])

\* A code that is stored and not to be mailed, or to be mailed and not stored,
\* disturbs the address; one that is both may put it right.
StoreCode(w) ==
    /\ Unused # {}
    /\ Store(w)
    /\ stored' \cup rejected' \subseteq stored \cup rejected \cup {<<task[w], Fresh>>}
    /\ code'[w] \in {None, Fresh}
    /\ IF stored' # stored THEN SetKey(task[w], Fresh) ELSE UNCHANGED keyVars
    /\ disturbed' =
         IF (stored' # stored) # (code'[w] # None) THEN disturbed \cup {task[w]}
         ELSE IF code'[w] # None /\ Alone(w) THEN disturbed \ {task[w]}
         ELSE disturbed
    /\ UNCHANGED <<kafkaVars, crashes, lastMail, waiting>>

SendMail(w) ==
    /\ Send(w)
    /\ IF mails' # mails
       THEN lastMail' = [lastMail EXCEPT ![task[w]] = code[w]] /\ UNCHANGED disturbed
       ELSE disturbed' = disturbed \cup {task[w]} /\ UNCHANGED lastMail
    /\ UNCHANGED <<kafkaVars, keyVars, crashes, waiting>>

\* A job that takes as long as the dedup key lives can meet the next one.
VTick ==
    /\ Tick
    /\ disturbed' = disturbed \cup
         {task[w] : w \in {v \in Workers : Serving(v) /\ since[v] + DedupTtl <= clock'}}
    /\ UNCHANGED <<kafkaVars, keyVars, crashes, lastMail, waiting>>

\* email_srv dies and starts again, where it has committed or, without any
\* commit, at the end of the topic (auto.offset.reset).
Restart ==
    /\ crashes < MaxCrashes
    /\ crashes' = crashes + 1
    /\ running' = TRUE /\ main' = "poll" /\ stop' = FALSE
    /\ tasks' = <<>>
    /\ received' = IF committed = 0 THEN Len(topic) ELSE committed
    /\ origin' = received'
    /\ pc' = [w \in Workers |-> "idle"]
    /\ task' = [w \in Workers |-> None]
    /\ conn' = [w \in Workers |-> None]
    /\ code' = [w \in Workers |-> None]
    /\ since' = [w \in Workers |-> 0]
    /\ pool' = Conns /\ broken' = {}
    /\ waiting' = IF committed = 0 THEN waiting \cap {outbox}
                  ELSE waiting \ (Queued \ Unread(committed))
    /\ disturbed' = disturbed \cup {task[w] : w \in {v \in Workers : Serving(v)}}
    /\ UNCHANGED <<redisVars, mails, clock, outbox, topic, committed, keyVars, lastMail>>

Other(w) ==
    /\ Block(w) \/ Get(w) \/ Dedup(w) \/ Put(w)
    /\ UNCHANGED <<kafkaVars, keyVars, crashes, historyVars>>

Work(w) == Take(w) \/ StoreCode(w) \/ SendMail(w) \/ Other(w)

VMain ==
    \/ Close \/ Leave
    \/ (NotifyTask \/ NotifyAll) /\ UNCHANGED <<kafkaVars, keyVars, crashes, historyVars>>

VNext ==
    \/ \E e \in Emails : SendCode(e)
    \/ Transmit \/ GatewayDies \/ Receive \/ Commit \/ VTick \/ Restart \/ VMain
    \/ (Signal \/ \E w \in Workers : SpuriousWake(w))
       /\ UNCHANGED <<kafkaVars, keyVars, crashes, historyVars>>
    \/ \E w \in Workers : Work(w)

VSpec == VInit /\ [][VNext]_allVars

\* The threads of EmailService and of librdkafka are scheduled, commands return
\* and Kafka answers; the main thread gets mtx_ in the end, although workers
\* that wake up for no reason may take it again and again.
VFairSpec ==
    /\ VSpec
    /\ WF_allVars(Transmit) /\ SF_allVars(Receive) /\ WF_allVars(VMain)
    /\ \A w \in Workers : WF_allVars(Work(w))

-----------------------------------------------------------------------------
(* Properties *)

VTypeOK ==
    /\ outbox \in Emails \cup {None} /\ topic \in Seq(Emails)
    /\ received \in 0..Len(topic) /\ Len(topic) <= MaxTasks
    /\ committed \in 0..received /\ origin \in 0..received
    /\ key \in [Emails -> Codes \cup {None}] /\ until \in [Emails -> Nat]
    /\ crashes \in 0..MaxCrashes
    /\ lastMail \in [Emails -> Codes \cup {None}]
    /\ waiting \subseteq Emails /\ disturbed \subseteq Emails

\* "code send successfully": what was acknowledged is on its way to a worker,
\* unless it was in the producer when that was re-created by a later request,
\* given up by Kafka or lost with its gateway, or in the memory of email_srv
\* when that ended or crashed after a commit, or came before its first commit.
AcknowledgedIsUnderWay ==
    \A e \in waiting : e = outbox \/ e \in Unread(received) \/ e \in Queued

\* The code in the last mail is the one that verifycode accepts, until it
\* expires.  A job that is slow or fails half way, an error reply and a crash
\* may break that for an address; the next job that goes well puts it right.
LastMailIsAccepted ==
    \A e \in Emails \ disturbed :
        (lastMail[e] # None /\ clock < until[e]
           /\ \A w \in Workers : ~(Serving(w) /\ task[w] = e)) =>
                VerifyCode(e, lastMail[e]) = "matched"

\* A connection that was taken off the pool and could not be replaced.
Shrunk == \E c \in Conns : c \notin pool /\ \A w \in Workers : conn[w] # c

\* What is on its way reaches a worker: no wake-up is lost between the topic
\* and the queue, and no task waits for ever while workers sleep.  A signal
\* ends that, and so can the loss of connections, one for each reconnection
\* that fails: without any, every worker waits in RedisPool::get.
AcknowledgedIsTaken ==
    \A e \in Emails : []<>(e \notin waiting \/ ~running \/ Shrunk)
=============================================================================
