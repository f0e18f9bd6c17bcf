------------------------ MODULE Verification_proofs ------------------------
(***************************************************************************)
(* Proofs about Verification, for any numbers of addresses, workers,       *)
(* connections, messages and crashes.  A step is one of EmailService or a  *)
(* crash of email_srv, so that what is proved of EmailService holds of the *)
(* whole as soon as a crash preserves it; the rest is about what the       *)
(* gateway told the user and about the code under the key.                 *)
(***************************************************************************)
EXTENDS Verification, EmailService_proofs, SequenceTheorems

-----------------------------------------------------------------------------
(* Types.  A message is counted from the moment it is in the outbox.        *)

Held == IF outbox = None THEN 0 ELSE 1

VTypeInv ==
    /\ TypeInv /\ VTypeOK
    /\ Len(topic) + Held <= MaxTasks

-----------------------------------------------------------------------------
(* The code under the key                                                   *)

\* A job for an undisturbed address is shorter than the dedup key lives.
Timely ==
    \A w \in Workers :
        (Serving(w) /\ task[w] \notin disturbed) => clock < since[w] + DedupTtl

Mails(w, e) == code[w] # None /\ task[w] = e

\* The code that a job is going to mail is under the key ...
KeyOfJob ==
    \A w \in Workers : \A e \in Emails \ disturbed : Mails(w, e) => key[e] = code[w]

\* ... and if no job is going to mail one, the code of the last mail is.
KeyOfMail ==
    \A e \in Emails \ disturbed :
        (lastMail[e] # None /\ \A w \in Workers : ~Mails(w, e)) => key[e] = lastMail[e]

KeyInv ==
    /\ VTypeInv /\ DedupInv
    /\ Timely /\ KeyOfJob /\ KeyOfMail

-----------------------------------------------------------------------------
(* A step of EmailService, or a crash                                       *)

LEMMA ServiceStep ==
  ASSUME VTypeOK, [VNext]_allVars
  PROVE  [Next]_vars \/ Restart
<1>1. ASSUME NEW e \in Emails, SendCode(e) PROVE UNCHANGED vars
  BY <1>1 DEF SendCode
<1>2. CASE Transmit \/ GatewayDies \/ Commit
  BY <1>2 DEF Transmit, GatewayDies, Commit
<1>3. CASE Receive
  <2>1. topic[received + 1] \in Emails
    BY <1>3 DEF Receive, VTypeOK
  <2>2. QED
    BY <1>3, <2>1 DEF Receive, Next
<1>4. ASSUME NEW w \in Workers, Work(w) PROVE Next
  BY <1>4 DEF Work, Take, StoreCode, SendMail, Other, Next, WorkerStep
<1>5. CASE UNCHANGED allVars
  BY <1>5 DEF allVars
<1>6. QED
  BY <1>1, <1>2, <1>3, <1>4, <1>5 DEF VNext, VTick, VMain, Close, Leave, Next, MainStep

\* email_srv as a crash leaves it.
LEMMA AfterCrash ==
  ASSUME TypeInv, VTypeOK, Restart
  PROVE  /\ main' = "poll" /\ stop' = FALSE /\ tasks' = <<>>
         /\ pool' = Conns /\ broken' = {}
         /\ \A w \in Workers :
               /\ pc'[w] = "idle" /\ task'[w] = None
               /\ conn'[w] = None /\ code'[w] = None
         /\ UNCHANGED <<dedup, stored, rejected, mails, clock>>
         /\ TypeInv'
<1>1. /\ running' = TRUE /\ main' = "poll" /\ stop' = FALSE /\ tasks' = <<>>
      /\ pc' = [w \in Workers |-> "idle"]
      /\ task' = [w \in Workers |-> None]
      /\ conn' = [w \in Workers |-> None]
      /\ code' = [w \in Workers |-> None]
      /\ since' = [w \in Workers |-> 0]
      /\ pool' = Conns /\ broken' = {}
      /\ UNCHANGED <<dedup, stored, rejected, mails, clock>>
  BY DEF Restart, redisVars
<1>2. tasks' \in Seq(Emails)
  BY <1>1
<1>3. TypeOK'
  <2>1. received' \in 0..MaxTasks
    BY BoundAssumption DEF Restart, VTypeOK
  <2>2. QED
    BY <1>1, <1>2, <2>1 DEF TypeInv, TypeOK, Statements
<1>4. HandlesTask' /\ HoldsConn' /\ HoldsCode'
  BY <1>1 DEF HandlesTask, HoldsConn, HoldsCode
<1>5. QED
  BY <1>1, <1>3, <1>4 DEF TypeInv

\* What is proved of the threads, the pool, the wake-ups and the dedup key
\* in EmailService survives a crash.
LEMMA CrashKeeps ==
  ASSUME TypeInv, VTypeOK, Restart
  PROVE  /\ PoolInv' /\ WakeInv' /\ DedupInv'
         /\ MailInv => MailInv'
<1>1. PoolInv'
  BY AfterCrash DEF PoolInv, PoolExclusion, NoConnectionLeaks
<1>2. WakeInv'
  <2>1. ~(\E w \in Workers : Asleep(w))'
    BY AfterCrash DEF Asleep
  <2>2. QED
    BY <2>1, AfterCrash DEF WakeInv, CheckedIsEmpty, StopIsLate, EnoughIdle
<1>3. DedupInv'
  BY AfterCrash DEF DedupInv, Permitted, DedupExclusion, Serving
<1>4. MailInv => MailInv'
  BY AfterCrash DEF MailInv, CodeIsKnown, MailedIsStoredOrRejected, Known
<1>5. QED
  BY <1>1, <1>2, <1>3, <1>4

ServiceInv == PoolInv /\ WakeInv /\ DedupInv

LEMMA ServiceInit == VInit => ServiceInv
  BY PoolInit, WakeInit, DedupInit DEF VInit, ServiceInv

LEMMA ServiceNext == ServiceInv /\ VTypeOK /\ [VNext]_allVars => ServiceInv'
<1>1. TypeInv /\ VTypeOK => (Restart => ServiceInv')
  BY CrashKeeps DEF ServiceInv
<1>2. QED
  BY <1>1, ServiceStep, PoolNext, WakeNext, DedupNext DEF ServiceInv, PoolInv

-----------------------------------------------------------------------------
(* Types of the whole                                                       *)

LEMMA VTypeInit == VInit => VTypeInv
<1> SUFFICES ASSUME VInit PROVE VTypeInv
  OBVIOUS
<1>1. TypeInv
  BY TypeInit DEF VInit
<1>2. /\ received = 0 /\ committed = 0 /\ origin = 0
      /\ topic = <<>> /\ topic \in Seq(Emails) /\ Len(topic) = 0
  BY DEF VInit, Init
<1>3. VTypeOK
  BY <1>2, BoundAssumption, CrashAssumption DEF VInit, VTypeOK
<1>4. QED
  BY <1>1, <1>2, <1>3, BoundAssumption DEF VTypeInv, Held, VInit

\* A step of a worker touches neither the producer nor the topic.
LEMMA WorkFrame ==
  ASSUME NEW w \in Workers, Work(w)
  PROVE  UNCHANGED <<received, kafkaVars, crashes>>
  BY DEF Work, Take, StoreCode, SendMail, Other, Check, Block, Get, Dedup, Store, Put, Send,
         queueVars

LEMMA FreshIsUnused ==
  ASSUME Unused # {}
  PROVE  Fresh \in Codes /\ \A e \in Emails : <<e, Fresh>> \notin stored \cup rejected
<1>1. Fresh \in Unused
  BY DEF Fresh
<1>2. QED
  BY <1>1 DEF Unused

\* What a step of a worker does to the key, the mails and the history.
LEMMA WorkEffect ==
  ASSUME TypeInv, VTypeOK, NEW w \in Workers, Work(w)
  PROVE  /\ key' \in [Emails -> Codes \cup {None}] /\ until' \in [Emails -> Nat]
         /\ lastMail' \in [Emails -> Codes \cup {None}]
         /\ waiting' \subseteq waiting /\ disturbed' \subseteq Emails
<1> USE DEF VTypeOK, kafkaVars, keyVars, historyVars
<1>1. CASE Take(w)
  BY <1>1 DEF Take
<1>2. CASE Other(w)
  BY <1>2 DEF Other
<1>3. CASE StoreCode(w)
  <2>1. Fresh \in Codes /\ pc[w] = "store"
    BY <1>3, FreshIsUnused DEF StoreCode, Store
  <2>2. task[w] \in Emails /\ clock + CodeTtl \in Nat
    BY <2>1, CodeAssumption, BoundAssumption DEF TypeInv, TypeOK, HandlesTask
  <2>3. QED
    BY ZenonT(60), <1>3, <2>1, <2>2 DEF StoreCode, SetKey
<1>4. CASE SendMail(w)
  <2>1. pc[w] = "send"
    BY <1>4 DEF SendMail, Send
  <2>2. task[w] \in Emails /\ code[w] \in Codes
    BY <2>1 DEF TypeInv, TypeOK, HandlesTask, HoldsCode
  <2>3. QED
    BY <1>4, <2>2 DEF SendMail
<1>5. QED
  BY <1>1, <1>2, <1>3, <1>4 DEF Work

LEMMA ServingAreEmails ==
  ASSUME TypeInv, NEW S \in SUBSET Workers, \A w \in S : Serving(w)
  PROVE  {task[w] : w \in S} \subseteq Emails
  BY ServingHasTask

LEMMA VTypeNext == VTypeInv /\ [VNext]_allVars => VTypeInv'
<1> SUFFICES ASSUME VTypeInv, [VNext]_allVars PROVE VTypeInv'
  OBVIOUS
<1>1. TypeInv /\ VTypeOK /\ TypeInv'
  BY ServiceStep, TypeNext, AfterCrash DEF VTypeInv
<1>2. /\ received \in Nat /\ topic \in Seq(Emails) /\ Len(topic) \in Nat
      /\ received <= Len(topic) /\ committed \in 0..received /\ origin \in 0..received
      /\ Held \in {0, 1} /\ Len(topic) + Held <= MaxTasks
      /\ outbox \in Emails \cup {None} /\ waiting \subseteq Emails
      /\ None \notin Emails /\ MaxTasks \in Nat /\ Stored \in 0..received
  BY <1>1, NoneAssumption, BoundAssumption DEF VTypeInv, VTypeOK, TypeInv, TypeOK, Held, Stored
<1> USE DEF kafkaVars, keyVars, historyVars, queueVars, mainVars
<1>3. ASSUME NEW e \in Emails, SendCode(e) PROVE VTypeInv'
  <2>1. /\ UNCHANGED <<topic, received, committed, origin, key, until, crashes, lastMail, disturbed>>
        /\ Len(topic) < MaxTasks
        /\ outbox' \in {e, outbox, None} /\ waiting' \subseteq waiting \cup {e}
    BY <1>3 DEF SendCode, vars
  <2>2. VTypeOK'
    BY <1>1, <1>2, <2>1 DEF VTypeOK
  <2>3. QED
    BY <1>1, <1>2, <2>1, <2>2 DEF VTypeInv, Held
<1>4. CASE Transmit
  <2>1. /\ outbox \in Emails /\ outbox' = None /\ waiting' \subseteq waiting
        /\ UNCHANGED <<received, committed, origin, key, until, crashes, lastMail, disturbed>>
    BY <1>2, <1>4 DEF Transmit, vars
  <2>2. topic' \in Seq(Emails) /\ Len(topic') \in Len(topic)..MaxTasks
    <3>1. CASE topic' = Append(topic, outbox)
      BY <1>2, <2>1, <3>1 DEF Held
    <3>2. CASE Len(topic) + 2 <= MaxTasks /\ topic' = topic \o <<outbox, outbox>>
      <4>1. <<outbox, outbox>> \in Seq(Emails) /\ Len(<<outbox, outbox>>) = 2
        BY <2>1
      <4>2. QED
        BY <1>2, <3>2, <4>1
    <3>3. CASE topic' = topic
      BY <1>2, <3>3
    <3>4. QED
      BY <1>4, <3>1, <3>2, <3>3 DEF Transmit
  <2>3. Held' = 0
    BY <2>1 DEF Held
  <2>4. QED
    BY <1>1, <1>2, <2>1, <2>2, <2>3 DEF VTypeInv, VTypeOK
<1>5. CASE GatewayDies
  <2>1. /\ UNCHANGED <<topic, received, committed, origin, key, until, crashes, lastMail, disturbed>>
        /\ outbox' = None /\ waiting' \subseteq waiting
    BY <1>5 DEF GatewayDies, vars
  <2>2. QED
    BY <1>1, <1>2, <2>1 DEF VTypeInv, VTypeOK, Held
<1>6. CASE Receive
  <2>1. /\ received < Len(topic) /\ received' = received + 1
        /\ UNCHANGED <<outbox, topic, committed, origin, key, until, crashes, lastMail, waiting, disturbed>>
    BY <1>6 DEF Receive, Enqueue
  <2>2. QED
    BY <1>1, <1>2, <2>1 DEF VTypeInv, VTypeOK, Held
<1>7. CASE Commit \/ Close
  <2>1. /\ UNCHANGED <<outbox, topic, received, origin, key, until, crashes, lastMail, waiting, disturbed>>
        /\ committed' \in {Stored, committed}
    BY <1>7 DEF Commit, Close, SetStop, vars
  <2>2. QED
    BY <1>1, <1>2, <2>1 DEF VTypeInv, VTypeOK, Held
<1>8. CASE VTick
  <2>1. /\ UNCHANGED <<outbox, topic, received, committed, origin, key, until, crashes, lastMail, waiting>>
        /\ disturbed' \subseteq Emails
    BY <1>1, <1>8, ServingHasTask DEF VTick, Tick, VTypeOK
  <2>2. QED
    BY <1>1, <1>2, <2>1 DEF VTypeInv, VTypeOK, Held
<1>9. CASE Restart
  <2>1. /\ UNCHANGED <<outbox, topic, committed, key, until, lastMail>>
        /\ received' = IF committed = 0 THEN Len(topic) ELSE committed
        /\ origin' = received'
        /\ crashes < MaxCrashes /\ crashes' = crashes + 1
        /\ waiting' \subseteq Emails /\ disturbed' \subseteq Emails
    BY <1>1, <1>9, ServingHasTask DEF Restart, VTypeOK
  <2>2. crashes' \in 0..MaxCrashes
    BY <1>1, <2>1, CrashAssumption DEF VTypeOK
  <2>3. received' \in 0..Len(topic) /\ committed \in 0..received'
    BY <1>2, <2>1
  <2>4. QED
    BY <1>1, <1>2, <2>1, <2>2, <2>3 DEF VTypeInv, VTypeOK, Held
<1>10. CASE \/ Leave \/ UNCHANGED allVars
            \/ /\ NotifyTask \/ NotifyAll \/ Signal \/ \E w \in Workers : SpuriousWake(w)
               /\ UNCHANGED <<kafkaVars, keyVars, crashes, historyVars>>
  <2>1. /\ UNCHANGED <<outbox, topic, received, committed, origin, key, until, crashes, lastMail, disturbed>>
        /\ waiting' \subseteq waiting
    BY <1>10 DEF Leave, NotifyTask, NotifyAll, Join, Signal, SpuriousWake, allVars, vars
  <2>2. QED
    BY <1>1, <1>2, <2>1 DEF VTypeInv, VTypeOK, Held
<1>11. ASSUME NEW w \in Workers, Work(w) PROVE VTypeInv'
  <2>1. UNCHANGED <<outbox, topic, received, committed, origin, crashes>>
    BY <1>11, WorkFrame
  <2>2. QED
    BY <1>1, <1>2, <1>11, <2>1, WorkEffect DEF VTypeInv, VTypeOK, Held
<1>12. QED
  BY <1>3, <1>4, <1>5, <1>6, <1>7, <1>8, <1>9, <1>10, <1>11 DEF VNext, VMain

\* The producer, the topic, the key and the history keep their types.
THEOREM VTypeCorrect == VSpec => []VTypeOK
<1>1. VTypeInv => VTypeOK
  BY DEF VTypeInv
<1>2. QED
  BY VTypeInit, VTypeNext, <1>1, PTL DEF VSpec

LEMMA ServiceInvariant == VSpec => [](ServiceInv /\ VTypeInv)
<1>1. VTypeInv => VTypeOK
  BY DEF VTypeInv
<1>2. QED
  BY ServiceInit, VTypeInit, ServiceNext, VTypeNext, <1>1, PTL DEF VSpec

\* The two mutexes, the pool and the dedup key do their work in the whole too,
\* however often email_srv dies in the middle.
THEOREM ServiceCorrect ==
  VSpec => [](PoolExclusion /\ NoConnectionLeaks /\ NoSleeperIsMissed /\ DedupExclusion)
<1>1. ServiceInv => PoolExclusion /\ NoConnectionLeaks /\ DedupExclusion
  BY DEF ServiceInv, PoolInv, DedupInv
<1>2. ServiceInv => NoSleeperIsMissed
  BY IdleIsFinite DEF ServiceInv, WakeInv, EnoughIdle, NoSleeperIsMissed, Notifying
<1>3. QED
  BY ServiceInvariant, <1>1, <1>2, PTL

\* A code that was mailed had been stored or refused with an error reply,
\* although a crash may come between the two and tasks are handed out again.
THEOREM MailsCorrect == VSpec => []MailedIsStoredOrRejected
<1>1. VInit => MailInv
  BY MailInit DEF VInit
<1>2. TypeInv /\ VTypeOK => (MailInv /\ Restart => MailInv')
  BY CrashKeeps
<1>3. MailInv /\ VTypeOK /\ [VNext]_allVars => MailInv'
  BY <1>2, ServiceStep, MailNext DEF MailInv
<1>4. VTypeInv => VTypeOK
  BY DEF VTypeInv
<1>5. MailInv => MailedIsStoredOrRejected
  BY DEF MailInv
<1>6. QED
  BY ServiceInvariant, <1>1, <1>3, <1>4, <1>5, PTL DEF VSpec

-----------------------------------------------------------------------------
(* Acknowledged requests                                                    *)

Occurs(e, s) == \E i \in DOMAIN s : s[i] = e

LEMMA OccursAppend ==
  ASSUME NEW S, NEW s \in Seq(S), NEW d \in S
  PROVE  /\ Occurs(d, Append(s, d))
         /\ \A e : Occurs(e, s) => Occurs(e, Append(s, d))
<1>1. /\ Len(s) \in Nat /\ DOMAIN s = 1..Len(s)
      /\ DOMAIN Append(s, d) = 1..(Len(s) + 1)
      /\ \A i \in 1..Len(s) : Append(s, d)[i] = s[i]
      /\ Append(s, d)[Len(s) + 1] = d
  OBVIOUS
<1>2. Len(s) + 1 \in DOMAIN Append(s, d) /\ DOMAIN s \subseteq DOMAIN Append(s, d)
  BY <1>1
<1>3. QED
  BY <1>1, <1>2 DEF Occurs

LEMMA OccursTail ==
  ASSUME NEW S, NEW s \in Seq(S), s # <<>>, NEW e, e # Head(s), Occurs(e, s)
  PROVE  Occurs(e, Tail(s))
<1>1. PICK i \in DOMAIN s : s[i] = e
  BY DEF Occurs
<1>2. /\ Len(s) \in Nat /\ i \in 1..Len(s) /\ i # 1
      /\ DOMAIN Tail(s) = 1..(Len(s) - 1)
      /\ \A j \in 1..(Len(s) - 1) : Tail(s)[j] = s[j + 1]
  BY <1>1
<1>3. i - 1 \in DOMAIN Tail(s) /\ Tail(s)[i - 1] = s[i]
  BY <1>2
<1>4. QED
  BY <1>1, <1>3 DEF Occurs

\* What the consumer has yet to read of a log.
After(s, n) == {s[i] : i \in n + 1..Len(s)}

LEMMA AfterGrows ==
  ASSUME NEW S, NEW s \in Seq(S), NEW t \in Seq(S), NEW n \in 0..Len(s),
         Len(t) > Len(s), \A i \in 1..Len(s) : t[i] = s[i]
  PROVE  After(s, n) \cup {t[Len(s) + 1]} \subseteq After(t, n)
<1>1. Len(s) \in Nat /\ Len(t) \in Nat /\ Len(s) + 1 \in n + 1..Len(t)
  OBVIOUS
<1>2. \A i \in n + 1..Len(s) : i \in n + 1..Len(t) /\ t[i] = s[i]
  BY <1>1
<1>3. QED
  BY <1>1, <1>2 DEF After

LEMMA AfterShrinks ==
  ASSUME NEW S, NEW s \in Seq(S), NEW n \in 0..Len(s), NEW m \in 0..n
  PROVE  /\ After(s, n) \subseteq After(s, m)
         /\ n < Len(s) => After(s, n) \subseteq {s[n + 1]} \cup After(s, n + 1)
<1>1. Len(s) \in Nat
  OBVIOUS
<1>2. \A i \in n + 1..Len(s) : i \in m + 1..Len(s)
  BY <1>1
<1>3. \A i \in n + 1..Len(s) : i = n + 1 \/ i \in n + 1 + 1..Len(s)
  BY <1>1
<1>4. After(s, n) \subseteq After(s, m)
  BY <1>2 DEF After
<1>5. After(s, n) \subseteq {s[n + 1]} \cup After(s, n + 1)
  BY <1>3 DEF After
<1>6. QED
  BY <1>4, <1>5

UnderWay(e) == outbox = e \/ e \in After(topic, received) \/ Occurs(e, tasks)

LEMMA UnderWayMeans ==
  AcknowledgedIsUnderWay <=> \A e \in waiting : UnderWay(e)
  BY DEF AcknowledgedIsUnderWay, UnderWay, Unread, Queued, After, Occurs

\* The same, of the next state.
LEMMA UnderWayMeansNext ==
  AcknowledgedIsUnderWay' <=> \A e \in waiting' : UnderWay(e)'
  BY DEF AcknowledgedIsUnderWay, UnderWay, Unread, Queued, After, Occurs

LEMMA UnderWayNext ==
  VTypeInv /\ AcknowledgedIsUnderWay /\ [VNext]_allVars => AcknowledgedIsUnderWay'
<1> SUFFICES ASSUME VTypeInv, AcknowledgedIsUnderWay, [VNext]_allVars, NEW e \in waiting'
             PROVE  UnderWay(e)'
  BY UnderWayMeansNext
<1>1. /\ topic \in Seq(Emails) /\ tasks \in Seq(Emails) /\ waiting \subseteq Emails
      /\ outbox \in Emails \cup {None} /\ None \notin Emails
      /\ Len(topic) \in Nat /\ received \in 0..Len(topic) /\ committed \in 0..received
  BY NoneAssumption DEF VTypeInv, VTypeOK, TypeInv, TypeOK
<1>2. \A d \in waiting : UnderWay(d)
  BY UnderWayMeans
<1> USE DEF kafkaVars, keyVars, historyVars, queueVars, mainVars, UnderWay
<1>3. ASSUME NEW d \in Emails, SendCode(d) PROVE UnderWay(e)'
  <2>1. /\ UNCHANGED <<topic, received, tasks>>
        /\ \/ outbox' = d /\ e = d
           \/ outbox' = outbox /\ e \in waiting
           \/ e \in waiting /\ e # outbox
    BY <1>3 DEF SendCode, vars
  <2>2. QED
    BY <1>2, <2>1
<1>4. CASE Transmit
  <2>1. /\ e \in waiting /\ outbox \in Emails /\ UNCHANGED <<received, tasks>>
        /\ \/ topic' = topic /\ e # outbox
           \/ topic' = Append(topic, outbox)
           \/ topic' = topic \o <<outbox, outbox>>
    BY <1>1, <1>4 DEF Transmit, vars
  <2>2. CASE topic' = topic /\ e # outbox
    BY <1>2, <2>1, <2>2
  <2>3. CASE topic' # topic
    <3>1. /\ topic' \in Seq(Emails) /\ Len(topic') > Len(topic)
          /\ \A i \in 1..Len(topic) : topic'[i] = topic[i]
          /\ topic'[Len(topic) + 1] = outbox
      <4>1. CASE topic' = Append(topic, outbox)
        BY <1>1, <2>1, <4>1
      <4>2. CASE topic' = topic \o <<outbox, outbox>>
        <5>1. /\ <<outbox, outbox>> \in Seq(Emails) /\ Len(<<outbox, outbox>>) = 2
              /\ <<outbox, outbox>>[1] = outbox
          BY <2>1
        <5>2. QED
          BY <1>1, <4>2, <5>1
      <4>3. QED
        BY <2>1, <2>3, <4>1, <4>2
    <3>2. After(topic, received) \cup {outbox} \subseteq After(topic', received)
      BY <1>1, <3>1, AfterGrows
    <3>3. QED
      BY <1>2, <2>1, <3>2
  <2>4. QED
    BY <2>1, <2>2, <2>3
<1>5. CASE GatewayDies
  <2>1. e \in waiting /\ e # outbox /\ UNCHANGED <<topic, received, tasks>>
    BY <1>5 DEF GatewayDies, vars
  <2>2. QED
    BY <1>2, <2>1
<1>6. CASE Receive
  <2>1. /\ e \in waiting /\ received < Len(topic) /\ UNCHANGED <<outbox, topic>>
        /\ received' = received + 1 /\ tasks' = Append(tasks, topic[received + 1])
    BY <1>6 DEF Receive, Enqueue
  <2>2. topic[received + 1] \in Emails
    BY <1>1, <2>1
  <2>3. /\ Occurs(topic[received + 1], tasks')
        /\ Occurs(e, tasks) => Occurs(e, tasks')
    BY <1>1, <2>1, <2>2, OccursAppend
  <2>4. After(topic, received) \subseteq {topic[received + 1]} \cup After(topic, received + 1)
    BY <1>1, <2>1, AfterShrinks
  <2>5. QED
    BY <1>2, <2>1, <2>3, <2>4
<1>7. ASSUME NEW w \in Workers, Take(w) PROVE UnderWay(e)'
  <2>1. UNCHANGED <<outbox, topic, received>> /\ e \in waiting /\ e # task'[w]
    BY <1>7 DEF Take, Check
  <2>2. CASE tasks' = tasks
    BY <1>2, <2>1, <2>2
  <2>3. CASE tasks # <<>> /\ tasks' = Tail(tasks) /\ task' = [task EXCEPT ![w] = Head(tasks)]
    <3>1. e # Head(tasks)
      BY <2>1, <2>3 DEF VTypeInv, TypeInv, TypeOK
    <3>2. Occurs(e, tasks) => Occurs(e, tasks')
      BY <1>1, <2>3, <3>1, OccursTail
    <3>3. QED
      BY <1>2, <2>1, <3>2
  <2>4. QED
    BY <1>7, <2>2, <2>3 DEF Take, Check
<1>8. CASE Restart
  <2>1. UNCHANGED <<outbox, topic>>
    BY <1>8 DEF Restart
  <2>2. CASE committed = 0
    BY <1>8, <2>1, <2>2 DEF Restart
  <2>3. CASE committed # 0
    <3>1. /\ e \in waiting /\ received' = committed
          /\ Occurs(e, tasks) => e \in After(topic, committed)
      BY <1>8, <2>3 DEF Restart, Queued, Unread, Occurs, After
    <3>2. After(topic, received) \subseteq After(topic, committed)
      BY <1>1, AfterShrinks
    <3>3. QED
      BY <1>2, <2>1, <3>1, <3>2
  <2>4. QED
    BY <2>2, <2>3
<1>9. CASE Leave
  <2>1. /\ UNCHANGED <<outbox, topic, received>> /\ e \in waiting /\ ~Occurs(e, tasks)
    BY <1>9 DEF Leave, Join, Queued, Occurs
  <2>2. QED
    BY <1>2, <2>1
<1>10. CASE UNCHANGED <<outbox, topic, received, tasks, waiting>>
  BY <1>2, <1>10
<1>11. ASSUME NEW w \in Workers, StoreCode(w) \/ SendMail(w) \/ Other(w) PROVE UnderWay(e)'
  <2>1. UNCHANGED <<outbox, topic, received, tasks, waiting>>
    BY <1>11 DEF StoreCode, SendMail, Other, Store, Send, Block, Get, Dedup, Put
  <2>2. QED
    BY <1>10, <2>1
<1>12. CASE \/ Commit \/ Close \/ VTick \/ UNCHANGED allVars
            \/ /\ NotifyTask \/ NotifyAll \/ Signal \/ \E w \in Workers : SpuriousWake(w)
               /\ UNCHANGED <<kafkaVars, keyVars, crashes, historyVars>>
  <2>1. UNCHANGED <<outbox, topic, received, tasks, waiting>>
    BY <1>12 DEF Commit, Close, NotifyTask, SetStop, NotifyAll, VTick, Tick, Signal,
                 SpuriousWake, allVars, vars
  <2>2. QED
    BY <1>10, <2>1
<1>13. QED
  BY <1>3, <1>4, <1>5, <1>6, <1>7, <1>8, <1>9, <1>11, <1>12 DEF VNext, VMain, Work

\* An address that was told "code send successfully" is under way to a worker,
\* for as long as no worker has taken it and it was not lost in one of the
\* places that AcknowledgedIsUnderWay names.
THEOREM AcknowledgedCorrect == VSpec => []AcknowledgedIsUnderWay
<1>1. VInit => AcknowledgedIsUnderWay
  BY DEF VInit, AcknowledgedIsUnderWay
<1>2. QED
  BY VTypeInit, VTypeNext, UnderWayNext, <1>1, PTL DEF VSpec

-----------------------------------------------------------------------------
(* The code that verifycode accepts.  An address becomes disturbed when a   *)
(* job for it is slow or fails half way, and stops being so when a worker   *)
(* stores a code for it while no other serves it.                           *)

\* Two jobs for one address would need permissions that far apart that the
\* first of them is no longer timely.
LEMMA OneJob ==
  ASSUME DedupInv, Timely, NEW v \in Workers, NEW w \in Workers, Serving(v), Serving(w),
         task[v] = task[w], task[w] \notin disturbed
  PROVE  v = w
<1>1. /\ clock \in Nat /\ since[v] \in Nat /\ since[w] \in Nat /\ DedupTtl \in Nat
      /\ since[v] <= clock /\ since[w] <= clock
  BY BoundAssumption, TtlAssumption DEF DedupInv, TypeInv, TypeOK, Permitted
<1>2. clock < since[v] + DedupTtl /\ clock < since[w] + DedupTtl
  BY DEF Timely
<1>3. QED
  BY <1>1, <1>2 DEF DedupInv, DedupExclusion

\* A job goes on as it was or has just been permitted.
LEMMA JobStep ==
  ASSUME TypeInv, [Next]_vars, NEW v \in Workers, Serving(v)'
  PROVE  \/ Serving(v) /\ task'[v] = task[v] /\ since'[v] = since[v]
         \/ since'[v] = clock /\ clock' = clock
<1>1. /\ pc \in [Workers -> Statements] /\ task \in [Workers -> Emails \cup {None}]
      /\ code \in [Workers -> Codes \cup {None}] /\ since \in [Workers -> Nat]
      /\ clock \in Nat
  BY BoundAssumption DEF TypeInv, TypeOK
<1> USE DEF mainVars, queueVars, localVars, poolVars, redisVars
<1>2. CASE Signal \/ Tick \/ SetStop \/ Join \/ (\E e \in Emails : Enqueue(e))
  BY <1>2 DEF Signal, Tick, SetStop, Join, Enqueue, Serving
<1>3. CASE NotifyTask \/ NotifyAll
  <2>1. UNCHANGED <<task, code, since>>
    BY <1>3 DEF NotifyTask, NotifyAll
  <2>2. pc'[v] = pc[v] \/ pc'[v] = "idle"
    BY <1>1, <1>3 DEF NotifyTask, NotifyOne, NotifyAll
  <2>3. QED
    BY <2>1, <2>2 DEF Serving
<1>4. ASSUME NEW w \in Workers, Check(w) \/ Get(w)
      PROVE  Serving(v) /\ task'[v] = task[v] /\ since'[v] = since[v]
  <2>1. UNCHANGED <<code, since>> /\ code[w] = None /\ pc'[w] # "store"
    BY <1>1, <1>4 DEF Check, Get, TypeInv, HoldsCode
  <2>2. v # w => pc'[v] = pc[v] /\ task'[v] = task[v]
    BY <1>1, <1>4 DEF Check, Get
  <2>3. QED
    BY <2>1, <2>2 DEF Serving
<1>5. ASSUME NEW w \in Workers, Block(w) \/ SpuriousWake(w)
      PROVE  Serving(v) /\ task'[v] = task[v] /\ since'[v] = since[v]
  <2>1. UNCHANGED <<task, code, since>>
    BY <1>5 DEF Block, SpuriousWake
  <2>2. pc'[v] = pc[v] \/ pc'[v] \in {"blocked", "idle", "get"}
    BY <1>1, <1>5 DEF Block, SpuriousWake
  <2>3. QED
    BY <2>1, <2>2 DEF Serving
<1>6. ASSUME NEW w \in Workers, Dedup(w)
      PROVE  \/ Serving(v) /\ task'[v] = task[v] /\ since'[v] = since[v]
             \/ since'[v] = clock /\ clock' = clock
  <2>1. UNCHANGED <<task, code, clock>>
    BY <1>6 DEF Dedup
  <2>2. PICK r \in Replies :
          /\ pc' = [pc EXCEPT ![w] = IF CanSend(r) THEN "store" ELSE "put"]
          /\ since' = IF CanSend(r) THEN [since EXCEPT ![w] = clock] ELSE since
    BY <1>6 DEF Dedup
  <2>3. CASE v = w /\ CanSend(r)
    BY <1>1, <2>1, <2>2, <2>3
  <2>4. CASE v # w \/ ~CanSend(r)
    <3>1. since'[v] = since[v] /\ (pc'[v] = pc[v] \/ pc'[v] = "put")
      BY <1>1, <2>2, <2>4
    <3>2. QED
      BY <2>1, <3>1 DEF Serving
  <2>5. QED
    BY <2>3, <2>4
<1>7. ASSUME NEW w \in Workers, Store(w)
      PROVE  Serving(v) /\ task'[v] = task[v] /\ since'[v] = since[v]
  <2>1. /\ UNCHANGED <<task, since>> /\ pc[w] = "store"
        /\ v # w => pc'[v] = pc[v] /\ code'[v] = code[v]
    BY <1>1, <1>7 DEF Store
  <2>2. QED
    BY <2>1 DEF Serving
<1>8. ASSUME NEW w \in Workers, Put(w)
      PROVE  Serving(v) /\ task'[v] = task[v] /\ since'[v] = since[v]
  <2> DEFINE from == [pc EXCEPT ![w] = IF code[w] = None THEN "idle" ELSE "send"]
  <2>1. /\ UNCHANGED <<code, since>>
        /\ task' = IF code[w] = None THEN [task EXCEPT ![w] = None] ELSE task
        /\ pc[w] = "put"
        /\ \/ pc' = from
           \/ \E u \in Workers : pc' = [from EXCEPT ![u] = "get"]
    BY <1>8 DEF Put, NotifyOne, AfterPut
  <2>2. pc'[v] = "store" => pc[v] = "store" /\ v # w
    BY <1>1, <2>1
  <2>3. QED
    BY <1>1, <2>1, <2>2 DEF Serving
<1>9. ASSUME NEW w \in Workers, Send(w)
      PROVE  Serving(v) /\ task'[v] = task[v] /\ since'[v] = since[v]
  <2>1. /\ UNCHANGED since /\ pc'[w] = "idle" /\ code'[w] = None
        /\ v # w => pc'[v] = pc[v] /\ code'[v] = code[v] /\ task'[v] = task[v]
    BY <1>1, <1>9 DEF Send
  <2>2. QED
    BY <2>1 DEF Serving
<1>10. CASE UNCHANGED vars
  BY <1>10 DEF vars, Serving
<1>11. QED
  BY <1>2, <1>3, <1>4, <1>5, <1>6, <1>7, <1>8, <1>9, <1>10 DEF Next, MainStep, WorkerStep

\* What a job that stores a code finds at an address that it leaves undisturbed.
LEMMA StoreAlone ==
  ASSUME KeyInv, NEW w \in Workers, StoreCode(w), task[w] \notin disturbed'
  PROVE  /\ clock < since[w] + DedupTtl
         /\ \A v \in Workers : (Serving(v) /\ task[v] = task[w]) => v = w
<1>1. pc[w] = "store" /\ Serving(w)
  BY DEF StoreCode, Store, Serving
<1>2. CASE task[w] \notin disturbed
  BY <1>1, <1>2, OneJob DEF KeyInv, Timely
<1>3. CASE task[w] \in disturbed
  <2>1. Alone(w)
    BY <1>3 DEF StoreCode
  <2>2. clock \in Nat /\ since[w] \in Nat /\ DedupTtl \in Nat
    BY BoundAssumption, TtlAssumption DEF KeyInv, VTypeInv, TypeInv, TypeOK
  <2>3. QED
    BY <2>1, <2>2 DEF Alone
<1>4. QED
  BY <1>2, <1>3

\* Only StoreCode puts an address right.
LEMMA DisturbedGrows ==
  ASSUME [VNext]_allVars, \A w \in Workers : ~StoreCode(w)
  PROVE  disturbed \subseteq disturbed'
  BY DEF VNext, SendCode, Transmit, GatewayDies, Receive, Commit, Close, Leave, VTick, Restart,
         VMain, Work, Take, SendMail, Other, allVars, historyVars

LEMMA TimelyNext == KeyInv /\ [VNext]_allVars => Timely'
<1> SUFFICES ASSUME KeyInv, [VNext]_allVars, NEW v \in Workers, Serving(v)',
                    task'[v] \notin disturbed'
             PROVE  clock' < since'[v] + DedupTtl
  BY DEF Timely
<1>1. /\ TypeInv /\ TypeInv' /\ VTypeOK
      /\ since \in [Workers -> Nat] /\ clock \in Nat /\ clock' \in Nat /\ DedupTtl \in Nat \ {0}
  <2>1. TypeInv /\ TypeInv' /\ VTypeOK
    BY VTypeNext DEF VTypeInv, KeyInv
  <2>2. since \in [Workers -> Nat] /\ clock \in 0..MaxClock
    BY <2>1 DEF TypeInv, TypeOK
  <2>3. clock' \in 0..MaxClock
    BY <2>1 DEF TypeInv, TypeOK
  <2>4. QED
    BY <2>1, <2>2, <2>3, BoundAssumption, TtlAssumption
<1>2. CASE VTick
  <2>1. UNCHANGED <<pc, code, task, since>> /\ Serving(v)
    BY <1>2 DEF VTick, Tick, localVars, Serving
  <2>2. ~(since[v] + DedupTtl <= clock')
    BY <1>2, <2>1 DEF VTick
  <2>3. QED
    BY <1>1, <2>1, <2>2
<1>3. CASE Restart
  BY <1>1, <1>3, AfterCrash DEF Serving
<1>4. CASE ~VTick /\ ~Restart
  <2>1. [Next]_vars
    BY <1>1, <1>4, ServiceStep
  <2>2. clock' = clock
    BY <1>4 DEF VNext, SendCode, Transmit, GatewayDies, Receive, Commit, Enqueue, VMain, Close,
                Leave, NotifyTask, SetStop, NotifyAll, Join, Signal, SpuriousWake, Work, Take,
                StoreCode, SendMail, Other, Check, Block, Get, Dedup, Store, Put, Send, allVars,
                vars
  <2>3. CASE Serving(v) /\ task'[v] = task[v] /\ since'[v] = since[v]
    <3>1. CASE task[v] \notin disturbed
      BY <1>1, <2>2, <2>3, <3>1 DEF KeyInv, Timely
    <3>2. CASE task[v] \in disturbed
      <4>1. PICK w \in Workers : StoreCode(w)
        BY <2>3, <3>2, DisturbedGrows
      <4>2. task[w] = task[v]
        BY <2>3, <3>2, <4>1 DEF StoreCode
      <4>3. QED
        BY <2>2, <2>3, <4>1, <4>2, StoreAlone
    <3>3. QED
      BY <3>1, <3>2
  <2>4. CASE since'[v] = clock
    BY <1>1, <2>2, <2>4
  <2>5. QED
    BY <1>1, <2>1, <2>3, <2>4, JobStep
<1>5. QED
  BY <1>2, <1>3, <1>4

\* Steps of jobs that neither store nor mail a code.
LEMMA KeyFrame ==
  ASSUME KeyOfJob, KeyOfMail, UNCHANGED <<key, lastMail, code>>,
         \A w \in Workers : code[w] # None => task'[w] = task[w],
         disturbed \subseteq disturbed'
  PROVE  KeyOfJob' /\ KeyOfMail'
<1>1. \A w \in Workers, e \in Emails : Mails(w, e)' <=> Mails(w, e)
  BY DEF Mails
<1>2. QED
  BY <1>1 DEF KeyOfJob, KeyOfMail

LEMMA KeyStore ==
  ASSUME KeyInv, NEW w \in Workers, StoreCode(w)
  PROVE  KeyOfJob' /\ KeyOfMail'
<1> DEFINE e == task[w]
<1>1. /\ TypeInv /\ key \in [Emails -> Codes \cup {None}]
      /\ code \in [Workers -> Codes \cup {None}]
  BY DEF KeyInv, VTypeInv, VTypeOK, TypeInv, TypeOK
<1>2. pc[w] = "store" /\ e \in Emails /\ code[w] = None /\ Serving(w)
  BY <1>1 DEF StoreCode, Store, TypeInv, TypeOK, HandlesTask, HoldsCode, Serving
<1>3. Fresh \in Codes /\ Fresh # None
  BY FreshIsUnused, NoneAssumption DEF StoreCode
<1>4. /\ UNCHANGED <<task, lastMail>>
      /\ \A v \in Workers : v # w => code'[v] = code[v]
      /\ code'[w] \in {None, Fresh}
      /\ \A d \in Emails : d # e => key'[d] = key[d]
      /\ \A d \in Emails : d # e => (d \in disturbed' <=> d \in disturbed)
  BY <1>1, <1>2, <1>3 DEF StoreCode, Store, SetKey, keyVars
<1>5. CASE code'[w] = None
  <2>1. \A v \in Workers, d \in Emails :
           code'[v] = code[v] /\ (Mails(v, d)' <=> Mails(v, d))
    BY <1>2, <1>4, <1>5 DEF Mails
  <2>2. e \notin disturbed' => e \notin disturbed /\ key' = key
    BY <1>5 DEF StoreCode, keyVars
  <2>3. \A d \in Emails \ disturbed' : d \in Emails \ disturbed /\ key'[d] = key[d]
    BY <1>4, <2>2
  <2>4. QED
    BY <1>4, <2>1, <2>3 DEF KeyInv, KeyOfJob, KeyOfMail
<1>6. CASE code'[w] = Fresh
  <2>1. e \notin disturbed' => key'[e] = Fresh
    <3> SUFFICES ASSUME e \notin disturbed' PROVE key'[e] = Fresh
      OBVIOUS
    <3>1. stored' # stored
      BY <1>3, <1>6 DEF StoreCode
    <3>2. SetKey(e, Fresh)
      BY <3>1 DEF StoreCode
    <3>3. QED
      BY <1>1, <1>2, <3>2 DEF SetKey
  <2>2. ASSUME NEW v \in Workers, e \notin disturbed', v # w PROVE ~Mails(v, e)
    BY <2>2, StoreAlone DEF Mails, Serving
  <2>3. KeyOfJob'
    <3> SUFFICES ASSUME NEW v \in Workers, NEW d \in Emails \ disturbed', Mails(v, d)'
                 PROVE  key'[d] = code'[v]
      BY DEF KeyOfJob
    <3>1. code'[v] # None /\ task[v] = d
      BY <1>4 DEF Mails
    <3>2. CASE v = w
      BY <1>6, <2>1, <3>1, <3>2
    <3>3. CASE v # w
      <4>1. Mails(v, d) /\ code'[v] = code[v]
        BY <1>4, <3>1, <3>3 DEF Mails
      <4>2. d # e
        BY <2>2, <3>3, <4>1
      <4>3. d \in Emails \ disturbed /\ key'[d] = key[d]
        BY <1>4, <4>2
      <4>4. QED
        BY <4>1, <4>3 DEF KeyInv, KeyOfJob
    <3>4. QED
      BY <3>2, <3>3
  <2>4. KeyOfMail'
    <3> SUFFICES ASSUME NEW d \in Emails \ disturbed', lastMail'[d] # None,
                        \A v \in Workers : ~Mails(v, d)'
                 PROVE  key'[d] = lastMail'[d]
      BY DEF KeyOfMail
    <3>1. d # e
      BY <1>3, <1>4, <1>6 DEF Mails
    <3>2. \A v \in Workers : ~Mails(v, d)
      BY <1>2, <1>4, <3>1 DEF Mails
    <3>3. QED
      BY <1>4, <3>1, <3>2 DEF KeyInv, KeyOfMail
  <2>5. QED
    BY <2>3, <2>4
<1>7. QED
  BY <1>4, <1>5, <1>6

LEMMA KeySend ==
  ASSUME KeyInv, NEW w \in Workers, SendMail(w)
  PROVE  KeyOfJob' /\ KeyOfMail'
<1> DEFINE e == task[w]
<1>1. /\ TypeInv /\ lastMail \in [Emails -> Codes \cup {None}]
      /\ code \in [Workers -> Codes \cup {None}] /\ task \in [Workers -> Emails \cup {None}]
  BY DEF KeyInv, VTypeInv, VTypeOK, TypeInv, TypeOK
<1>2. pc[w] = "send" /\ e \in Emails /\ code[w] # None /\ Mails(w, e)
  BY <1>1 DEF SendMail, Send, TypeInv, TypeOK, HandlesTask, HoldsCode, Mails
<1>3. /\ UNCHANGED key /\ code'[w] = None
      /\ \A v \in Workers : v # w => code'[v] = code[v] /\ task'[v] = task[v]
      /\ \A d \in Emails : d # e => lastMail'[d] = lastMail[d]
      /\ disturbed \subseteq disturbed'
      /\ e \notin disturbed' => lastMail'[e] = code[w]
  BY <1>1, <1>2 DEF SendMail, Send, keyVars
<1>4. \A v \in Workers, d \in Emails : Mails(v, d)' <=> v # w /\ Mails(v, d)
  BY <1>3 DEF Mails
<1>5. KeyOfJob'
  BY <1>3, <1>4 DEF KeyInv, KeyOfJob
<1>6. KeyOfMail'
  <2> SUFFICES ASSUME NEW d \in Emails \ disturbed', lastMail'[d] # None,
                      \A v \in Workers : ~Mails(v, d)'
               PROVE  key'[d] = lastMail'[d]
    BY DEF KeyOfMail
  <2>1. CASE d = e
    BY <1>2, <1>3, <2>1 DEF KeyInv, KeyOfJob
  <2>2. CASE d # e
    <3>1. \A v \in Workers : ~Mails(v, d)
      BY <1>4, <2>2 DEF Mails
    <3>2. QED
      BY <1>3, <2>2, <3>1 DEF KeyInv, KeyOfMail
  <2>3. QED
    BY <2>1, <2>2
<1>7. QED
  BY <1>5, <1>6

LEMMA KeyCrash ==
  ASSUME KeyInv, Restart
  PROVE  KeyOfJob' /\ KeyOfMail'
<1>1. TypeInv /\ VTypeOK /\ UNCHANGED <<key, lastMail>>
  BY DEF KeyInv, VTypeInv, Restart, keyVars
<1>2. \A v \in Workers, d \in Emails : ~Mails(v, d)'
  BY <1>1, AfterCrash DEF Mails
<1>3. \A d \in Emails \ disturbed' :
         d \in Emails \ disturbed /\ \A v \in Workers : ~Mails(v, d)
  BY DEF Restart, Mails, Serving
<1>4. QED
  BY <1>1, <1>2, <1>3 DEF KeyInv, KeyOfJob, KeyOfMail

LEMMA KeyNext == KeyInv /\ [VNext]_allVars => KeyInv'
<1> SUFFICES ASSUME KeyInv, [VNext]_allVars PROVE KeyInv'
  OBVIOUS
<1>1. VTypeInv' /\ DedupInv' /\ Timely'
  <2>1. VTypeInv' /\ Timely'
    BY VTypeNext, TimelyNext DEF KeyInv
  <2>2. DedupInv'
    BY ServiceStep, CrashKeeps, DedupNext DEF KeyInv, VTypeInv
  <2>3. QED
    BY <2>1, <2>2
<1>2. TypeInv /\ VTypeOK /\ KeyOfJob /\ KeyOfMail
  BY DEF KeyInv, VTypeInv
<1> USE DEF kafkaVars, keyVars, historyVars, mainVars, queueVars, localVars
<1>3. ASSUME UNCHANGED <<key, lastMail, code>>, disturbed \subseteq disturbed',
             \A w \in Workers : code[w] # None => task'[w] = task[w]
      PROVE  KeyInv'
  BY <1>1, <1>2, <1>3, KeyFrame DEF KeyInv
<1>4. ASSUME NEW w \in Workers, Take(w) \/ Other(w) PROVE KeyInv'
  <2>1. UNCHANGED <<key, lastMail, code, disturbed>>
    BY <1>4 DEF Take, Other, Check, Block, Get, Dedup, Put
  <2>2. \A v \in Workers : code[v] # None => task'[v] = task[v]
    <3>1. task \in [Workers -> Emails \cup {None}]
      BY <1>2 DEF TypeInv, TypeOK
    <3>2. Check(w) \/ Get(w) => code[w] = None
      BY <1>2 DEF Check, Get, TypeInv, HoldsCode
    <3>3. QED
      BY <1>4, <3>1, <3>2 DEF Take, Other, Check, Block, Get, Dedup, Put
  <2>3. QED
    BY <1>3, <2>1, <2>2
<1>5. ASSUME NEW w \in Workers, StoreCode(w) PROVE KeyInv'
  BY <1>1, <1>5, KeyStore DEF KeyInv
<1>6. ASSUME NEW w \in Workers, SendMail(w) PROVE KeyInv'
  BY <1>1, <1>6, KeySend DEF KeyInv
<1>7. CASE Restart
  BY <1>1, <1>7, KeyCrash DEF KeyInv
<1>8. CASE \/ \E e \in Emails : SendCode(e)
           \/ Transmit \/ GatewayDies \/ Receive \/ Commit \/ VTick \/ VMain \/ UNCHANGED allVars
           \/ /\ Signal \/ \E w \in Workers : SpuriousWake(w)
              /\ UNCHANGED <<kafkaVars, keyVars, crashes, historyVars>>
  <2>1. UNCHANGED <<key, lastMail, code, task>> /\ disturbed \subseteq disturbed'
    BY <1>8 DEF SendCode, Transmit, GatewayDies, Receive, Enqueue, Commit, VTick, Tick, VMain,
                Close, Leave, NotifyTask, SetStop, NotifyAll, Join, Signal, SpuriousWake,
                allVars, vars
  <2>2. QED
    BY <1>3, <2>1
<1>9. QED
  BY <1>4, <1>5, <1>6, <1>7, <1>8 DEF VNext, Work

\* The code in the last mail is the one that verifycode accepts, unless a job
\* for the address was slow, failed half way or was cut off by a crash; one
\* later job that goes well is enough to put the address right.
THEOREM LastMailCorrect == VSpec => []LastMailIsAccepted
<1>1. VInit => KeyInv
  BY VTypeInit, DedupInit
  DEF VInit, Init, KeyInv, Timely, KeyOfJob, KeyOfMail, Mails, Serving
<1>2. KeyInv /\ [VNext]_allVars => KeyInv'
  BY KeyNext
<1>3. KeyInv => LastMailIsAccepted
  <2> SUFFICES ASSUME KeyInv, NEW e \in Emails \ disturbed, lastMail[e] # None,
                      clock < until[e], \A w \in Workers : ~(Serving(w) /\ task[w] = e)
               PROVE  VerifyCode(e, lastMail[e]) = "matched"
    BY DEF LastMailIsAccepted
  <2>1. key[e] = lastMail[e]
    BY DEF KeyInv, KeyOfMail, Mails, Serving
  <2>2. clock \in Nat /\ until[e] \in Nat
    BY BoundAssumption DEF KeyInv, VTypeInv, VTypeOK, TypeInv, TypeOK
  <2>3. QED
    BY <2>1, <2>2 DEF VerifyCode
<1>4. QED
  BY <1>1, <1>2, <1>3, PTL DEF VSpec
=============================================================================
