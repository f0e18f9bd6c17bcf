---------------------------- MODULE Gateway_proofs ----------------------------
(***************************************************************************)
(* Proofs about Gateway and Discovery, for any numbers of gateways, back    *)
(* ends and requests, any inputs, and any numbers of deaths, outages and    *)
(* fetches.                                                                *)
(***************************************************************************)
EXTENDS Gateway, FiniteSetTheorems, TLAPS

-----------------------------------------------------------------------------
(* Type correctness *)

\* What a request has at each stage.
Stages ==
    \A r \in Requests :
        /\ pc[r] # "new" => input[r] \in Inputs
        /\ pc[r] \in {"queued", "lookup", "call", "silent"} => at[r] \in Gateways
        /\ pc[r] = "call" => stub[r] \in Backends

TypeInv == TypeOK /\ Stages /\ IsFiniteSet(fetches)

LEMMA TypeInit == Init => TypeInv
<1> SUFFICES ASSUME Init PROVE TypeInv
  OBVIOUS
<1>1. Cardinality({}) = 0 /\ IsFiniteSet({})
  BY FS_EmptySet
<1>2. DiscoveryTypeOK
  BY <1>1, DiscoveryBounds DEF Init, DiscoveryInit, DiscoveryTypeOK
<1>3. QED
  BY <1>1, <1>2 DEF Init, DiscoveryInit, TypeInv, TypeOK, Stages

\* The reasons for which a handler refuses, and what a callback answers.
LEMMA Answers ==
  ASSUME NEW r \in Requests
  PROVE  /\ Refusal(r) \in {"400", "401", "500", None}
         /\ Answer(r) \in {"30x", "200", "400", "500", "504"}
         /\ Answer(r) = "200" => executed[r] = "good"
         /\ Unavailable(r) \in {"500", "503"}
  BY DEF Refusal, Answer, Unavailable

\* A reply leaves a request well typed.
LEMMA ReplyType ==
  ASSUME TypeInv, NEW r \in Requests, NEW status \in Statuses, Reply(r, status),
         input' \in [Requests -> Inputs \cup {None}], input'[r] \in Inputs,
         \A q \in Requests \ {r} : input'[q] = input[q]
  PROVE  /\ pc' \in [Requests -> {"new", "queued", "lookup", "call", "silent", "replied"}]
         /\ at' \in [Requests -> Gateways \cup {None}]
         /\ stub' \in [Requests -> Backends \cup {None}]
         /\ \A q \in Requests : pc'[q] = "call" => stub'[q] # None
         /\ reply' \in [Requests -> Statuses \cup {None}]
         /\ replies' \in [Requests -> Nat]
         /\ Stages'
<1> USE DEF TypeInv, TypeOK, Reply
<1>1. /\ pc' \in [Requests -> {"new", "queued", "lookup", "call", "silent", "replied"}]
      /\ at' \in [Requests -> Gateways \cup {None}]
      /\ stub' \in [Requests -> Backends \cup {None}]
      /\ \A q \in Requests : pc'[q] = "call" => stub'[q] # None
      /\ reply' \in [Requests -> Statuses \cup {None}]
      /\ replies' \in [Requests -> Nat]
  OBVIOUS
<1>2. Stages'
  BY DEF Stages
<1>3. QED
  BY <1>1, <1>2

LEMMA DiscoveryType ==
  ASSUME TypeInv, DiscoveryStep
  PROVE  DiscoveryTypeOK' /\ IsFiniteSet(fetches)'
<1> DEFINE Lives == life \in [Instances -> {"new", "up", "dead"}] /\ asked \subseteq Gateways
           Entries == entry \in [Instances -> {"none", "critical", "passing"}]
           Outages == consul \in BOOLEAN /\ outages \in 0..MaxOutages
           Fetches == /\ fetches \subseteq SUBSET Gateways /\ IsFiniteSet(fetches)
                      /\ Cardinality(fetches) <= MaxFetches /\ list \subseteq Gateways
<1> SUFFICES (Lives /\ Entries /\ Outages /\ Fetches)'
  BY DEF DiscoveryTypeOK
<1>0. Lives /\ Entries /\ Outages /\ Fetches
  BY DEF TypeInv, TypeOK, DiscoveryTypeOK
<1>1. ASSUME NEW g \in Gateways, StartGateway(g) \/ Registered(g)
      PROVE  (Lives /\ Entries /\ Outages /\ Fetches)'
  <2>1. Lives' /\ Entries'
    BY <1>0, <1>1 DEF StartGateway, Registered, Instances
  <2>2. UNCHANGED <<consul, outages, fetches, list>>
    BY <1>1 DEF StartGateway, Registered
  <2>3. QED
    BY <1>0, <2>1, <2>2
<1>2. ASSUME NEW s \in Backends, StartBackend(s)
      PROVE  (Lives /\ Entries /\ Outages /\ Fetches)'
  <2>1. Lives' /\ Entries'
    BY <1>0, <1>2 DEF StartBackend, Instances
  <2>2. UNCHANGED <<consul, outages, fetches, list>>
    BY <1>2 DEF StartBackend
  <2>3. QED
    BY <1>0, <2>1, <2>2
<1>3. ASSUME NEW i \in Instances, Check(i, Responds(i)) \/ Reap(i, ~Silent(i))
      PROVE  (Lives /\ Entries /\ Outages /\ Fetches)'
  <2>1. Lives' /\ Entries'
    BY <1>0, <1>3 DEF Check, Reap
  <2>2. UNCHANGED <<consul, outages, fetches, list>>
    BY <1>3 DEF Check, Reap
  <2>3. QED
    BY <1>0, <2>1, <2>2
<1>4. CASE Outage \/ Recover
  <2>1. consul' \in BOOLEAN
    BY <1>4 DEF Outage, Recover
  <2>2. outages' \in 0..MaxOutages
    BY <1>0, <1>4, DiscoveryBounds DEF Outage, Recover
  <2>3. UNCHANGED <<life, asked, entry, fetches, list>>
    BY <1>4 DEF Outage, Recover
  <2>4. QED
    BY <1>0, <2>1, <2>2, <2>3
<1>5. CASE Fetch
  <2>1. Fetches'
    BY <1>0, <1>5, FS_AddElement DEF Fetch, Passing
  <2>2. UNCHANGED <<life, asked, entry, consul, outages>>
    BY <1>5 DEF Fetch
  <2>3. QED
    BY <1>0, <2>1, <2>2
<1>6. ASSUME NEW f \in fetches, Store(f)
      PROVE  (Lives /\ Entries /\ Outages /\ Fetches)'
  <2>1. IsFiniteSet(fetches \ {f}) /\ Cardinality(fetches \ {f}) = Cardinality(fetches) - 1
    BY <1>0, FS_RemoveElement
  <2>2. Cardinality(fetches) \in Nat
    BY <1>0, FS_CardinalityType
  <2>3. Fetches'
    BY <1>0, <1>6, <2>1, <2>2, DiscoveryBounds DEF Store
  <2>4. UNCHANGED <<life, asked, entry, consul, outages>>
    BY <1>6 DEF Store
  <2>5. QED
    BY <1>0, <2>3, <2>4
<1>7. QED
  BY <1>1, <1>2, <1>3, <1>4, <1>5, <1>6 DEF DiscoveryStep

LEMMA TypeNext == TypeInv /\ [Next]_vars => TypeInv'
<1> SUFFICES ASSUME TypeInv, [Next]_vars PROVE TypeInv'
  OBVIOUS
<1>1. CASE UNCHANGED vars
  BY <1>1 DEF vars, discoveryVars, requestVars, TypeInv, TypeOK, DiscoveryTypeOK, Stages
<1>2. ASSUME troubled' \subseteq Requests, DiscoveryStep
      PROVE  TypeInv'
  BY <1>2, DiscoveryType DEF DiscoveryStep, requestVars, TypeInv, TypeOK, Stages
<1>3. ASSUME troubled' \subseteq Requests, NEW i \in Instances, Crash(i)
      PROVE  TypeInv'
  <2>1. life' \in [Instances -> {"new", "up", "dead"}] /\ asked' \subseteq Gateways
    BY <1>3 DEF Crash, Die, TypeInv, TypeOK, DiscoveryTypeOK
  <2>2. UNCHANGED <<entry, consul, outages, fetches, list>>
    BY <1>3 DEF Crash, Die
  <2>3. DiscoveryTypeOK' /\ IsFiniteSet(fetches)'
    BY <2>1, <2>2 DEF TypeInv, TypeOK, DiscoveryTypeOK
  <2>4. QED
    BY <1>3, <2>3 DEF Crash, requestVars, TypeInv, TypeOK, Stages
<1>4. ASSUME troubled' \subseteq Requests, NEW g \in Gateways, Connect(g) \/ Break(g)
      PROVE  TypeInv'
  <2>1. DiscoveryTypeOK' /\ IsFiniteSet(fetches)'
    BY <1>4 DEF Connect, Break, discoveryVars, TypeInv, TypeOK, DiscoveryTypeOK
  <2>2. PICK st \in {"idle", "ready"} :
           chan' = [chan EXCEPT ![g].state = st] /\ (st = "idle" \/ chan[g].to # None)
    BY <1>4 DEF Connect, Break, TypeInv, TypeOK
  <2>3. chan' \in [Gateways -> [to : Backends \cup {None},
                                state : {"idle", "dialling", "ready"}]]
    BY <2>2 DEF TypeInv, TypeOK
  <2>4. \A h \in Gateways : chan'[h].to = None => chan'[h].state = "idle"
    BY <2>2 DEF TypeInv, TypeOK
  <2>5. UNCHANGED <<busy, requestVars>>
    BY <1>4 DEF Connect, Break
  <2>6. QED
    BY <1>4, <2>1, <2>3, <2>4, <2>5 DEF requestVars, TypeInv, TypeOK, Stages
<1>5. ASSUME troubled' \subseteq Requests, UNCHANGED discoveryVars, NEW r \in Requests,
             RequestStep(r) \/ \E in \in Inputs : Send(r, in)
      PROVE  TypeInv'
  <2>1. DiscoveryTypeOK' /\ IsFiniteSet(fetches)'
    BY <1>5 DEF discoveryVars, TypeInv, TypeOK, DiscoveryTypeOK
  <2> USE DEF TypeInv, TypeOK, Stages, Statuses
  <2>2. ASSUME NEW in \in Inputs, Send(r, in)
        PROVE  TypeInv'
    <3>1. CASE Reply(r, "502")
      BY <1>5, <2>1, <2>2, <3>1, ReplyType DEF Send
    <3>2. CASE ~Reply(r, "502")
      BY <1>5, <2>1, <2>2, <3>2 DEF Send
    <3>3. QED
      BY <3>1, <3>2
  <2>3. CASE Disconnect(r) \/ Reject(r)
    <3>1. PICK status \in {"401", "502"} : Reply(r, status)
      BY <2>3 DEF Disconnect, Reject
    <3>2. input[r] \in Inputs /\ UNCHANGED <<busy, chan, input, executed>>
      BY <2>3 DEF Disconnect, Reject, Turn
    <3>3. QED
      BY <1>5, <2>1, <3>1, <3>2, ReplyType
  <2>4. CASE Hit(r)
    <3>1. CASE Refusal(r) # None
      BY <1>5, <2>1, <2>4, <3>1, Answers, ReplyType DEF Hit, Admitted, Turn, Proceed
    <3>2. CASE Refusal(r) = None
      BY <1>5, <2>1, <2>4, <3>2 DEF Hit, Admitted, Turn, Usable, Proceed
    <3>3. QED
      BY <3>1, <3>2
  <2>5. CASE Miss(r)
    BY <1>5, <2>1, <2>5 DEF Miss, Admitted, Turn
  <2>6. ASSUME NEW s \in Backends, Found(r, s)
        PROVE  TypeInv'
    <3>1. s # None
      BY NoneAssumption DEF Instances
    <3>2. chan' \in [Gateways -> [to : Backends \cup {None},
                                  state : {"idle", "dialling", "ready"}]]
      BY <2>6 DEF Found
    <3>3. \A g \in Gateways : chan'[g].to = None => chan'[g].state = "idle"
      BY <2>6, <3>1 DEF Found
    <3>4. busy' \in [Gateways -> Requests \cup {None}]
      BY <2>6 DEF Found
    <3>5. CASE Refusal(r) # None
      BY <1>5, <2>1, <2>6, <3>2, <3>3, <3>4, <3>5, Answers, ReplyType DEF Found, Proceed
    <3>6. CASE Refusal(r) = None
      <4>1. /\ pc[r] = "lookup"
            /\ pc' = [pc EXCEPT ![r] = "call"]
            /\ stub' = [stub EXCEPT ![r] = s]
            /\ UNCHANGED <<input, at, reply, replies, executed>>
        BY <2>6, <3>6 DEF Found, Proceed
      <4>2. Stages'
        BY <4>1
      <4>3. QED
        BY <1>5, <2>1, <3>1, <3>2, <3>3, <3>4, <4>1, <4>2
    <3>7. QED
      BY <3>5, <3>6
  <2>7. CASE NotFound(r)
    BY <1>5, <2>1, <2>7, Answers DEF NotFound, Reply
  <2>8. CASE Execute(r)
    BY <1>5, <2>1, <2>8 DEF Execute, Ends
  <2>9. CASE Succeed(r) \/ Fail(r) \/ GiveUp(r)
    <3>1. PICK status \in Statuses : Reply(r, status)
      BY <2>9, Answers DEF Succeed, Fail, GiveUp
    <3>2. input[r] \in Inputs
      BY <2>9 DEF Succeed, Fail, GiveUp, MayReply
    <3>3. UNCHANGED <<busy, chan, input, executed>>
      BY <2>9 DEF Succeed, Fail, GiveUp
    <3>4. QED
      BY <1>5, <2>1, <3>1, <3>2, <3>3, ReplyType
  <2>10. CASE Throw(r)
    BY <1>5, <2>1, <2>10 DEF Throw
  <2>11. QED
    BY <1>5, <2>2, <2>3, <2>4, <2>5, <2>6, <2>7, <2>8, <2>9, <2>10 DEF RequestStep
<1>6. ASSUME NEW r \in Requests, RequestStep(r) \/ \E in \in Inputs : Send(r, in)
      PROVE  UNCHANGED discoveryVars
  BY <1>6 DEF RequestStep, Send, Disconnect, Reject, Hit, Miss, NotFound, Found, Execute,
              Succeed, Fail, Throw, GiveUp
<1>7. CASE Next
  <2>1. troubled' \subseteq Requests
    BY <1>7 DEF Next, Observe, TypeInv, TypeOK
  <2>2. QED
    BY <1>7, <2>1, <1>2, <1>3, <1>4, <1>5, <1>6 DEF Next
<1>8. QED
  BY <1>1, <1>7

\* Instances, Consul, nginx, channels and requests keep their types.
THEOREM TypeCorrect == Spec => []TypeOK
<1>1. TypeInv => TypeOK
  BY DEF TypeInv
<1>2. QED
  BY TypeInit, TypeNext, <1>1, PTL DEF Spec

-----------------------------------------------------------------------------
(* Replies and effects.  What is missing from the invariants is where a    *)
(* request stands: without a reply until it is replied to, and with one    *)
(* afterwards; not executed before its call.                               *)

Accounted ==
    \A r \in Requests :
        IF pc[r] = "replied" THEN replies[r] = 1 ELSE replies[r] = 0 /\ reply[r] = None

NotYetExecuted ==
    \A r \in Requests : pc[r] \in {"new", "queued", "lookup"} => executed[r] = "no"

ReplyInv == TypeInv /\ Accounted /\ NotYetExecuted /\ RefusedHasNoEffect /\ SuccessIsExecuted

\* A reply with any status but those of an untimely refusal or of a success
\* that was none.
LEMMA ReplyKeeps ==
  ASSUME ReplyInv, NEW r \in Requests, NEW status \in Statuses, Reply(r, status),
         pc[r] # "replied", UNCHANGED executed,
         status \in {"401", "503"} => executed[r] = "no",
         status = "200" => executed[r] = "good"
  PROVE  (Accounted /\ NotYetExecuted /\ RefusedHasNoEffect /\ SuccessIsExecuted)'
<1> USE DEF ReplyInv, TypeInv, TypeOK, Reply
<1>1. Accounted' /\ NotYetExecuted'
  BY DEF Accounted, NotYetExecuted
<1>2. RefusedHasNoEffect' /\ SuccessIsExecuted'
  BY DEF RefusedHasNoEffect, SuccessIsExecuted
<1>3. QED
  BY <1>1, <1>2

LEMMA ReplyInit == Init => ReplyInv
  BY TypeInit, StatusAssumption
  DEF Init, Statuses, ReplyInv, Accounted, NotYetExecuted, RefusedHasNoEffect, SuccessIsExecuted

\* Steps that change neither replies nor where a request stands.
LEMMA ReplyQuiet ==
  ASSUME ReplyInv, UNCHANGED <<pc, reply, replies, executed>>
  PROVE  (Accounted /\ NotYetExecuted /\ RefusedHasNoEffect /\ SuccessIsExecuted)'
  BY DEF ReplyInv, Accounted, NotYetExecuted, RefusedHasNoEffect, SuccessIsExecuted

\* Steps that take a request on without a reply.
LEMMA ReplyOn ==
  ASSUME ReplyInv, NEW r \in Requests, NEW stage \in {"queued", "lookup", "call", "silent"},
         IF stage = "silent" THEN pc[r] = "call" ELSE pc[r] \in {"new", "queued", "lookup"},
         pc' = [pc EXCEPT ![r] = stage],
         UNCHANGED <<reply, replies, executed>>
  PROVE  (Accounted /\ NotYetExecuted /\ RefusedHasNoEffect /\ SuccessIsExecuted)'
<1> USE DEF ReplyInv, TypeInv, TypeOK
<1>1. Accounted' /\ NotYetExecuted'
  BY DEF Accounted, NotYetExecuted
<1>2. RefusedHasNoEffect' /\ SuccessIsExecuted'
  BY DEF RefusedHasNoEffect, SuccessIsExecuted
<1>3. QED
  BY <1>1, <1>2

LEMMA ReplyNext == ReplyInv /\ [Next]_vars => ReplyInv'
<1> DEFINE Goal == Accounted /\ NotYetExecuted /\ RefusedHasNoEffect /\ SuccessIsExecuted
<1> SUFFICES ASSUME ReplyInv, [Next]_vars PROVE Goal'
  BY TypeNext DEF ReplyInv
<1>1. CASE UNCHANGED <<pc, reply, replies, executed>>
  BY <1>1, ReplyQuiet
<1>2. ASSUME DiscoveryStep \/ (\E i \in Instances : Crash(i))
             \/ (\E g \in Gateways : Connect(g) \/ Break(g)) \/ UNCHANGED vars
      PROVE  Goal'
  <2>1. UNCHANGED requestVars
    BY <1>2 DEF DiscoveryStep, Crash, Connect, Break, vars
  <2>2. QED
    BY <2>1, <1>1 DEF requestVars
<1>3. ASSUME NEW r \in Requests, NEW in \in Inputs, Send(r, in)
      PROVE  Goal'
  <2>1. pc[r] = "new" /\ UNCHANGED executed
    BY <1>3 DEF Send
  <2>2. CASE Reply(r, "502")
    BY <2>1, <2>2, ReplyKeeps DEF Statuses
  <2>3. CASE pc' = [pc EXCEPT ![r] = "queued"] /\ UNCHANGED <<reply, replies>>
    BY <2>1, <2>3, ReplyOn
  <2>4. QED
    BY <1>3, <2>2, <2>3 DEF Send
<1>4. ASSUME NEW r \in Requests, Disconnect(r)
      PROVE  Goal'
  BY <1>4, ReplyKeeps DEF Disconnect, Statuses
<1>5. ASSUME NEW r \in Requests, Reject(r)
      PROVE  Goal'
  <2>1. pc[r] = "queued" /\ executed[r] = "no"
    BY <1>5 DEF Reject, Turn, ReplyInv, NotYetExecuted
  <2>2. QED
    BY <1>5, <2>1, ReplyKeeps DEF Reject, Statuses
<1>6. ASSUME NEW r \in Requests, NEW s, Proceed(r, s), UNCHANGED executed,
             pc[r] \in {"queued", "lookup"}
      PROVE  Goal'
  <2>1. executed[r] = "no"
    BY <1>6 DEF ReplyInv, NotYetExecuted
  <2>2. CASE Refusal(r) # None
    <3>1. Refusal(r) \in {"400", "401", "500"} /\ Reply(r, Refusal(r))
      BY <1>6, <2>2, Answers DEF Proceed
    <3>2. QED
      BY <1>6, <2>1, <3>1, ReplyKeeps DEF Statuses
  <2>3. CASE Refusal(r) = None
    BY <1>6, <2>3, ReplyOn DEF Proceed
  <2>4. QED
    BY <2>2, <2>3
<1>7. ASSUME NEW r \in Requests, Hit(r)
      PROVE  Goal'
  BY <1>6, <1>7 DEF Hit, Admitted, Turn
<1>8. ASSUME NEW r \in Requests, Miss(r)
      PROVE  Goal'
  BY <1>8, ReplyOn DEF Miss, Admitted, Turn
<1>9. ASSUME NEW r \in Requests, NEW s \in Backends, Found(r, s)
      PROVE  Goal'
  BY <1>6, <1>9 DEF Found
<1>10. ASSUME NEW r \in Requests, NotFound(r)
       PROVE  Goal'
  <2>1. pc[r] = "lookup" /\ executed[r] = "no"
    BY <1>10 DEF NotFound, ReplyInv, NotYetExecuted
  <2>2. Unavailable(r) \in {"500", "503"} /\ Reply(r, Unavailable(r)) /\ UNCHANGED executed
    BY <1>10, Answers DEF NotFound
  <2>3. QED
    BY <2>1, <2>2, ReplyKeeps DEF Statuses
<1>11. ASSUME NEW r \in Requests, Execute(r)
       PROVE  Goal'
  <2>1. PICK end \in {"good", "bad", "error", "odd"} : executed' = [executed EXCEPT ![r] = end]
    BY <1>11 DEF Execute, Ends
  <2>2. pc[r] = "call" /\ UNCHANGED <<pc, reply, replies>>
    BY <1>11 DEF Execute
  <2>3. reply[r] = None
    BY <2>2 DEF ReplyInv, Accounted
  <2>4. Accounted' /\ NotYetExecuted'
    BY <2>1, <2>2 DEF ReplyInv, TypeInv, TypeOK, Accounted, NotYetExecuted
  <2>5. RefusedHasNoEffect' /\ SuccessIsExecuted'
    BY <2>1, <2>2, <2>3, StatusAssumption
    DEF ReplyInv, TypeInv, TypeOK, RefusedHasNoEffect, SuccessIsExecuted, Statuses
  <2>6. QED
    BY <2>4, <2>5
<1>12. ASSUME NEW r \in Requests, Succeed(r)
       PROVE  Goal'
  <2>1. Answer(r) \in {"30x", "200", "400", "500", "504"} /\ (Answer(r) = "200" => executed[r] = "good")
    BY Answers
  <2>2. pc[r] = "call" /\ executed[r] # "no" /\ Reply(r, Answer(r)) /\ UNCHANGED executed
    BY <1>12 DEF Succeed, MayReply
  <2>3. QED
    BY <2>1, <2>2, ReplyKeeps DEF Statuses
<1>13. ASSUME NEW r \in Requests, Fail(r)
       PROVE  Goal'
  BY <1>13, ReplyKeeps DEF Fail, MayReply, Statuses
<1>14. ASSUME NEW r \in Requests, Throw(r)
       PROVE  Goal'
  BY <1>14, ReplyOn DEF Throw
<1>15. ASSUME NEW r \in Requests, GiveUp(r)
       PROVE  Goal'
  BY <1>15, ReplyKeeps DEF GiveUp, Statuses
<1>16. QED
  BY <1>2, <1>3, <1>4, <1>5, <1>7, <1>8, <1>9, <1>10, <1>11, <1>12, <1>13, <1>14, <1>15
  DEF Next, RequestStep

\* One reply for each request, on whichever path its handler ends.
THEOREM RepliedCorrect == Spec => []RepliedOnce
<1>1. ReplyInv => RepliedOnce
  BY DEF ReplyInv, Accounted, RepliedOnce
<1>2. QED
  BY ReplyInit, ReplyNext, <1>1, PTL DEF Spec

\* No back end executes what was answered with 401 or 503.
THEOREM RefusedCorrect == Spec => []RefusedHasNoEffect
<1>1. ReplyInv => RefusedHasNoEffect
  BY DEF ReplyInv
<1>2. QED
  BY ReplyInit, ReplyNext, <1>1, PTL DEF Spec

\* A success that a browser is told of has happened.
THEOREM SuccessCorrect == Spec => []SuccessIsExecuted
<1>1. ReplyInv => SuccessIsExecuted
  BY DEF ReplyInv
<1>2. QED
  BY ReplyInit, ReplyNext, <1>1, PTL DEF Spec

-----------------------------------------------------------------------------
(* Service while everything that is visible lives.  A back end that passes  *)
(* and lives goes on passing, so that a call can only lose it by a death,   *)
(* which makes the request a troubled one.                                 *)

Started == \A i \in Instances : entry[i] # "none" \/ i \in asked => life[i] # "new"

\* A cached channel leads to an instance that passes, or has died.
ChanPasses ==
    \A g \in Gateways : chan[g].to # None =>
        life[chan[g].to] = "dead" \/ entry[chan[g].to] = "passing"

Served(r) ==
    /\ pc[r] = "call" => Up(stub[r]) /\ entry[stub[r]] = "passing"
    /\ pc[r] = "silent" => executed[r] = "odd"
    /\ pc[r] = "replied" /\ Flaw(r) = "none" => executed[r] # "no" /\ reply[r] = Answer(r)

ServedInv ==
    /\ ReplyInv
    /\ Started
    /\ ChanPasses
    /\ \A r \in Requests \ troubled : Served(r)

LEMMA ServedInit == Init => ServedInv
  BY ReplyInit DEF Init, DiscoveryInit, ServedInv, Started, ChanPasses, Served

LEMMA StartedNext == TypeInv /\ Started /\ Next => Started'
<1> SUFFICES ASSUME TypeInv, Started, Next PROVE Started'
  OBVIOUS
<1> USE DEF TypeInv, TypeOK, DiscoveryTypeOK, Started, Instances
<1>1. ASSUME NEW g \in Gateways, StartGateway(g) \/ Registered(g)
      PROVE  Started'
  BY <1>1 DEF StartGateway, Registered
<1>2. ASSUME NEW s \in Backends, StartBackend(s)
      PROVE  Started'
  BY <1>2 DEF StartBackend
<1>3. ASSUME NEW i \in Instances, Check(i, Responds(i)) \/ Reap(i, ~Silent(i)) \/ Die(i)
      PROVE  Started'
  BY <1>3 DEF Check, Reap, Die
<1>4. CASE UNCHANGED <<life, asked, entry>>
  BY <1>4
<1>5. QED
  BY <1>1, <1>2, <1>3, <1>4
  DEF Next, DiscoveryStep, RequestStep, Outage, Recover, Fetch, Store, Crash, Connect,
      Break, Send, Disconnect, Reject, Hit, Miss, NotFound, Found, Execute, Succeed, Fail,
      Throw, GiveUp, discoveryVars

\* What passes and lives goes on passing, and the dead stay dead.
LEMMA PassingStays ==
  ASSUME TypeInv, Started, Next, NEW s \in Backends
  PROVE  /\ Up(s) /\ entry[s] = "passing" => entry'[s] = "passing"
         /\ life[s] = "dead" => life'[s] = "dead"
         /\ entry[s] = "passing" => entry'[s] = "passing" \/ life'[s] = "dead"
<1> USE DEF TypeInv, TypeOK, DiscoveryTypeOK, Instances
<1>0. s \notin Gateways /\ s \in Instances /\ (entry[s] = "passing" => life[s] \in {"up", "dead"})
  BY InstanceAssumption DEF Started
<1> DEFINE Goal == /\ Up(s) /\ entry[s] = "passing" => entry'[s] = "passing"
                   /\ life[s] = "dead" => life'[s] = "dead"
                   /\ entry[s] = "passing" => entry'[s] = "passing" \/ life'[s] = "dead"
<1>1. ASSUME NEW g \in Gateways, StartGateway(g) \/ Registered(g)
      PROVE  Goal
  BY <1>0, <1>1 DEF StartGateway, Registered
<1>2. ASSUME NEW t \in Backends, StartBackend(t)
      PROVE  Goal
  BY <1>0, <1>2 DEF StartBackend, Up
<1>3. ASSUME NEW i \in Instances, Check(i, Responds(i))
      PROVE  Goal
  BY <1>0, <1>3 DEF Check, Responds, Up
<1>4. ASSUME NEW i \in Instances, Reap(i, ~Silent(i)) \/ Die(i)
      PROVE  Goal
  BY <1>0, <1>4 DEF Reap, Die
<1>5. CASE UNCHANGED <<life, entry>>
  BY <1>5
<1>6. QED
  BY <1>1, <1>2, <1>3, <1>4, <1>5
  DEF Next, DiscoveryStep, RequestStep, Outage, Recover, Fetch, Store, Crash, Connect,
      Break, Send, Disconnect, Reject, Hit, Miss, NotFound, Found, Execute, Succeed, Fail,
      Throw, GiveUp, discoveryVars

LEMMA ChanNext == TypeInv /\ Started /\ ChanPasses /\ Next => ChanPasses'
<1> SUFFICES ASSUME TypeInv, Started, ChanPasses, Next, NEW g \in Gateways, chan'[g].to # None
             PROVE  life'[chan'[g].to] = "dead" \/ entry'[chan'[g].to] = "passing"
  BY DEF ChanPasses
<1>1. CASE chan'[g].to = chan[g].to
  <2>1. chan[g].to \in Backends
    BY <1>1 DEF TypeInv, TypeOK
  <2>2. QED
    BY <1>1, <2>1, PassingStays DEF ChanPasses
<1>2. ASSUME NEW r \in Requests, NEW s \in Backends, Found(r, s)
      PROVE  chan'[g].to = chan[g].to \/ (chan'[g].to = s /\ entry'[s] = "passing")
  <2>1. s \in Passing(Backends) /\ UNCHANGED entry
    BY <1>2 DEF Found, Lookup, discoveryVars
  <2>2. QED
    BY <1>2, <2>1 DEF Found, Passing, TypeInv, TypeOK
<1>3. ASSUME NEW i \in Instances, Crash(i)
      PROVE  chan'[g].to = chan[g].to
  BY <1>3 DEF Crash
<1>4. ASSUME NEW h \in Gateways, Connect(h) \/ Break(h)
      PROVE  chan'[g].to = chan[g].to
  BY <1>4 DEF Connect, Break, TypeInv, TypeOK
<1>5. CASE UNCHANGED chan
  BY <1>1, <1>5
<1>6. QED
  BY <1>1, <1>2, <1>3, <1>4, <1>5
  DEF Next, DiscoveryStep, RequestStep, Send, Disconnect, Reject, Hit, Miss, NotFound,
      Execute, Succeed, Fail, Throw, GiveUp

\* A step of one request is no step of another one.
LEMMA OthersRest ==
  ASSUME TypeInv, NEW r \in Requests, NEW q \in Requests \ {r},
         RequestStep(q) \/ \E in \in Inputs : Send(q, in)
  PROVE  /\ pc'[r] = pc[r] /\ input'[r] = input[r] /\ stub'[r] = stub[r]
         /\ reply'[r] = reply[r] /\ executed'[r] = executed[r]
<1> DEFINE Rests == /\ pc'[r] = pc[r] /\ input'[r] = input[r] /\ stub'[r] = stub[r]
                    /\ reply'[r] = reply[r] /\ executed'[r] = executed[r]
<1> USE DEF TypeInv, TypeOK
<1>1. ASSUME NEW in \in Inputs, Send(q, in)
      PROVE  Rests
  BY <1>1 DEF Send, Reply
<1>2. CASE Disconnect(q) \/ Reject(q) \/ NotFound(q) \/ Succeed(q) \/ Fail(q) \/ GiveUp(q)
  BY <1>2 DEF Disconnect, Reject, NotFound, Succeed, Fail, GiveUp, Reply
<1>3. CASE Hit(q) \/ \E s \in Backends : Found(q, s)
  BY <1>3 DEF Hit, Found, Proceed, Reply
<1>4. CASE Miss(q) \/ Execute(q) \/ Throw(q)
  BY <1>4 DEF Miss, Execute, Throw
<1>5. QED
  BY <1>1, <1>2, <1>3, <1>4 DEF RequestStep

LEMMA ServedNext == ServedInv /\ [Next]_vars => ServedInv'
<1> SUFFICES ASSUME ServedInv, Next
             PROVE  (Started /\ ChanPasses /\ \A r \in Requests \ troubled : Served(r))'
  <2>1. CASE UNCHANGED vars
    BY <2>1, ReplyNext
    DEF vars, discoveryVars, requestVars, ServedInv, Started, ChanPasses, Served, Up, Flaw,
        Op, Answer
  <2>2. QED
    BY <2>1, ReplyNext DEF ServedInv
<1>1. TypeInv /\ Started /\ ChanPasses
  BY DEF ServedInv, ReplyInv
<1>2. TypeInv'
  BY <1>1, TypeNext
<1>3. ASSUME NEW r \in Requests \ troubled'
      PROVE  Served(r)'
  <2>1. Served(r)
    BY <1>3 DEF ServedInv, Next, Observe
  <2>2. pc'[r] # "new" /\ pc[r] # "replied" => Healthy(r) /\ Healthy(r)'
    BY <1>3 DEF Next, Observe
  <2>3. ASSUME pc'[r] = pc[r], input'[r] = input[r], stub'[r] = stub[r],
               reply'[r] = reply[r], executed'[r] = executed[r] \/ pc[r] = "call"
        PROVE  Served(r)'
    <3>1. CASE pc[r] = "call"
      <4>1. stub[r] \in Backends /\ entry[stub[r]] = "passing" /\ Up(stub[r])
        BY <1>1, <2>1, <3>1 DEF Served, TypeInv, Stages
      <4>2. entry'[stub[r]] = "passing"
        BY <1>1, <4>1, PassingStays
      <4>3. Up(stub[r])'
        BY <2>2, <2>3, <3>1, <4>1, <4>2 DEF Healthy, Passing, Up
      <4>4. QED
        BY <2>3, <3>1, <4>2, <4>3 DEF Served, Up
    <3>2. CASE pc[r] = "replied"
      BY <2>1, <2>3, <3>2 DEF Served, Answer, Flaw, Op
    <3>3. CASE pc[r] \notin {"call", "replied"}
      BY <2>1, <2>3, <3>3 DEF Served
    <3>4. QED
      BY <3>1, <3>2, <3>3
  <2>4. ASSUME UNCHANGED requestVars
        PROVE  Served(r)'
    BY <2>3, <2>4 DEF requestVars
  <2>5. ASSUME NEW q \in Requests \ {r}, RequestStep(q) \/ \E in \in Inputs : Send(q, in)
        PROVE  Served(r)'
    BY <1>1, <2>3, <2>5, OthersRest
  <2>6. ASSUME NEW in \in Inputs, Send(r, in)
        PROVE  Served(r)'
    <3>1. pc[r] = "new" /\ pc'[r] \in {"queued", "replied"}
      BY <1>1, <2>6 DEF Send, Reply, TypeInv, TypeOK
    <3>2. pc'[r] = "replied" => list = {} \/ \E g \in Gateways : MayPick(g) /\ ~Up(g)
      BY <1>1, <2>6 DEF Send, Reply, TypeInv, TypeOK
    <3>3. pc'[r] # "replied"
      BY <2>2, <3>1, <3>2 DEF Healthy, MayPick
    <3>4. QED
      BY <3>1, <3>3 DEF Served
  <2>7. CASE Disconnect(r)
    <3>1. at[r] \in Gateways /\ ~Up(at[r]) /\ pc[r] # "replied" /\ pc'[r] = "replied"
      BY <1>1, <2>7 DEF Disconnect, Reply, TypeInv, TypeOK, Stages
    <3>2. QED
      BY <2>2, <3>1, NoneAssumption DEF Healthy, Instances
  <2>8. CASE Reject(r)
    BY <1>1, <2>8 DEF Reject, Reply, Served, Flaw, TypeInv, TypeOK
  <2>9. ASSUME NEW s \in Backends, entry'[s] = "passing", Up(s)', Proceed(r, s), UNCHANGED input
        PROVE  Served(r)'
    <3>1. CASE Refusal(r) = None
      BY <1>1, <2>9, <3>1 DEF Proceed, Served, Up, TypeInv, TypeOK
    <3>2. CASE Refusal(r) # None
      <4>1. Flaw(r) # "none"
        BY <3>2 DEF Refusal
      <4>2. QED
        BY <1>1, <2>9, <3>2, <4>1 DEF Proceed, Reply, Served, Flaw, TypeInv, TypeOK
    <3>3. QED
      BY <3>1, <3>2
  <2>10. CASE Hit(r)
    <3> DEFINE s == chan[at[r]].to
    <3>1. at[r] \in Gateways /\ s # None /\ chan[at[r]].state = "ready" /\ pc[r] = "queued"
      BY <1>1, <2>10 DEF Hit, Admitted, Turn, Usable, TypeInv, Stages
    <3>2. s \in Backends
      BY <1>1, <3>1 DEF TypeInv, TypeOK
    <3>3. pc'[r] # "new"
      BY <1>1, <2>10, <3>1 DEF Hit, Proceed, Reply, TypeInv, TypeOK
    <3>4. Up(s)
      BY <2>2, <3>1, <3>3 DEF Healthy
    <3>5. entry[s] = "passing"
      BY <1>1, <3>1, <3>4 DEF ChanPasses, Up
    <3>6. UNCHANGED <<life, entry, input>> /\ Proceed(r, s)
      BY <2>10 DEF Hit, discoveryVars
    <3>7. QED
      BY <2>9, <3>2, <3>4, <3>5, <3>6 DEF Up
  <2>11. CASE Miss(r)
    BY <1>1, <2>11 DEF Miss, Served, TypeInv, TypeOK
  <2>12. ASSUME NEW s \in Backends, Found(r, s)
         PROVE  Served(r)'
    <3>1. s \in Passing(Backends) /\ pc[r] = "lookup"
      BY <2>12 DEF Found, Lookup
    <3>2. pc'[r] # "new"
      BY <1>1, <2>12, <3>1 DEF Found, Proceed, Reply, TypeInv, TypeOK
    <3>3. Up(s) /\ entry[s] = "passing"
      BY <2>2, <3>1, <3>2 DEF Healthy, Passing
    <3>4. UNCHANGED <<life, entry, input>> /\ Proceed(r, s)
      BY <2>12 DEF Found, discoveryVars
    <3>5. QED
      BY <2>9, <3>3, <3>4 DEF Up
  <2>13. CASE NotFound(r)
    <3>1. Lookup = {} /\ pc[r] = "lookup" /\ pc'[r] = "replied"
      BY <1>1, <2>13 DEF NotFound, Reply, TypeInv, TypeOK
    <3>2. QED
      BY <2>2, <3>1 DEF Healthy, Lookup
  <2>14. CASE Execute(r)
    <3>1. pc[r] = "call" /\ UNCHANGED <<pc, input, stub, reply>>
      BY <2>14 DEF Execute
    <3>2. QED
      BY <2>3, <3>1
  <2>15. CASE Succeed(r)
    <3>1. executed[r] # "no" /\ Reply(r, Answer(r)) /\ UNCHANGED <<input, executed>>
      BY <2>15 DEF Succeed
    <3>2. QED
      BY <1>1, <3>1 DEF Reply, Served, Answer, Op, TypeInv, TypeOK
  <2>16. CASE Fail(r)
    <3>1. executed[r] = "error" /\ Reply(r, "500") /\ UNCHANGED <<input, executed>>
      BY <2>1, <2>16 DEF Fail, MayReply, Served
    <3>2. QED
      BY <1>1, <3>1 DEF Reply, Served, Answer, Op, TypeInv, TypeOK
  <2>17. ASSUME DiscoveryStep \/ (\E i \in Instances : Crash(i))
                \/ \E g \in Gateways : Connect(g) \/ Break(g)
         PROVE  UNCHANGED requestVars
    BY <2>17 DEF DiscoveryStep, Crash, Connect, Break
  <2>18. CASE Throw(r)
    BY <1>1, <2>18 DEF Throw, Served, TypeInv, TypeOK
  <2>19. CASE GiveUp(r)
    <3>1. executed[r] = "odd" /\ Reply(r, "504") /\ UNCHANGED <<input, executed>>
      BY <2>1, <2>19 DEF GiveUp, Served
    <3>2. QED
      BY <1>1, <3>1 DEF Reply, Served, Answer, Op, TypeInv, TypeOK
  <2>20. QED
    BY <1>3, <2>4, <2>5, <2>6, <2>7, <2>8, <2>10, <2>11, <2>12, <2>13, <2>14, <2>15, <2>16,
       <2>17, <2>18, <2>19 DEF Next, RequestStep
<1>4. QED
  BY <1>1, <1>3, StartedNext, ChanNext

\* A request without a flaw is served whenever everything that Consul, nginx
\* and the channels show is alive while it is under way.
THEOREM ServedCorrect == Spec => []ServedWhenHealthy
<1>1. ServedInv => ServedWhenHealthy
  BY DEF ServedInv, Served, ServedWhenHealthy
<1>2. QED
  BY ServedInit, ServedNext, <1>1, PTL DEF Spec
=============================================================================
