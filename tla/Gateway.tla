------------------------------- MODULE Gateway -------------------------------
(***************************************************************************)
(* The gateway's controllers (gateway/controllers, gateway/filters) behind *)
(* nginx.  A handler runs on the one event loop of its process, finds a    *)
(* stub for the back-end service (FindService), checks the request and     *)
(* starts an asynchronous gRPC call, whose callback answers.               *)
(*                                                                         *)
(* A stub is looked up in Consul, which blocks the loop, unless the cached *)
(* channel is READY.  The cache is an ArcCache; each controller uses one   *)
(* key, which is never evicted, so that a single entry stands for it.      *)
(* gRPC and drogon are external: a call ends when the back end answers,    *)
(* with or without an error, or dies (no deadline is set); an exception in *)
(* a callback is swallowed by gRPC; a reply leaves the process when the    *)
(* loop is free.                                                           *)
(***************************************************************************)
EXTENDS Discovery

CONSTANTS
    Requests,   \* requests of browsers
    Inputs,     \* pairs of an operation and a flaw that are tried
    HangsLong,  \* may a lookup hang until its gateway is deregistered?
    None        \* no instance, request or reply

ASSUME NoneAssumption == None \notin Instances \cup Requests
ASSUME HangAssumption == HangsLong \in BOOLEAN

VARIABLES
    busy,       \* the request whose lookup blocks the loop of a gateway
    chan,       \* the cached channel: where it leads and its state
    pc,         \* of each request
    input,      \* its operation and its flaw
    at,         \* the gateway it was sent to
    stub,       \* the back end it calls
    reply,      \* the status the browser got last
    replies,    \* how many replies there were
    (* History, for the properties. *)
    executed,   \* what the back end has made of the call
    troubled    \* requests during which something was not healthy

requestVars == <<pc, input, at, stub, reply, replies, executed>>
vars == <<discoveryVars, busy, chan, requestVars, troubled>>

Ops == {"signup", "signin", "userinfo", "filequeryinfo", "filedowm", "LoadFile",
        "Showfile", "aiRequest"}
\* What can be wrong: the token, the claims in it (no id or no name), a body
\* that is not JSON, a field of another type.
Flaws == {"none", "token", "claims", "body", "field"}

ASSUME InputAssumption == Inputs \subseteq Ops \X Flaws

Filtered == Ops \ {"signup", "signin"}
ChecksClaims == {"filequeryinfo", "aiRequest"}
NeedsBody == {"signup", "signin", "filedowm", "LoadFile", "Showfile"}
ReadsFields == NeedsBody \cup {"aiRequest"}
Redirects == {"filedowm", "Showfile"}

Statuses == {"200", "30x", "400", "401", "500", "502", "503", "504"}
ASSUME StatusAssumption == None \notin Statuses

Op(r) == input[r][1]
Flaw(r) == input[r][2]

\* What the handler answers once it has a stub, or None: a field of another
\* type throws, and the framework answers.
Refusal(r) ==
    CASE Flaw(r) = "claims" /\ Op(r) \in ChecksClaims -> "401"
      [] Flaw(r) = "body" /\ Op(r) \in NeedsBody -> "400"
      [] Flaw(r) = "field" /\ Op(r) \in ReadsFields -> "500"
      [] OTHER -> None

\* How a live back end ends a call: with the code of success or another one in
\* the response, with a status that is not OK, and AI_srv also with the code of
\* success and JSON data whose fields are not strings.
Ends(r) == {"good", "bad", "error"} \cup (IF Op(r) = "aiRequest" THEN {"odd"} ELSE {})

\* Mutant: the callback looks at the status of the call only.
Answer_StatusOnly(r) ==
    CASE executed[r] = "error" -> "500"
      [] executed[r] = "odd" -> "504"
      [] OTHER -> IF Op(r) \in Redirects THEN "30x" ELSE "200"

\* What comes of it.  The code in the response counts, except for the two
\* operations that redirect.  What AI_srv may ask aiRequest to answer, a
\* redirection among it, counts as its 200; asString throws on odd data.
Answer(r) ==
    CASE executed[r] = "error" -> "500"
      [] executed[r] = "odd" -> "504"
      [] executed[r] \in {"good", "bad"} /\ Op(r) \in Redirects -> "30x"
      [] executed[r] = "good" /\ Op(r) \notin Redirects -> "200"
      [] executed[r] = "bad" /\ Op(r) = "aiRequest" -> "400"
      [] OTHER -> "500"

Unavailable(r) == IF Op(r) = "aiRequest" THEN "500" ELSE "503"

Init ==
    /\ DiscoveryInit
    /\ busy = [g \in Gateways |-> None]
    /\ chan = [g \in Gateways |-> [to |-> None, state |-> "idle"]]
    /\ pc = [r \in Requests |-> "new"]
    /\ input = [r \in Requests |-> None]
    /\ at = [r \in Requests |-> None]
    /\ stub = [r \in Requests |-> None]
    /\ reply = [r \in Requests |-> None]
    /\ replies = [r \in Requests |-> 0]
    /\ executed = [r \in Requests |-> "no"]
    /\ troubled = {}

\* A reply ends the request.
Reply(r, status) ==
    /\ pc' = [pc EXCEPT ![r] = "replied"]
    /\ at' = [at EXCEPT ![r] = None]
    /\ stub' = [stub EXCEPT ![r] = None]
    /\ reply' = [reply EXCEPT ![r] = status]
    /\ replies' = [replies EXCEPT ![r] = @ + 1]

-----------------------------------------------------------------------------
(* nginx sends a request to a gateway, once: 502 if there is none, if it   *)
(* does not answer, and if the connection breaks later.                    *)

Send(r, in) ==
    /\ pc[r] = "new"
    /\ input' = [input EXCEPT ![r] = in]
    /\ \/ /\ \E g \in Gateways :
                /\ MayPick(g) /\ Up(g)
                /\ at' = [at EXCEPT ![r] = g]
          /\ pc' = [pc EXCEPT ![r] = "queued"]
          /\ UNCHANGED <<stub, reply, replies>>
       \/ /\ list = {} \/ \E g \in Gateways : MayPick(g) /\ ~Up(g)
          /\ Reply(r, "502")
    /\ UNCHANGED <<discoveryVars, busy, chan, executed>>

Disconnect(r) ==
    /\ pc[r] \notin {"new", "replied"} /\ ~Up(at[r])
    /\ Reply(r, "502")
    /\ UNCHANGED <<discoveryVars, busy, chan, input, executed>>

-----------------------------------------------------------------------------
(* Handlers *)

\* The loop of r's gateway takes r up.
Turn(r) == pc[r] = "queued" /\ Up(at[r]) /\ busy[at[r]] = None

\* The filter jwt_decode runs before the handler.
Reject(r) ==
    /\ Turn(r)
    /\ Flaw(r) = "token" /\ Op(r) \in Filtered
    /\ Reply(r, "401")
    /\ UNCHANGED <<discoveryVars, busy, chan, input, executed>>

Admitted(r) == Turn(r) /\ ~(Flaw(r) = "token" /\ Op(r) \in Filtered)

\* Mutant: FindService does not ask for the state of the cached channel.
Usable_Any(g) == chan[g].to # None

\* isChannelReady: GetState(false), which does not make an idle channel dial.
Usable(g) == chan[g].to # None /\ chan[g].state = "ready"

\* Mutant: no return after the refusal.
Proceed_NoReturn(r, s) ==
    /\ pc' = [pc EXCEPT ![r] = "call"]
    /\ stub' = [stub EXCEPT ![r] = s]
    /\ reply' = [reply EXCEPT ![r] = Refusal(r)]
    /\ replies' = [replies EXCEPT ![r] = IF Refusal(r) = None THEN @ ELSE @ + 1]
    /\ UNCHANGED at

\* The rest of the handler: the checks, and the call.
Proceed(r, s) ==
    IF Refusal(r) # None
    THEN Reply(r, Refusal(r))
    ELSE /\ pc' = [pc EXCEPT ![r] = "call"]
         /\ stub' = [stub EXCEPT ![r] = s]
         /\ UNCHANGED <<at, reply, replies>>

\* FindService with a usable channel in the cache ...
Hit(r) ==
    /\ Admitted(r) /\ Usable(at[r])
    /\ Proceed(r, chan[at[r]].to)
    /\ UNCHANGED <<discoveryVars, busy, chan, input, executed>>

\* ... and without one: the loop waits for Consul, without a timeout.
Miss(r) ==
    /\ Admitted(r) /\ ~Usable(at[r])
    /\ pc' = [pc EXCEPT ![r] = "lookup"]
    /\ busy' = [busy EXCEPT ![at[r]] = r]
    /\ UNCHANGED <<discoveryVars, chan, input, at, stub, reply, replies, executed>>

\* A new channel replaces the cached one.  It dials when it is used; calls on
\* the old one keep it, for their contexts refer to it.
Found(r, s) ==
    /\ pc[r] = "lookup" /\ Up(at[r])
    /\ s \in Lookup
    /\ busy' = [busy EXCEPT ![at[r]] = None]
    /\ chan' = [chan EXCEPT ![at[r]] =
                  [to |-> s, state |-> IF Refusal(r) = None THEN "dialling" ELSE "idle"]]
    /\ Proceed(r, s)
    /\ UNCHANGED <<discoveryVars, input, executed>>

NotFound(r) ==
    /\ pc[r] = "lookup" /\ Up(at[r])
    /\ Lookup = {}
    /\ busy' = [busy EXCEPT ![at[r]] = None]
    /\ Reply(r, Unavailable(r))
    /\ UNCHANGED <<discoveryVars, chan, input, executed>>

-----------------------------------------------------------------------------
(* Calls *)

\* The back end ends the call.
Execute(r) ==
    /\ pc[r] = "call" /\ Up(stub[r]) /\ executed[r] = "no"
    /\ \E end \in Ends(r) : executed' = [executed EXCEPT ![r] = end]
    /\ UNCHANGED <<discoveryVars, busy, chan, pc, input, at, stub, reply, replies>>

\* The callback runs: in a thread of gRPC, but the reply goes through the loop.
MayReply(r) == pc[r] = "call" /\ Up(at[r]) /\ busy[at[r]] = None

\* Mutant: no reply if the service refuses.
Succeed_Silent(r) ==
    /\ MayReply(r) /\ executed[r] \in {"good", "bad"}
    /\ IF executed[r] = "good" THEN Reply(r, Answer(r))
       ELSE pc' = [pc EXCEPT ![r] = "lost"] /\ UNCHANGED <<at, stub, reply, replies>>
    /\ UNCHANGED <<discoveryVars, busy, chan, input, executed>>

Succeed(r) ==
    /\ MayReply(r) /\ executed[r] \in {"good", "bad"}
    /\ Reply(r, Answer(r))
    /\ UNCHANGED <<discoveryVars, busy, chan, input, executed>>

\* The status is not OK: the back end says so, or it is dead, in which case the
\* call may have been executed all the same.
Fail(r) ==
    /\ MayReply(r)
    /\ ~Up(stub[r]) \/ executed[r] = "error"
    /\ Reply(r, "500")
    /\ UNCHANGED <<discoveryVars, busy, chan, input, executed>>

\* The callback of aiRequest throws: nobody replies ...
Throw(r) ==
    /\ pc[r] = "call" /\ Up(at[r]) /\ executed[r] = "odd"
    /\ pc' = [pc EXCEPT ![r] = "silent"]
    /\ UNCHANGED <<discoveryVars, busy, chan, input, at, stub, reply, replies, executed>>

\* ... until nginx has waited long enough.
GiveUp(r) ==
    /\ pc[r] = "silent" /\ Up(at[r])
    /\ Reply(r, "504")
    /\ UNCHANGED <<discoveryVars, busy, chan, input, executed>>

\* The cached channel connects, fails to connect or breaks, or goes idle after
\* a long time without a call.
Connect(g) ==
    /\ Up(g) /\ chan[g].state = "dialling"
    /\ chan' = [chan EXCEPT ![g].state = IF Up(chan[g].to) THEN "ready" ELSE "idle"]
    /\ UNCHANGED <<discoveryVars, busy, requestVars>>

Break(g) ==
    /\ Up(g) /\ chan[g].state = "ready"
    /\ \/ ~Up(chan[g].to)
       \/ \A r \in Requests : ~(pc[r] = "call" /\ at[r] = g)
    /\ chan' = [chan EXCEPT ![g].state = "idle"]
    /\ UNCHANGED <<discoveryVars, busy, requestVars>>

-----------------------------------------------------------------------------
\* A gateway answers a health check if its loop is free.
Responds(i) == Up(i) /\ (i \in Gateways => busy[i] = None)

\* An instance that has not answered for 30 seconds is deregistered.
Silent(i) == ~Responds(i) /\ (HangsLong \/ ~Up(i))

DiscoveryStep ==
    /\ \/ \E g \in Gateways : StartGateway(g) \/ Registered(g)
       \/ \E s \in Backends : StartBackend(s)
       \/ \E i \in Instances : Check(i, Responds(i)) \/ Reap(i, ~Silent(i))
       \/ Outage \/ Recover
       \/ Fetch \/ \E f \in fetches : Store(f)
    /\ UNCHANGED <<busy, chan, requestVars>>

\* A process dies; its cache and its loop are no more.
Crash(i) ==
    /\ Die(i)
    /\ busy' = [g \in Gateways |-> IF g = i THEN None ELSE busy[g]]
    /\ chan' = [g \in Gateways |->
                  IF g = i THEN [to |-> None, state |-> "idle"] ELSE chan[g]]
    /\ UNCHANGED requestVars

\* Nothing stale for r: whatever is listed, passing or connected lives, there is
\* somebody at each stage, and r's own gateway lives.
Healthy(r) ==
    /\ consul
    /\ list # {} /\ \A g \in list : Up(g)
    /\ Passing(Backends) # {} /\ \A s \in Passing(Backends) : Up(s)
    /\ \A g \in Gateways : chan[g].state = "ready" => Up(chan[g].to)
    /\ at[r] # None => Up(at[r])

RequestStep(r) ==
    \/ Disconnect(r)
    \/ Reject(r) \/ Hit(r) \/ Miss(r) \/ NotFound(r)
    \/ \E s \in Backends : Found(r, s)
    \/ Execute(r) \/ Succeed(r) \/ Fail(r) \/ Throw(r) \/ GiveUp(r)

Observe ==
    troubled' = troubled \cup
        {r \in Requests : pc'[r] # "new" /\ pc[r] # "replied" /\ ~(Healthy(r) /\ Healthy(r)')}

Next ==
    /\ \/ DiscoveryStep
       \/ \E i \in Instances : Crash(i)
       \/ \E r \in Requests : RequestStep(r) \/ \E in \in Inputs : Send(r, in)
       \/ \E g \in Gateways : Connect(g) \/ Break(g)
    /\ Observe

Spec == Init /\ [][Next]_vars

\* The loop takes up what has arrived, a back end ends a call or dies, the
\* timers of nginx fire, Consul comes back, answers and reaches every instance.
Fairness ==
    /\ \A r \in Requests : WF_vars(RequestStep(r) /\ Observe)
    /\ LET Quiet == UNCHANGED <<busy, chan, requestVars>> /\ Observe IN
          /\ \A g \in Gateways : WF_vars(Registered(g) /\ Quiet)
          /\ \A i \in Instances : WF_vars(Check(i, Responds(i)) /\ Quiet)
          /\ WF_vars(Recover /\ Quiet)
          /\ WF_vars(Fetch /\ Quiet)
          /\ \A f \in SUBSET Gateways : WF_vars(Store(f) /\ Quiet)

FairSpec == Spec /\ Fairness

-----------------------------------------------------------------------------
(* Properties *)

TypeOK ==
    /\ DiscoveryTypeOK
    /\ busy \in [Gateways -> Requests \cup {None}]
    /\ chan \in [Gateways -> [to : Backends \cup {None},
                             state : {"idle", "dialling", "ready"}]]
    /\ \A g \in Gateways : chan[g].to = None => chan[g].state = "idle"
    /\ pc \in [Requests -> {"new", "queued", "lookup", "call", "silent", "replied"}]
    /\ input \in [Requests -> Inputs \cup {None}]
    /\ at \in [Requests -> Gateways \cup {None}]
    /\ stub \in [Requests -> Backends \cup {None}]
    /\ \A r \in Requests : pc[r] = "call" => stub[r] # None
    /\ reply \in [Requests -> Statuses \cup {None}]
    /\ replies \in [Requests -> Nat]
    /\ executed \in [Requests -> {"no", "good", "bad", "error", "odd"}]
    /\ troubled \subseteq Requests

\* A browser gets one reply, whichever of the filter, the handler, the callback
\* of the call and nginx ends its request.
RepliedOnce == \A r \in Requests : replies[r] <= 1

\* What was refused had no effect: no back end executes a request that was
\* answered with 401, because of its token or of its claims, or with 503.
RefusedHasNoEffect ==
    \A r \in Requests : reply[r] \in {"401", "503"} => executed[r] = "no"

\* A browser is told of success (200) only if a back end executed the call and
\* said so: no refusal, error, death or odd answer is taken for one, whichever
\* channel the call went over.  The redirections of filedowm and Showfile are
\* no such promise: their callbacks do not look at the code.
SuccessIsExecuted ==
    \A r \in Requests : reply[r] = "200" => executed[r] = "good"

\* A request without a flaw that nothing stale stands in the way of reaches a
\* back end, and is answered with what that makes of it: neither the cached
\* channels, nor their replacement under calls in progress, nor the lists of
\* Consul and nginx make one fail while they show living instances.
ServedWhenHealthy ==
    \A r \in Requests \ troubled :
        pc[r] = "replied" /\ Flaw(r) = "none" =>
            executed[r] # "no" /\ reply[r] = Answer(r)

\* No request is on its way for ever: each one is answered, although a lookup
\* blocks the loop that all the handlers and replies of a gateway share, and
\* although processes die.
EveryRequestAnswered ==
    \A r \in Requests : []<>(pc[r] \in {"new", "replied"})

\* A dead gateway leaves nginx's list for good, the last one as well, in
\* whatever order the fetched lists arrive.
DeadIsUnlisted ==
    \A g \in Gateways : <>[](life[g] = "dead" => g \notin list)

\* A gateway that Consul knows, and that lives and blocks no more from some time
\* on, is in nginx's list for good in the end, whatever health checks it has
\* failed before.  One that was deregistered after a long hang, or whose
\* registration failed, is no such gateway: nothing registers it again.
UpIsListed ==
    \A g \in Gateways :
        <>[](entry[g] # "none" /\ Up(g) /\ busy[g] = None) => <>[](g \in list)
=============================================================================
