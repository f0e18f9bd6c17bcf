------------------------------ MODULE Discovery ------------------------------
(***************************************************************************)
(* How the parts of clouddisk_v2 find each other.  Gateways and back-end   *)
(* services register with Consul (ConsulRegister.cpp, concul.go), which    *)
(* checks their health; the gateways look back-end services up             *)
(* (consul.cpp), nginx fetches the list of gateways on a timer and picks   *)
(* one for each request (lua/).                                            *)
(*                                                                         *)
(* Consul is external: what it does is taken from the options with which   *)
(* this code registers.  It keeps its entries over an outage.  An instance *)
(* starts once: its id holds its port, which is a new one after a restart. *)
(***************************************************************************)
EXTENDS Naturals, FiniteSets

CONSTANTS
    Gateways,       \* instances of gateway_srv
    Backends,       \* instances of the service that the gateways look up
    RegisterFails,  \* may a registration fail?
    MaxDeaths,      \* bound: instances that die
    MaxOutages,     \* bound: outages of Consul
    MaxFetches      \* bound: fetched lists that nginx has not stored yet

Instances == Gateways \cup Backends

ASSUME InstanceAssumption == Gateways \cap Backends = {}
ASSUME DiscoveryBounds ==
    RegisterFails \in BOOLEAN /\ MaxDeaths \in Nat /\ MaxOutages \in Nat /\ MaxFetches \in Nat

VARIABLES
    life,       \* of each instance
    asked,      \* gateways whose registration is on its way
    entry,      \* what Consul knows of each instance
    consul,     \* does it answer?
    outages,    \* how often it has not
    fetches,    \* lists on their way to nginx
    list        \* the gateways in nginx's shared dictionary

discoveryVars == <<life, asked, entry, consul, outages, fetches, list>>

DiscoveryInit ==
    /\ life = [i \in Instances |-> "new"]
    /\ asked = {}
    /\ entry = [i \in Instances |-> "none"]
    /\ consul = TRUE /\ outages = 0
    /\ fetches = {} /\ list = {}

Up(i) == life[i] = "up"

-----------------------------------------------------------------------------
(* Instances *)

\* main of the gateway: the registration is sent when the loop begins.
StartGateway(g) ==
    /\ life[g] = "new"
    /\ life' = [life EXCEPT ![g] = "up"]
    /\ asked' = asked \cup {g}
    /\ UNCHANGED <<entry, consul, outages, fetches, list>>

\* It arrives, or an error is logged and nobody tries again.
Registered(g) ==
    /\ g \in asked
    /\ asked' = asked \ {g}
    /\ \/ consul /\ entry' = [entry EXCEPT ![g] = "critical"]
       \/ (RegisterFails \/ ~consul) /\ UNCHANGED entry
    /\ UNCHANGED <<life, consul, outages, fetches, list>>

\* RegisterGrpcService waits for its answer.
StartBackend(s) ==
    /\ life[s] = "new" /\ consul
    /\ life' = [life EXCEPT ![s] = "up"]
    /\ entry' = [entry EXCEPT ![s] = "critical"]
    /\ UNCHANGED <<asked, consul, outages, fetches, list>>

\* A crash, and an exit as well: ~ConsulRegister sends its request on a loop
\* that has stopped, so that it never leaves.
Die(i) ==
    /\ Up(i)
    /\ Cardinality({j \in Instances : life[j] = "dead"}) < MaxDeaths
    /\ life' = [life EXCEPT ![i] = "dead"]
    /\ asked' = asked \ {i}
    /\ UNCHANGED <<entry, consul, outages, fetches, list>>

-----------------------------------------------------------------------------
(* Consul *)

\* The periodic health check.
Check(i, responds) ==
    /\ consul /\ entry[i] # "none"
    /\ entry' = [entry EXCEPT ![i] = IF responds THEN "passing" ELSE "critical"]
    /\ UNCHANGED <<life, asked, consul, outages, fetches, list>>

\* DeregisterCriticalServiceAfter: nothing registers the instance again.
Reap(i, responds) ==
    /\ consul /\ entry[i] = "critical" /\ ~responds
    /\ entry' = [entry EXCEPT ![i] = "none"]
    /\ UNCHANGED <<life, asked, consul, outages, fetches, list>>

Outage ==
    /\ consul /\ outages < MaxOutages
    /\ consul' = FALSE
    /\ outages' = outages + 1
    /\ UNCHANGED <<life, asked, entry, fetches, list>>

Recover ==
    /\ ~consul
    /\ consul' = TRUE
    /\ UNCHANGED <<life, asked, entry, outages, fetches, list>>

Passing(set) == {i \in set : entry[i] = "passing"}

\* getServiceInstances: an error is an empty answer.  getRoundRobinInstance
\* starts counting at 0 in each lookup, so that it takes the first instance of
\* the answer, in whatever order Consul gives them.
Lookup == IF consul THEN Passing(Backends) ELSE {}

-----------------------------------------------------------------------------
(* nginx *)

\* Consul answers a fetch of consul_service.lua.  The timer does not wait for
\* the fetch before, so that there can be several.
Fetch ==
    /\ consul
    /\ Cardinality(fetches \cup {Passing(Gateways)}) <= MaxFetches
    /\ fetches' = fetches \cup {Passing(Gateways)}
    /\ UNCHANGED <<life, asked, entry, consul, outages, list>>

\* Mutant: an empty list is not stored.
Store_SkipEmpty(f) ==
    /\ f \in fetches
    /\ fetches' = fetches \ {f}
    /\ list' = IF f = {} THEN list ELSE f
    /\ UNCHANGED <<life, asked, entry, consul, outages>>

\* Mutant: dict:add, which keeps what is there, instead of dict:set.
Store_Once(f) ==
    /\ f \in fetches
    /\ fetches' = fetches \ {f}
    /\ list' = IF list = {} THEN f ELSE list
    /\ UNCHANGED <<life, asked, entry, consul, outages>>

\* The answer is stored, in whatever order the answers arrive.
Store(f) ==
    /\ f \in fetches
    /\ fetches' = fetches \ {f}
    /\ list' = f
    /\ UNCHANGED <<life, asked, entry, consul, outages>>

\* balancer.lua: any server of the list, by a hash of the request's id.
MayPick(g) == g \in list

-----------------------------------------------------------------------------
DiscoveryTypeOK ==
    /\ life \in [Instances -> {"new", "up", "dead"}]
    /\ asked \subseteq Gateways
    /\ entry \in [Instances -> {"none", "critical", "passing"}]
    /\ consul \in BOOLEAN /\ outages \in 0..MaxOutages
    /\ fetches \subseteq SUBSET Gateways /\ Cardinality(fetches) <= MaxFetches
    /\ list \subseteq Gateways
=============================================================================
