---------------------------- MODULE Configuration ----------------------------
(***************************************************************************)
(* The configuration of clouddisk_v2, from Nacos into the programs that    *)
(* use it.                                                                 *)
(*                                                                         *)
(* A Go server (Servers) loads it in internal/viper_config_centre.go: the  *)
(* listener is registered before the first fetch, so that OnChange (the    *)
(* "hook") runs beside init() on the same viper object and the same        *)
(* ViperConf, without a lock.  A C++ program (Fronts: the gateway in       *)
(* internal.cpp, email_srv in config.cpp) does the same on AppConfig, but  *)
(* its ConfigService is destroyed when InitAppConfig returns.              *)
(*                                                                         *)
(* The value of a section is the number of the document it comes from, 0   *)
(* when it was never set and Torn when two threads wrote it at once.       *)
(* External: Nacos and its clients (a listener is told of the newest       *)
(* document, one call at a time), viper's maps, MySQL, Kafka, OSS, MinIO.  *)
(***************************************************************************)
EXTENDS Naturals, Sequences, FiniteSets

CONSTANTS
    Servers,        \* Go programs that import internal/
    Fronts,         \* C++ programs
    Order,          \* the sections, in the order in which they are assigned
    FrontSections,  \* those that a C++ program reads
    Database,       \* those that Initdb needs ("mysql")
    Clients,        \* those that InitKafkaProducer and InitAli need
    Bucket,         \* those that InitMinio needs ("minio")
    MaxVersions,    \* bound: documents published
    MaxFaults,      \* bound: sections that are missing or ill-typed in a document
    MaxStarts,      \* bound: programs that start
    NacosFails,     \* may a request to Nacos fail?
    ServiceFails    \* may a request to MySQL, Kafka, OSS or MinIO fail?

Sections == {Order[i] : i \in 1..Len(Order)}
Programs == Servers \cup Fronts
Threads == {"init", "hook"}
Torn == MaxVersions + 1
Values == 0..Torn

\* What can be published: "has" are the sections with the types of the source,
\* "bad" those with others (Unmarshal reports an error, operator[] throws).
Document ==
    {d \in [form : {"json"}, has : SUBSET Sections, bad : SUBSET Sections] : d.has \cap d.bad = {}}
      \cup [form : {"malformed", "empty"}, has : {{}}, bad : {{}}]

ASSUME ProgramAssumption == Servers \cap Fronts = {}
ASSUME OrderAssumption ==
    /\ Order \in Seq(STRING) /\ Len(Order) > 0
    /\ \A i, j \in 1..Len(Order) : Order[i] = Order[j] => i = j
ASSUME SectionAssumption == FrontSections \cup Database \cup Clients \cup Bucket \subseteq Sections
ASSUME ConfigurationBounds ==
    /\ {MaxVersions, MaxFaults, MaxStarts} \subseteq Nat
    /\ {NacosFails, ServiceFails} \subseteq BOOLEAN

VARIABLES
    docs,       \* what was published, in order
    at,         \* where each thread of each program is
    doc,        \* the document that a thread works on
    left,       \* the sections that it has still to assign
    heard,      \* the newest document of which a listener was told
    listening,  \* programs with a listener
    map,        \* viper's map of each server: who made it and what is in it
    conf,       \* ViperConf or AppConfig
    bucket,     \* does the MinIO bucket exist?
    tables,     \* do the tables of orm_test exist?
    cause       \* why init() of a server may panic

vars == <<docs, at, doc, left, heard, listening, map, conf, bucket, tables, cause>>
shared == <<bucket, tables, cause>>

Unset == [s \in Sections |-> 0]

Init ==
    /\ docs = <<>>
    /\ at = [p \in Programs |-> [init |-> "listen", hook |-> "idle"]]
    /\ doc = [p \in Programs |-> [t \in Threads |-> 0]]
    /\ left = [p \in Programs |-> [t \in Threads |-> {}]]
    /\ heard = [p \in Programs |-> 0]
    /\ listening = {}
    /\ map = [p \in Servers |-> [by |-> "init", doc |-> 0, has |-> {}]]
    /\ conf = [p \in Programs |-> Unset]
    /\ bucket = FALSE
    /\ tables = FALSE
    /\ cause = [p \in Servers |-> "none"]

\* Somebody edits the configuration in Nacos.
Publish ==
    /\ Len(docs) < MaxVersions
    /\ \E d \in Document : /\ d.form = "json" => Cardinality(Sections \ d.has) <= MaxFaults
                          /\ docs' = Append(docs, d)
    /\ UNCHANGED <<at, doc, left, heard, listening, map, conf, shared>>

Go(p, t, place) == at' = [at EXCEPT ![p][t] = place]

\* Where a thread goes when its work on a document ends early: init() returns
\* and the program runs on with what it has, the hook waits for the next call.
Over(p, t) == IF t = "hook" THEN "idle" ELSE IF p \in Servers THEN "running" ELSE "leaving"

\* A program ends: the Go runtime's check, an uncaught exception, a crash.
End(p) ==
    /\ at' = [at EXCEPT ![p] = [init |-> "fatal", hook |-> "idle"]]
    /\ left' = [left EXCEPT ![p] = [t \in Threads |-> {}]]
    /\ listening' = listening \ {p}

First(S) == Order[CHOOSE i \in 1..Len(Order) :
                    Order[i] \in S /\ \A j \in 1..(i - 1) : Order[j] \notin S]

-----------------------------------------------------------------------------
(* Both languages: listener and first fetch *)

\* A failure: init() of a server returns, a C++ program does not catch it.
Listen(p) ==
    /\ at[p].init = "listen"
    /\ Cardinality({q \in Programs : at[q].init # "listen"}) < MaxStarts
    /\ \/ Go(p, "init", "get") /\ listening' = listening \cup {p} /\ UNCHANGED left
       \/ NacosFails /\ p \in Servers /\ Go(p, "init", "running") /\ UNCHANGED <<left, listening>>
       \/ NacosFails /\ p \in Fronts /\ End(p)
    /\ UNCHANGED <<docs, doc, heard, map, conf, shared>>

Newest == IF docs = <<>> THEN "empty" ELSE docs[Len(docs)].form

\* The newest document, unless there is none, it is empty or the call fails.
Get(p) ==
    /\ at[p].init = "get"
    /\ \/ /\ Newest # "empty"
          /\ doc' = [doc EXCEPT ![p].init = Len(docs)]
          /\ Go(p, "init", "parse")
       \/ /\ NacosFails \/ Newest = "empty"
          /\ Go(p, "init", Over(p, "init"))
          /\ UNCHANGED doc
    /\ UNCHANGED <<docs, left, heard, listening, map, conf, shared>>

\* The listener is called: OnChange ends at once on an empty document.
Change(p) ==
    /\ p \in listening /\ at[p].hook = "idle" /\ heard[p] < Len(docs)
    /\ heard' = [heard EXCEPT ![p] = Len(docs)]
    /\ doc' = [doc EXCEPT ![p].hook = Len(docs)]
    /\ IF Newest = "empty" THEN UNCHANGED at ELSE Go(p, "hook", "parse")
    /\ UNCHANGED <<docs, left, listening, map, conf, shared>>

-----------------------------------------------------------------------------
(* Go: viper *)

\* ReadConfig, first half: a new map replaces the old one.
NewMap(p, t) ==
    /\ at[p][t] = "parse"
    /\ map' = [map EXCEPT ![p] = [by |-> t, doc |-> doc[p][t], has |-> {}]]
    /\ Go(p, t, "fill")
    /\ UNCHANGED <<docs, doc, left, heard, listening, conf, shared>>

\* The keys of a document.
Present(d) == docs[d].has \cup docs[d].bad

\* Mutant: the configuration is read, but not unmarshalled.
Fill_Only(p, t) ==
    /\ at[p][t] = "fill"
    /\ map' = [map EXCEPT ![p].has = Present(doc[p][t])]
    /\ Go(p, t, Over(p, t))
    /\ UNCHANGED <<docs, doc, left, heard, listening, conf, shared>>

\* ReadConfig, second half: JSON is decoded into that map, which the other
\* thread may have replaced.
Fill(p, t) ==
    /\ at[p][t] = "fill"
    /\ IF docs[doc[p][t]].form = "malformed"
       THEN Go(p, t, Over(p, t)) /\ UNCHANGED map
       ELSE /\ map' = IF map[p].by = t THEN [map EXCEPT ![p].has = Present(doc[p][t])] ELSE map
            /\ Go(p, t, "unmarshal")
    /\ UNCHANGED <<docs, doc, left, heard, listening, conf, shared>>

\* Mutant: Unmarshal sets what is missing to its zero value.
Keys_All(m) == Sections

\* The sections that Unmarshal visits: those in the map, and no others.
Keys(m) == m.has

\* Unmarshal, first half: it walks the map, whoever made it.  When the other
\* thread is filling it, any part of it may be seen.
Walk(p, t) ==
    LET filling == \E u \in Threads \ {t} : at[p][u] = "fill" /\ map[p].by = u
    IN  /\ at[p][t] = "unmarshal"
        /\ left' \in {[left EXCEPT ![p][t] = S] :
                        S \in IF filling THEN SUBSET Present(map[p].doc) ELSE {Keys(map[p])}}
        /\ doc' = [doc EXCEPT ![p][t] = map[p].doc]
        /\ Go(p, t, "assign")
        /\ UNCHANGED <<docs, heard, listening, map, conf, shared>>

\* The Go runtime ends a program that reads a map while it is written.
Fatal(p) ==
    /\ \E t, u \in Threads : /\ t # u /\ at[p][t] = "unmarshal"
                             /\ at[p][u] = "fill" /\ map[p].by = u
    /\ End(p)
    /\ UNCHANGED <<docs, doc, heard, map, conf, shared>>

\* What a thread can still assign; C++ tries the ill-typed ones as well.
Typed(p, t) == IF p \in Servers THEN left[p][t] \ docs[doc[p][t]].bad ELSE left[p][t]

Value(d, s) == IF s \in docs[d].has THEN d ELSE 0

\* Unmarshal, second half: ViperConf, section by section; an ill-typed one is
\* left as it is.
Assign(p, t) ==
    /\ at[p][t] = "assign" /\ Typed(p, t) # {}
    /\ LET s == First(Typed(p, t))
       IN  /\ left' = [left EXCEPT ![p][t] = @ \ {s}]
           /\ conf' = [conf EXCEPT ![p][s] = Value(doc[p][t], s)]
    /\ UNCHANGED <<docs, at, doc, heard, listening, map, shared>>

\* The hook is done; init() goes on to InitRedis .. InitMinio, or returns when
\* Unmarshal reports an ill-typed section.
Assigned(p, t) ==
    /\ at[p][t] = "assign" /\ Typed(p, t) = {}
    /\ Go(p, t, IF t = "hook" \/ left[p][t] # {} THEN Over(p, t) ELSE "services")
    /\ left' = [left EXCEPT ![p][t] = {}]
    /\ UNCHANGED <<docs, doc, heard, listening, map, conf, shared>>

\* Both threads write one section at the same time.  What a std::string holds
\* then may also end the program.
Collide(p, place) ==
    /\ \A t \in Threads : at[p][t] = place /\ Typed(p, t) # {}
    /\ LET s == First(Typed(p, "init"))
       IN  /\ s = First(Typed(p, "hook"))
           /\ \A t \in Threads : s \in docs[doc[p][t]].has
           /\ \/ /\ left' = [left EXCEPT ![p] = [t \in Threads |-> @[t] \ {s}]]
                 /\ conf' = [conf EXCEPT ![p][s] = Torn]
                 /\ UNCHANGED <<at, listening>>
              \/ p \in Fronts /\ End(p) /\ UNCHANGED conf
    /\ UNCHANGED <<docs, doc, heard, map, shared>>

-----------------------------------------------------------------------------
(* Go: InitRedis .. InitMinio *)

\* A panic in init() ends the program.
Panic(p) ==
    /\ at' = [at EXCEPT ![p] = [init |-> "panic", hook |-> "idle"]]
    /\ left' = [left EXCEPT ![p] = [t \in Threads |-> {}]]
    /\ listening' = listening \ {p}

Because(p, why) == cause' = [cause EXCEPT ![p] = why]

Stay == UNCHANGED <<left, listening, cause>>

\* A step that needs sections and a service: without either of them it panics.
Needs(p, S, next) ==
    LET unset == \E s \in S : conf[p][s] = 0
    IN  \/ ~unset /\ Go(p, "init", next) /\ Stay
        \/ unset /\ Because(p, "section") /\ Panic(p)
        \/ ServiceFails /\ Because(p, "service") /\ Panic(p)

\* InitRedis only prints the error, InitConsul logs it; Initdb connects.
Connect(p) ==
    /\ at[p].init = "services"
    /\ Needs(p, Database, IF tables THEN "clients" ELSE "create")
    /\ UNCHANGED <<docs, doc, heard, map, conf, bucket, tables>>

\* AutoMigrate has found no tables and creates them, which is an error when
\* another server was faster.
CreateTables(p) ==
    /\ at[p].init = "create"
    /\ \/ ~tables /\ tables' = TRUE /\ Go(p, "init", "clients") /\ Stay
       \/ tables /\ Because(p, "tables") /\ Panic(p) /\ UNCHANGED tables
       \/ ServiceFails /\ Because(p, "service") /\ Panic(p) /\ UNCHANGED tables
    /\ UNCHANGED <<docs, doc, heard, map, conf, bucket>>

\* InitKafkaProducer, InitAli
CreateClients(p) ==
    /\ at[p].init = "clients"
    /\ Needs(p, Clients, "exists")
    /\ UNCHANGED <<docs, doc, heard, map, conf, bucket, tables>>

\* NewMinIOOSSClient: is the bucket there?  Without its section it has neither
\* an endpoint nor a name, which is an error as well.
BucketExists(p) ==
    /\ at[p].init = "exists"
    /\ Needs(p, Bucket, IF bucket THEN "running" ELSE "make")
    /\ UNCHANGED <<docs, doc, heard, map, conf, bucket, tables>>

\* Mutant: an error of MakeBucket counts at once.
MakeBucket_Once(p) ==
    /\ at[p].init = "make"
    /\ \/ ~bucket /\ bucket' = TRUE /\ Go(p, "init", "running") /\ Stay
       \/ bucket /\ Panic(p) /\ UNCHANGED <<bucket, cause>>
    /\ UNCHANGED <<docs, doc, heard, map, conf, tables>>

\* Creating it is an error when another server was faster.
MakeBucket(p) ==
    /\ at[p].init = "make"
    /\ \/ ~bucket /\ bucket' = TRUE /\ Go(p, "init", "running") /\ UNCHANGED cause
       \/ bucket /\ Go(p, "init", "again") /\ UNCHANGED <<bucket, cause>>
       \/ ServiceFails /\ Go(p, "init", "again") /\ Because(p, "service") /\ UNCHANGED bucket
    /\ UNCHANGED <<docs, doc, left, heard, listening, map, conf, tables>>

\* So it is looked up again before the error counts.
ExistsAgain(p) ==
    /\ at[p].init = "again"
    /\ \/ bucket /\ Go(p, "init", "running") /\ Stay
       \/ ~bucket /\ Panic(p) /\ UNCHANGED cause
       \/ ServiceFails /\ Because(p, "service") /\ Panic(p)
    /\ UNCHANGED <<docs, doc, heard, map, conf, bucket, tables>>

\* A server that is not among Servers has created the tables or the bucket.
OtherServer ==
    /\ \/ ~tables /\ tables' = TRUE /\ UNCHANGED bucket
       \/ tables /\ ~bucket /\ bucket' = TRUE /\ UNCHANGED tables
    /\ UNCHANGED <<docs, at, doc, left, heard, listening, map, conf, cause>>

-----------------------------------------------------------------------------
(* C++: LoadConfigFromString and the end of InitAppConfig *)

Parse(p, t) ==
    /\ at[p][t] = "parse"
    /\ IF docs[doc[p][t]].form = "malformed"
       THEN Go(p, t, Over(p, t)) /\ UNCHANGED left
       ELSE Go(p, t, "load") /\ left' = [left EXCEPT ![p][t] = FrontSections]
    /\ UNCHANGED <<docs, doc, heard, listening, map, conf, shared>>

\* Mutant: a missing section is skipped.
Load_Skip(p, t) ==
    /\ at[p][t] = "load" /\ left[p][t] # {}
    /\ LET s == First(left[p][t])
       IN  /\ left' = [left EXCEPT ![p][t] = @ \ {s}]
           /\ conf' = IF s \in docs[doc[p][t]].has THEN [conf EXCEPT ![p][s] = doc[p][t]] ELSE conf
    /\ UNCHANGED <<docs, at, doc, heard, listening, map, shared>>

\* A section that is missing or ill-typed throws: those before it stay assigned.
Load(p, t) ==
    /\ at[p][t] = "load" /\ left[p][t] # {}
    /\ LET s == First(left[p][t])
           there == s \in docs[doc[p][t]].has
       IN  /\ left' = [left EXCEPT ![p][t] = IF there THEN @ \ {s} ELSE {}]
           /\ conf' = IF there THEN [conf EXCEPT ![p][s] = doc[p][t]] ELSE conf
    /\ UNCHANGED <<docs, at, doc, heard, listening, map, shared>>

Loaded(p, t) ==
    /\ at[p][t] = "load" /\ left[p][t] = {}
    /\ Go(p, t, Over(p, t))
    /\ UNCHANGED <<docs, doc, left, heard, listening, map, conf, shared>>

\* The guards destroy the ConfigService, which ends its threads; main goes on
\* and reads AppConfig.
Return(p) ==
    /\ at[p].init = "leaving" /\ at[p].hook = "idle"
    /\ Go(p, "init", "running")
    /\ listening' = listening \ {p}
    /\ UNCHANGED <<docs, doc, left, heard, map, conf, shared>>

-----------------------------------------------------------------------------
(* The specification *)

Thread(p, t) ==
    \/ p \in Servers /\ (NewMap(p, t) \/ Fill(p, t) \/ Walk(p, t) \/ Assign(p, t) \/ Assigned(p, t))
    \/ p \in Fronts /\ (Parse(p, t) \/ Load(p, t) \/ Loaded(p, t))

GoOnly(p) ==
    \/ Fatal(p) \/ Collide(p, "assign")
    \/ Connect(p) \/ CreateTables(p) \/ CreateClients(p)
    \/ BucketExists(p) \/ MakeBucket(p) \/ ExistsAgain(p)

Next ==
    \/ Publish \/ OtherServer
    \/ \E p \in Programs : Listen(p) \/ Get(p) \/ Change(p) \/ \E t \in Threads : Thread(p, t)
    \/ \E p \in Servers : GoOnly(p)
    \/ \E p \in Fronts : Collide(p, "load") \/ Return(p)

Spec == Init /\ [][Next]_vars

\* Nacos tells its listeners of a change, and OnChange ends.  Nothing is asked
\* of init(), which may wait for a service as long as it likes.
FairSpec ==
    /\ Spec
    /\ \A p \in Servers : WF_vars(Change(p)) /\ WF_vars(Thread(p, "hook"))

-----------------------------------------------------------------------------
(* Properties *)

Places == {"listen", "get", "parse", "fill", "unmarshal", "assign", "services", "create",
           "clients", "exists", "make", "again", "load", "leaving", "running", "panic", "fatal", "idle"}

\* Type invariant; a thread that has begun on a document has one.
TypeOK ==
    /\ docs \in Seq(Document) /\ Len(docs) <= MaxVersions
    /\ at \in [Programs -> [Threads -> Places]]
    /\ doc \in [Programs -> [Threads -> 0..Len(docs)]]
    /\ \A p \in Programs, t \in Threads :
          at[p][t] \in {"parse", "fill", "unmarshal", "assign", "load"} => doc[p][t] > 0
    /\ left \in [Programs -> [Threads -> SUBSET Sections]]
    /\ heard \in [Programs -> 0..Len(docs)]
    /\ listening \subseteq Programs
    /\ map \in [Servers -> [by : Threads, doc : 0..Len(docs), has : SUBSET Sections]]
    /\ conf \in [Programs -> [Sections -> Values]]
    /\ {bucket, tables} \subseteq BOOLEAN
    /\ cause \in [Servers -> {"none", "service", "section", "tables"}]

\* Whatever is published, malformed, empty or without a section, a section
\* that a program has once loaded is never lost: not even when OnChange
\* replaces viper's map between ReadConfig and Unmarshal of init().
NeverErased ==
    [][\A p \in Programs, s \in Sections : conf[p][s] # 0 => conf'[p][s] # 0]_vars

\* Once init() has assigned ViperConf (viper_config_centre.go:106), a section
\* that OnChange has brought up to what it was told of never goes back.
Past(p) ==
    at[p].init \in {"services", "create", "clients", "exists", "make", "again", "running"}
NoRollback ==
    [][\A p \in Servers, s \in Sections :
          Past(p) /\ conf[p][s] <= heard[p] => conf'[p][s] >= conf[p][s]]_vars

\* Hot update (viper_config_centre.go:65): a section published when init() has
\* done its part is in ViperConf in the end, unless the program ends or
\* something newer is published.
UpdateArrives ==
    \A p \in Servers, s \in Sections, n \in 1..MaxVersions :
        ( /\ Past(p) /\ p \in listening /\ at[p].hook = "idle" /\ heard[p] < n
          /\ Len(docs) = n /\ docs[n].form = "json" /\ s \in docs[n].has )
        ~> (conf[p][s] = n \/ at[p].init = "panic" \/ Len(docs) > n)

\* Servers that start together do not make each other fail over the bucket
\* (minio.go:79, :88): init() ends only for an error of a service, for a
\* section that was never set, or over the tables (db.go:64).
BucketIsShared == \A p \in Servers : at[p].init = "panic" => cause[p] # "none"

\* A C++ program has a section only if it has all that are read before it (the
\* signing key of the gateway is the last): an exception leaves a beginning.
LoadedInOrder ==
    \A p \in Fronts, i, j \in 1..Len(Order) :
        i < j /\ {Order[i], Order[j]} \subseteq FrontSections /\ conf[p][Order[j]] # 0
        => conf[p][Order[i]] # 0
=============================================================================
