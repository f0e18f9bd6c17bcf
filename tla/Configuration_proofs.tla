------------------------- MODULE Configuration_proofs -------------------------
(***************************************************************************)
(* Proofs about Configuration, for any programs, any list of sections and   *)
(* any sequence of documents.                                              *)
(***************************************************************************)
EXTENDS Configuration, WellFoundedInduction, TLAPS

-----------------------------------------------------------------------------
(* Type correctness *)

\* Where the threads of each language can be.
PlacesOf(p, t) ==
    IF p \in Servers
    THEN IF t = "hook" THEN {"idle", "parse", "fill", "unmarshal", "assign"}
                       ELSE Places \ {"load", "leaving", "idle"}
    ELSE IF t = "hook" THEN {"idle", "parse", "load"}
                       ELSE {"listen", "get", "parse", "load", "leaving", "running", "fatal"}

Placed == \A p \in Programs, t \in Threads : at[p][t] \in PlacesOf(p, t)

\* What ReadConfig has done by the time Unmarshal runs.
Mapped == \A p \in Servers, t \in Threads : at[p][t] \in {"fill", "unmarshal"} => map[p].doc > 0

Working == {"parse", "fill", "unmarshal", "assign", "load"}

Begun == \A p \in Programs, t \in Threads : at[p][t] \in Working => doc[p][t] > 0

AtOK ==
    /\ at \in [Programs -> [Threads -> Places]]
    /\ Placed /\ Mapped /\ Begun

SharedOK ==
    /\ {bucket, tables} \subseteq BOOLEAN
    /\ cause \in [Servers -> {"none", "service", "section", "tables"}]

LEMMA SharedStays == SharedOK /\ UNCHANGED shared => SharedOK'
  BY DEF SharedOK, shared

DataOK ==
    /\ docs \in Seq(Document) /\ Len(docs) <= MaxVersions
    /\ doc \in [Programs -> [Threads -> 0..Len(docs)]]
    /\ left \in [Programs -> [Threads -> SUBSET Sections]]
    /\ heard \in [Programs -> 0..Len(docs)]
    /\ listening \subseteq Programs
    /\ map \in [Servers -> [by : Threads, doc : 0..Len(docs), has : SUBSET Sections]]
    /\ conf \in [Programs -> [Sections -> Values]]
    /\ SharedOK

TypeInv == AtOK /\ DataOK

LEMMA TypeIsInvariant == TypeInv => TypeOK
  BY DEF TypeInv, AtOK, DataOK, SharedOK, Begun, Working, TypeOK

LEMMA TypeInit == Init => TypeInv
<1> SUFFICES ASSUME Init PROVE TypeInv
  OBVIOUS
<1>1. docs \in Seq(Document) /\ Len(docs) = 0 /\ 0 \in 0..Len(docs)
  BY DEF Init
<1>2. \A p \in Programs : at[p] = [init |-> "listen", hook |-> "idle"]
  BY DEF Init
<1>3. at \in [Programs -> [Threads -> Places]]
  BY DEF Init, Threads, Places
<1>4. Placed
  BY <1>2 DEF Placed, PlacesOf, Threads, Places
<1>5. \A p \in Programs, t \in Threads : at[p][t] \notin Working
  BY <1>2 DEF Working, Threads
<1>6. AtOK
  BY <1>3, <1>4, <1>5 DEF AtOK, Mapped, Begun, Working, Programs
<1>7. left \in [Programs -> [Threads -> SUBSET Sections]]
  BY DEF Init
<1>8. conf \in [Programs -> [Sections -> Values]]
  BY ConfigurationBounds DEF Init, Unset, Values, Torn
<1>9. map \in [Servers -> [by : Threads, doc : 0..Len(docs), has : SUBSET Sections]]
  BY <1>1 DEF Init, Threads
<1>10. doc \in [Programs -> [Threads -> 0..Len(docs)]] /\ heard \in [Programs -> 0..Len(docs)]
  BY <1>1 DEF Init
<1>11. DataOK
  <2>1. Len(docs) <= MaxVersions
    BY <1>1, ConfigurationBounds
  <2>2. listening \subseteq Programs /\ SharedOK
    BY DEF Init, SharedOK
  <2>3. QED
    BY <1>1, <1>7, <1>8, <1>9, <1>10, <2>1, <2>2 DEF DataOK
<1>12. QED
  BY <1>6, <1>11 DEF TypeInv

\* A document has sections, and none if it cannot be parsed.
LEMMA DocumentType ==
  ASSUME DataOK, NEW d \in 1..Len(docs)
  PROVE  /\ docs[d].has \subseteq Sections /\ docs[d].bad \subseteq Sections
         /\ docs[d].has \cap docs[d].bad = {}
         /\ docs[d].form # "json" => docs[d].has = {}
<1>1. docs[d] \in Document
  BY DEF DataOK
<1>2. QED
  BY <1>1 DEF Document

LEMMA ValueType ==
  ASSUME DataOK, NEW d \in 0..Len(docs)
  PROVE  d \in Values /\ Torn \in Values /\ Torn > d /\ \A s : Value(d, s) \in {0, d}
  BY ConfigurationBounds DEF DataOK, Values, Torn, Value

\* A thread goes to a place it may be in, with a document if it needs one.
LEMMA GoType ==
  ASSUME AtOK, NEW p \in Programs, NEW t \in Threads, NEW place \in PlacesOf(p, t),
         Go(p, t, place),
         \A q \in Programs, u \in Threads : doc'[q][u] = doc[q][u] \/ doc'[q][u] > 0,
         place \in Working => doc'[p][t] > 0,
         \A q \in Servers : map'[q].doc = map[q].doc \/ map'[q].doc > 0,
         p \in Servers /\ place \in {"fill", "unmarshal"} => map'[p].doc > 0
  PROVE  AtOK'
<1>0. place \in Places
  BY DEF PlacesOf, Places
<1>1. at' \in [Programs -> [Threads -> Places]]
  BY <1>0 DEF AtOK, Go
<1>2. \A q \in Programs, u \in Threads :
         at'[q][u] = IF q = p /\ u = t THEN place ELSE at[q][u]
  BY DEF AtOK, Go
<1>3. Placed'
  BY <1>2 DEF AtOK, Placed, PlacesOf
<1>4. Mapped'
  BY <1>2 DEF AtOK, Mapped, Programs
<1>5. Begun'
  BY <1>2 DEF AtOK, Begun
<1>6. QED
  BY <1>1, <1>3, <1>4, <1>5 DEF AtOK

\* A program ends.
LEMMA EndType ==
  ASSUME AtOK, NEW p \in Programs, NEW place \in {"panic", "fatal"},
         place = "panic" => p \in Servers,
         at' = [at EXCEPT ![p] = [init |-> place, hook |-> "idle"]],
         UNCHANGED <<doc, map>>
  PROVE  AtOK'
<1>1. [init |-> place, hook |-> "idle"] \in [Threads -> Places]
  BY DEF Threads, Places
<1>2. at' \in [Programs -> [Threads -> Places]]
  BY <1>1 DEF AtOK
<1>3. \A q \in Programs, u \in Threads :
         at'[q][u] = IF q = p THEN (IF u = "hook" THEN "idle" ELSE place) ELSE at[q][u]
  BY DEF AtOK, Threads
<1>4. Placed'
  BY <1>3 DEF AtOK, Placed, PlacesOf, Places, Threads
<1>5. Mapped'
  BY <1>3 DEF AtOK, Mapped, Programs
<1>6. Begun'
  BY <1>3 DEF AtOK, Begun, Working
<1>7. QED
  BY <1>2, <1>4, <1>5, <1>6 DEF AtOK

LEMMA Worked ==
  ASSUME TypeInv, NEW p \in Programs, NEW t \in Threads, at[p][t] \in Working
  PROVE  /\ doc[p][t] \in 1..Len(docs)
         /\ docs[doc[p][t]].has \subseteq Sections /\ Present(doc[p][t]) \subseteq Sections
<1>1. doc[p][t] \in 0..Len(docs) /\ doc[p][t] > 0
  BY DEF TypeInv, AtOK, DataOK, Begun
<1>2. doc[p][t] \in 1..Len(docs) /\ DataOK
  BY <1>1 DEF TypeInv
<1>3. QED
  BY <1>2, DocumentType DEF Present

LEMMA MapWorked ==
  ASSUME TypeInv, NEW p \in Servers, NEW t \in Threads, at[p][t] \in {"fill", "unmarshal"}
  PROVE  /\ map[p].doc \in 1..Len(docs)
         /\ docs[map[p].doc].has \subseteq Sections /\ Present(map[p].doc) \subseteq Sections
<1>1. map[p].doc \in 0..Len(docs) /\ map[p].doc > 0
  BY DEF TypeInv, AtOK, DataOK, Mapped
<1>2. map[p].doc \in 1..Len(docs) /\ DataOK
  BY <1>1 DEF TypeInv
<1>3. QED
  BY <1>2, DocumentType DEF Present

\* The section that is next is one of those that are left.
LEMMA FirstIsFirst ==
  ASSUME NEW S \in SUBSET Sections, S # {}
  PROVE  \E i \in 1..Len(Order) :
            First(S) = Order[i] /\ Order[i] \in S /\ \A j \in 1..(i - 1) : Order[j] \notin S
<1> DEFINE T == {i \in 1..Len(Order) : Order[i] \in S}
<1>1. Len(Order) \in Nat
  BY OrderAssumption
<1>2. T \subseteq Nat /\ T # {}
  BY <1>1 DEF Sections
<1>3. PICK i \in T : \A j \in T : ~ (<<j, i>> \in OpToRel(<, Nat))
  BY <1>2, NatLessThanWellFounded, WFMin
<1>4. \A j \in T : ~(j < i)
  BY <1>2, <1>3 DEF OpToRel
<1>5. Order[i] \in S /\ i \in 1..Len(Order) /\ \A j \in 1..(i - 1) : Order[j] \notin S
  BY <1>1, <1>4
<1>6. QED
  BY <1>5 DEF First

LEMMA FirstIsLeft ==
  ASSUME NEW S \in SUBSET Sections, S # {}
  PROVE  First(S) \in S /\ First(S) \in Sections
  BY FirstIsFirst

ProgramStep(p) ==
    \/ Listen(p) \/ Get(p) \/ Change(p) \/ \E t \in Threads : Thread(p, t)
    \/ p \in Servers /\ GoOnly(p)
    \/ p \in Fronts /\ (Collide(p, "load") \/ Return(p))

LEMMA StepOfOne ==
  ASSUME [Next]_vars
  PROVE  \/ Publish
         \/ /\ UNCHANGED <<docs, at, doc, left, heard, listening, map, conf, cause>>
            /\ bucket' \in {bucket, TRUE} /\ tables' \in {tables, TRUE}
         \/ \E p \in Programs : ProgramStep(p)
  BY DEF Next, OtherServer, ProgramStep, vars, Programs

\* A published document leaves those before it as they are.
LEMMA PublishKeeps ==
  ASSUME TypeInv, Publish
  PROVE  /\ Len(docs') = Len(docs) + 1 /\ Len(docs) \in Nat
         /\ \A d \in 1..Len(docs) : docs'[d] = docs[d]
         /\ TypeInv'
<1>1. PICK d \in Document : docs' = Append(docs, d)
  BY DEF Publish
<1>2. docs \in Seq(Document) /\ Len(docs) < MaxVersions /\ Len(docs) \in Nat
  BY DEF TypeInv, DataOK, Publish
<1>3. /\ docs' \in Seq(Document) /\ Len(docs') = Len(docs) + 1
      /\ \A k \in 1..Len(docs) : docs'[k] = docs[k]
  BY <1>1, <1>2
<1>4. Len(docs') <= MaxVersions /\ 0..Len(docs) \subseteq 0..Len(docs')
  BY <1>2, <1>3, ConfigurationBounds
<1>5. UNCHANGED <<at, doc, left, heard, listening, map, conf, shared>>
  BY DEF Publish
<1>6. DataOK'
  <2>1. doc' \in [Programs -> [Threads -> 0..Len(docs')]] /\ heard' \in [Programs -> 0..Len(docs')]
    BY <1>4, <1>5 DEF TypeInv, DataOK
  <2>2. map' \in [Servers -> [by : Threads, doc : 0..Len(docs'), has : SUBSET Sections]]
    BY <1>4, <1>5 DEF TypeInv, DataOK
  <2>3. QED
    BY <1>3, <1>4, <1>5, <2>1, <2>2, SharedStays DEF TypeInv, DataOK
<1>7. AtOK'
  BY <1>5 DEF TypeInv, AtOK, Placed, Mapped, Begun
<1>8. QED
  BY <1>2, <1>3, <1>6, <1>7 DEF TypeInv

\* A step of init() or of the hook that is not a move keeps where they are.
LEMMA StayType ==
  ASSUME AtOK, UNCHANGED <<at, doc, map>>
  PROVE  AtOK'
  BY DEF AtOK, Placed, Mapped, Begun

\* A program ends on the way.
LEMMA TypeEnd ==
  ASSUME TypeInv, NEW p \in Programs, End(p) \/ (p \in Servers /\ Panic(p)),
         UNCHANGED <<docs, doc, heard, map, conf>>, SharedOK'
  PROVE  TypeInv'
<1>0. AtOK /\ DataOK
  BY DEF TypeInv
<1>1. AtOK'
  BY <1>0, EndType DEF End, Panic
<1>2. left' \in [Programs -> [Threads -> SUBSET Sections]]
  <2>1. left' = [left EXCEPT ![p] = [t \in Threads |-> {}]]
    BY DEF End, Panic
  <2>2. left \in [Programs -> [Threads -> SUBSET Sections]]
    BY <1>0 DEF DataOK
  <2>3. QED
    BY <2>1, <2>2
<1>3. listening' \subseteq Programs
  BY <1>0 DEF End, Panic, DataOK
<1>4. QED
  BY <1>0, <1>1, <1>2, <1>3 DEF TypeInv, DataOK

LEMMA TypeStart ==
  ASSUME TypeInv, NEW p \in Programs, Listen(p) \/ Get(p) \/ Change(p)
  PROVE  TypeInv'
<1>0. AtOK /\ DataOK /\ {"init", "hook"} = Threads /\ (UNCHANGED shared => SharedOK')
  BY SharedStays DEF TypeInv, Threads, DataOK
<1>1. CASE Listen(p)
  <2>1. UNCHANGED <<docs, doc, heard, map, conf, shared>>
    BY <1>1 DEF Listen
  <2>2. CASE End(p)
    BY <1>0, <2>1, <2>2, TypeEnd
  <2>3. CASE /\ Go(p, "init", "get") \/ (p \in Servers /\ Go(p, "init", "running"))
             /\ left' = left /\ listening' \subseteq listening \cup {p}
    <3>1. "get" \in PlacesOf(p, "init") /\ (p \in Servers => "running" \in PlacesOf(p, "init"))
      BY DEF PlacesOf, Places
    <3>2. AtOK'
      BY <1>0, <2>1, <2>3, <3>1, GoType DEF Working
    <3>3. QED
      BY <1>0, <2>1, <2>3, <3>2 DEF TypeInv, DataOK
  <2>4. QED
    BY <1>1, <2>2, <2>3 DEF Listen
<1>2. CASE Get(p)
  <2>1. UNCHANGED <<docs, left, heard, listening, map, conf, shared>>
    BY <1>2 DEF Get
  <2>2. CASE Newest # "empty" /\ doc' = [doc EXCEPT ![p].init = Len(docs)] /\ Go(p, "init", "parse")
    <3>1. Len(docs) > 0 /\ Len(docs) \in Nat
      BY <1>0, <2>2 DEF Newest, DataOK
    <3>2. /\ doc' \in [Programs -> [Threads -> 0..Len(docs)]]
          /\ \A q \in Programs, u \in Threads : doc'[q][u] = doc[q][u] \/ doc'[q][u] > 0
          /\ doc'[p]["init"] > 0
      <4>1. doc \in [Programs -> [Threads -> 0..Len(docs)]] /\ Len(docs) \in 0..Len(docs)
        BY <1>0, <3>1 DEF DataOK
      <4>2. "init" \in Threads /\ doc' = [doc EXCEPT ![p]["init"] = Len(docs)]
        BY <1>0, <2>2
      <4>3. QED
        BY <3>1, <4>1, <4>2
    <3>3. "parse" \in PlacesOf(p, "init")
      BY DEF PlacesOf, Places
    <3>4. AtOK'
      BY <1>0, <2>1, <2>2, <3>2, <3>3, GoType
    <3>5. QED
      BY <1>0, <2>1, <3>2, <3>4 DEF TypeInv, DataOK
  <2>3. CASE Go(p, "init", Over(p, "init")) /\ UNCHANGED doc
    <3>1. Over(p, "init") \in PlacesOf(p, "init") /\ Over(p, "init") \notin Working \cup {"fill"}
      BY DEF Over, PlacesOf, Places, Working
    <3>2. AtOK'
      BY <1>0, <2>1, <2>3, <3>1, GoType DEF Working
    <3>3. QED
      BY <1>0, <2>1, <2>3, <3>2 DEF TypeInv, DataOK
  <2>4. QED
    BY <1>2, <2>2, <2>3 DEF Get
<1>3. CASE Change(p)
  <2>1. /\ UNCHANGED <<docs, left, listening, map, conf, shared>>
        /\ heard' = [heard EXCEPT ![p] = Len(docs)]
        /\ doc' = [doc EXCEPT ![p].hook = Len(docs)]
        /\ Len(docs) > 0 /\ Len(docs) \in Nat
    BY <1>0, <1>3 DEF Change, DataOK
  <2>2. /\ doc' \in [Programs -> [Threads -> 0..Len(docs)]]
        /\ heard' \in [Programs -> 0..Len(docs)]
        /\ \A q \in Programs, u \in Threads : doc'[q][u] = doc[q][u] \/ doc'[q][u] > 0
        /\ doc'[p]["hook"] > 0
    <3>1. /\ doc \in [Programs -> [Threads -> 0..Len(docs)]] /\ Len(docs) \in 0..Len(docs)
          /\ heard \in [Programs -> 0..Len(docs)]
      BY <1>0, <2>1 DEF DataOK
    <3>2. heard' \in [Programs -> 0..Len(docs)]
      BY <2>1, <3>1
    <3>3. "hook" \in Threads /\ doc' = [doc EXCEPT ![p]["hook"] = Len(docs)]
      BY <1>0, <2>1
    <3>4. Len(docs) > 0
      BY <2>1
    <3>5. QED
      BY <3>1, <3>2, <3>3, <3>4
  <2>3. CASE UNCHANGED at
    <3>1. AtOK'
      BY <1>0, <2>1, <2>2, <2>3 DEF AtOK, Placed, Mapped, Begun
    <3>2. QED
      BY <1>0, <2>1, <2>2, <3>1 DEF TypeInv, DataOK
  <2>4. CASE Go(p, "hook", "parse")
    <3>1. "parse" \in PlacesOf(p, "hook")
      BY DEF PlacesOf
    <3>2. AtOK'
      BY <1>0, <2>1, <2>2, <2>4, <3>1, GoType
    <3>3. QED
      BY <1>0, <2>1, <2>2, <3>2 DEF TypeInv, DataOK
  <2>5. QED
    BY <1>3, <2>3, <2>4 DEF Change
<1>4. QED
  BY <1>1, <1>2, <1>3

LEMMA TypeViper ==
  ASSUME TypeInv, NEW p \in Servers, NEW t \in Threads,
         NewMap(p, t) \/ Fill(p, t) \/ Walk(p, t)
  PROVE  TypeInv'
<1>0. AtOK /\ DataOK /\ p \in Programs /\ (UNCHANGED shared => SharedOK')
  BY SharedStays DEF TypeInv, Programs, DataOK
<1>00. {"fill", "unmarshal", "assign", Over(p, t)} \subseteq PlacesOf(p, t) /\ Over(p, t) \notin Working
  <2>1. CASE t = "hook"
    BY <2>1 DEF PlacesOf, Places, Over, Working
  <2>2. CASE t = "init"
    BY <2>2 DEF PlacesOf, Places, Over, Working
  <2>3. QED
    BY <2>1, <2>2 DEF Threads
<1>1. CASE NewMap(p, t)
  <2>1. /\ UNCHANGED <<docs, doc, left, heard, listening, conf, shared>>
        /\ map' = [map EXCEPT ![p] = [by |-> t, doc |-> doc[p][t], has |-> {}]]
        /\ Go(p, t, "fill") /\ doc[p][t] \in 1..Len(docs) /\ doc[p][t] > 0
    BY <1>0, <1>1, Worked DEF NewMap, Working
  <2>2. map' \in [Servers -> [by : Threads, doc : 0..Len(docs), has : SUBSET Sections]]
    BY <1>0, <2>1 DEF DataOK
  <2>3. \A q \in Servers : map'[q].doc = map[q].doc \/ map'[q].doc > 0
    BY <1>0, <2>1 DEF DataOK
  <2>4. map'[p].doc > 0
    BY <1>0, <2>1 DEF DataOK
  <2>5. AtOK'
    BY <1>0, <1>00, <2>1, <2>3, <2>4, GoType
  <2>6. QED
    BY <1>0, <2>1, <2>2, <2>5 DEF TypeInv, DataOK
<1>2. CASE Fill(p, t)
  <2>1. /\ UNCHANGED <<docs, doc, left, heard, listening, conf, shared>>
        /\ Go(p, t, Over(p, t)) \/ Go(p, t, "unmarshal")
        /\ map' = map \/ map' = [map EXCEPT ![p].has = Present(doc[p][t])]
        /\ doc[p][t] \in 1..Len(docs) /\ doc[p][t] > 0 /\ Present(doc[p][t]) \subseteq Sections
        /\ map[p].doc > 0
    BY <1>0, <1>2, Worked, MapWorked DEF Fill, Working
  <2>2. /\ map' \in [Servers -> [by : Threads, doc : 0..Len(docs), has : SUBSET Sections]]
        /\ \A q \in Servers : map'[q].doc = map[q].doc
    <3>1. map \in [Servers -> [by : Threads, doc : 0..Len(docs), has : SUBSET Sections]]
      BY <1>0 DEF DataOK
    <3>2. CASE map' = [map EXCEPT ![p].has = Present(doc[p][t])]
      <4>1. map' = [map EXCEPT ![p] = [map[p] EXCEPT !.has = Present(doc[p][t])]]
        BY <3>2
      <4>2. /\ [map[p] EXCEPT !.has = Present(doc[p][t])] \in
                   [by : Threads, doc : 0..Len(docs), has : SUBSET Sections]
            /\ [map[p] EXCEPT !.has = Present(doc[p][t])].doc = map[p].doc
        BY <2>1, <3>1
      <4>3. QED
        BY <3>1, <4>1, <4>2
    <3>3. QED
      BY <2>1, <3>1, <3>2
  <2>3. AtOK'
    BY <1>0, <1>00, <2>1, <2>2, GoType DEF Working
  <2>4. QED
    BY <1>0, <2>1, <2>2, <2>3 DEF TypeInv, DataOK
<1>3. CASE Walk(p, t)
  <2>1. /\ UNCHANGED <<docs, heard, listening, map, conf, shared>>
        /\ Go(p, t, "assign")
        /\ doc' = [doc EXCEPT ![p][t] = map[p].doc]
        /\ \E S \in SUBSET Sections : left' = [left EXCEPT ![p][t] = S]
        /\ map[p].doc \in 1..Len(docs) /\ map[p].doc > 0
    <3>1. /\ map[p].doc \in 1..Len(docs) /\ map[p].doc > 0
          /\ Present(map[p].doc) \subseteq Sections
      <4>1. map[p].doc \in 1..Len(docs) /\ Present(map[p].doc) \subseteq Sections
        BY <1>0, <1>3, MapWorked DEF Walk
      <4>2. QED
        BY <4>1
    <3>2. Keys(map[p]) \subseteq Sections
      BY <1>0 DEF DataOK, Keys
    <3>3. \E S \in SUBSET Sections : left' = [left EXCEPT ![p][t] = S]
      BY <1>3, <3>1, <3>2 DEF Walk
    <3>4. /\ UNCHANGED <<docs, heard, listening, map, conf, shared>>
          /\ Go(p, t, "assign") /\ doc' = [doc EXCEPT ![p][t] = map[p].doc]
      BY <1>3 DEF Walk
    <3>5. QED
      BY <3>1, <3>3, <3>4
  <2>2. /\ doc' \in [Programs -> [Threads -> 0..Len(docs)]]
        /\ left' \in [Programs -> [Threads -> SUBSET Sections]]
        /\ \A q \in Programs, u \in Threads : doc'[q][u] = doc[q][u] \/ doc'[q][u] > 0
        /\ doc'[p][t] > 0
    BY <1>0, <2>1 DEF DataOK
  <2>3. AtOK'
    BY <1>0, <1>00, <2>1, <2>2, GoType
  <2>4. QED
    BY <1>0, <2>1, <2>2, <2>3 DEF TypeInv, DataOK
<1>4. QED
  BY <1>1, <1>2, <1>3

\* What a thread assigns is among what it has to.
LEMMA TypedIsLeft ==
  ASSUME TypeInv, NEW p \in Programs, NEW t \in Threads
  PROVE  /\ Typed(p, t) \in SUBSET Sections /\ Typed(p, t) \subseteq left[p][t]
         /\ p \in Fronts => Typed(p, t) = left[p][t]
         /\ Typed(p, t) # {} => First(Typed(p, t)) \in Typed(p, t)
<1>1. left[p][t] \in SUBSET Sections
  BY DEF TypeInv, DataOK
<1>2. Typed(p, t) \in SUBSET Sections /\ Typed(p, t) \subseteq left[p][t]
  BY <1>1 DEF Typed
<1>3. p \in Fronts => Typed(p, t) = left[p][t]
  BY ProgramAssumption DEF Typed
<1>4. QED
  BY <1>2, <1>3, FirstIsLeft

\* Sections are assigned.
LEMMA TypeAssign ==
  ASSUME TypeInv, NEW p \in Programs, NEW t \in Threads,
         Assign(p, t) \/ (p \in Fronts /\ Load(p, t))
  PROVE  TypeInv'
<1> DEFINE s == First(Typed(p, t))
<1>0. AtOK /\ DataOK /\ (UNCHANGED shared => SharedOK')
  BY SharedStays DEF TypeInv, DataOK
<1>1. s \in left[p][t] /\ s \in Sections /\ left[p][t] \subseteq Sections
  <2>1. left[p][t] \in SUBSET Sections /\ Typed(p, t) # {}
    BY <1>0, TypedIsLeft DEF DataOK, Assign, Load
  <2>2. QED
    BY <2>1, TypedIsLeft
<1>10. p \in Fronts => s = First(left[p][t])
  BY TypedIsLeft
<1>2. UNCHANGED <<docs, at, doc, heard, listening, map, shared>>
  BY DEF Assign, Load
<1>3. \E S \in SUBSET Sections : left' = [left EXCEPT ![p][t] = S]
  BY <1>1, <1>10 DEF Assign, Load
<1>4. \E v \in Values : conf' = [conf EXCEPT ![p][s] = v] \/ conf' = conf
  <2>1. doc[p][t] \in 0..Len(docs)
    BY <1>0 DEF DataOK
  <2>2. doc[p][t] \in Values /\ Value(doc[p][t], s) \in Values
    BY <1>0, <2>1, ValueType, ConfigurationBounds DEF Values, Torn, Value
  <2>3. QED
    BY <1>10, <2>2 DEF Assign, Load
<1>5. left' \in [Programs -> [Threads -> SUBSET Sections]]
  BY <1>0, <1>3 DEF DataOK
<1>6. conf' \in [Programs -> [Sections -> Values]]
  <2>1. conf \in [Programs -> [Sections -> Values]]
    BY <1>0 DEF DataOK
  <2>2. PICK v \in Values : conf' = [conf EXCEPT ![p][s] = v] \/ conf' = conf
    BY <1>4
  <2>3. QED
    BY <1>1, <2>1, <2>2
<1>7. AtOK'
  BY <1>0, <1>2, StayType
<1>8. QED
  BY <1>0, <1>2, <1>5, <1>6, <1>7 DEF TypeInv, DataOK

LEMMA TypeCollide ==
  ASSUME TypeInv, NEW p \in Programs, NEW place \in {"assign", "load"}, Collide(p, place)
  PROVE  TypeInv'
<1> DEFINE s == First(Typed(p, "init"))
<1>0. AtOK /\ DataOK /\ (UNCHANGED shared => SharedOK')
  BY SharedStays DEF TypeInv, DataOK
<1>1. s \in Sections
  <2>1. Typed(p, "init") # {} /\ "init" \in Threads
    BY DEF Collide, Threads
  <2>2. QED
    BY <2>1, TypedIsLeft
<1>2. CASE End(p) /\ UNCHANGED conf
  BY <1>0, <1>2, TypeEnd DEF Collide
<1>3. CASE /\ left' = [left EXCEPT ![p] = [t \in Threads |-> @[t] \ {s}]]
           /\ conf' = [conf EXCEPT ![p][s] = Torn]
           /\ UNCHANGED <<at, listening>>
  <2>1. left' \in [Programs -> [Threads -> SUBSET Sections]]
    BY <1>0, <1>3 DEF DataOK
  <2>2. Torn \in Values
    BY ConfigurationBounds DEF Torn, Values
  <2>3. conf' \in [Programs -> [Sections -> Values]]
    BY <1>0, <1>1, <1>3, <2>2 DEF DataOK
  <2>4. UNCHANGED <<docs, doc, heard, map, shared>>
    BY DEF Collide
  <2>5. AtOK'
    BY <1>0, <1>3, <2>4, StayType
  <2>6. QED
    BY <1>0, <1>3, <2>1, <2>3, <2>4, <2>5 DEF TypeInv, DataOK
<1>4. QED
  BY <1>2, <1>3 DEF Collide

\* The rest only moves a thread, or ends the program.
LEMMA TypeMove ==
  ASSUME TypeInv, NEW p \in Programs, NEW t \in Threads, NEW place \in PlacesOf(p, t),
         Go(p, t, place), place \in Working => at[p][t] \in Working, place \notin {"fill", "unmarshal"},
         UNCHANGED <<docs, doc, heard, map, conf>>,
         listening' \subseteq listening, left' \in [Programs -> [Threads -> SUBSET Sections]],
         SharedOK'
  PROVE  TypeInv'
<1>0. AtOK /\ DataOK
  BY DEF TypeInv
<1>1. place \in Working => doc'[p][t] > 0
  BY <1>0 DEF AtOK, Begun
<1>2. AtOK'
  BY <1>0, <1>1, GoType
<1>3. QED
  BY <1>0, <1>2 DEF TypeInv, DataOK

LEMMA TypeServices ==
  ASSUME TypeInv, NEW p \in Servers,
         \/ Connect(p) \/ CreateTables(p) \/ CreateClients(p)
         \/ BucketExists(p) \/ MakeBucket(p) \/ ExistsAgain(p)
  PROVE  TypeInv'
<1> DEFINE Next4 == {"create", "clients", "exists", "make", "again", "running"}
<1>0. /\ p \in Programs /\ "init" \in Threads
      /\ Next4 \subseteq PlacesOf(p, "init") /\ Next4 \cap (Working \cup {"fill", "unmarshal"}) = {}
      /\ left \in [Programs -> [Threads -> SUBSET Sections]] /\ SharedOK
  BY DEF Programs, Threads, PlacesOf, Places, Working, TypeInv, DataOK
<1>1. UNCHANGED <<docs, doc, heard, map, conf>>
  BY DEF Connect, CreateTables, CreateClients, BucketExists, MakeBucket, ExistsAgain
<1>2. SharedOK'
  <2>1. bucket' \in BOOLEAN /\ tables' \in BOOLEAN
    BY <1>0 DEF Connect, CreateTables, CreateClients, BucketExists, MakeBucket, ExistsAgain, SharedOK
  <2>2. cause' = cause \/ \E why \in {"service", "section", "tables"} : Because(p, why)
    BY DEF Connect, CreateTables, CreateClients, BucketExists, MakeBucket, ExistsAgain, Needs, Stay
  <2>3. QED
    BY <1>0, <2>1, <2>2 DEF Because, SharedOK
<1>3. Panic(p) \/ ((\E place \in Next4 : Go(p, "init", place)) /\ UNCHANGED <<left, listening>>)
  <2>1. ASSUME NEW S, NEW place \in Next4, Needs(p, S, place)
        PROVE  Panic(p) \/ (Go(p, "init", place) /\ UNCHANGED <<left, listening>>)
    BY <2>1 DEF Needs, Stay
  <2>2. CASE Connect(p) \/ CreateClients(p) \/ BucketExists(p)
    <3>1. \E S, place : place \in Next4 /\ Needs(p, S, place)
      BY <2>2 DEF Connect, CreateClients, BucketExists
    <3>2. QED
      BY <2>1, <3>1
  <2>3. CASE CreateTables(p) \/ MakeBucket(p) \/ ExistsAgain(p)
    BY <2>3 DEF CreateTables, MakeBucket, ExistsAgain, Stay
  <2>4. QED
    BY <2>2, <2>3
<1>4. QED
  <2>1. CASE Panic(p)
    BY <1>0, <1>1, <1>2, <2>1, TypeEnd
  <2>2. ASSUME NEW place \in Next4, Go(p, "init", place), UNCHANGED <<left, listening>>
        PROVE  TypeInv'
    <3>1. place \in PlacesOf(p, "init") /\ place \notin Working /\ place \notin {"fill", "unmarshal"}
      BY <1>0
    <3>2. QED
      BY <1>0, <1>1, <1>2, <2>2, <3>1, TypeMove
  <2>3. QED
    BY <1>3, <2>1, <2>2

LEMMA TypeLoading ==
  ASSUME TypeInv, NEW p \in Programs, NEW t \in Threads,
         \/ p \in Fronts /\ (Parse(p, t) \/ Loaded(p, t))
         \/ p \in Servers /\ Assigned(p, t)
  PROVE  TypeInv'
<1>0. left \in [Programs -> [Threads -> SUBSET Sections]] /\ (UNCHANGED shared => SharedOK')
  BY SharedStays DEF TypeInv, DataOK
<1>1. /\ UNCHANGED <<docs, doc, heard, listening, map, conf, shared>>
      /\ left' \in [Programs -> [Threads -> SUBSET Sections]]
  <2>1. CASE Parse(p, t)
    BY <1>0, <2>1, SectionAssumption DEF Parse
  <2>2. CASE Loaded(p, t) \/ Assigned(p, t)
    BY <1>0, <2>2 DEF Loaded, Assigned
  <2>3. QED
    BY <2>1, <2>2
<1>3. \E place \in PlacesOf(p, t) :
         /\ Go(p, t, place)
         /\ place \in Working => at[p][t] \in Working
         /\ place \notin {"fill", "unmarshal"}
  <2>1. CASE p \in Fronts /\ (Parse(p, t) \/ Loaded(p, t))
    <3>1. p \notin Servers
      BY <2>1, ProgramAssumption
    <3>2. Over(p, t) \in PlacesOf(p, t) /\ "load" \in PlacesOf(p, t) /\ Over(p, t) \notin Working
      BY <3>1 DEF Over, PlacesOf, Working
    <3>3. Over(p, t) \notin {"fill", "unmarshal"}
      BY <3>2 DEF Working
    <3>4. Go(p, t, Over(p, t)) \/ (Go(p, t, "load") /\ at[p][t] = "parse")
      BY <2>1 DEF Parse, Loaded
    <3>5. "parse" \in Working
      BY DEF Working
    <3>6. QED
      BY <3>2, <3>3, <3>4, <3>5
  <2>2. CASE p \in Servers /\ Assigned(p, t)
    <3>1. Over(p, t) \in PlacesOf(p, t) /\ Over(p, t) \in {"idle", "running"}
      BY <2>2 DEF Over, PlacesOf, Places
    <3>2. t # "hook" => "services" \in PlacesOf(p, t)
      BY <2>2 DEF PlacesOf, Places
    <3>3. Go(p, t, Over(p, t)) \/ (t # "hook" /\ Go(p, t, "services"))
      BY <2>2 DEF Assigned
    <3>4. {"idle", "running", "services"} \cap (Working \cup {"fill", "unmarshal"}) = {}
      BY DEF Working
    <3>5. QED
      BY <3>1, <3>2, <3>3, <3>4
  <2>3. QED
    BY <2>1, <2>2
<1>4. QED
  BY <1>0, <1>1, <1>3, TypeMove

LEMMA TypeStep ==
  ASSUME TypeInv, NEW p \in Programs, ProgramStep(p)
  PROVE  TypeInv'
<1>1. CASE Listen(p) \/ Get(p) \/ Change(p)
  BY <1>1, TypeStart
<1>2. ASSUME NEW t \in Threads, Thread(p, t)
      PROVE  TypeInv'
  <2>1. CASE p \in Servers
    BY <1>2, <2>1, ProgramAssumption, TypeViper, TypeAssign, TypeLoading DEF Thread
  <2>2. CASE p \in Fronts
    BY <1>2, <2>2, ProgramAssumption, TypeAssign, TypeLoading DEF Thread
  <2>3. QED
    BY <2>1, <2>2 DEF Programs
<1>3. CASE p \in Servers /\ GoOnly(p)
  <2>1. CASE Fatal(p)
    <3>1. SharedOK'
      BY <2>1, SharedStays DEF Fatal, TypeInv, DataOK
    <3>2. QED
      BY <2>1, <3>1, TypeEnd DEF Fatal
  <2>2. CASE Collide(p, "assign")
    BY <2>2, TypeCollide
  <2>3. QED
    BY <1>3, <2>1, <2>2, TypeServices DEF GoOnly
<1>4. CASE p \in Fronts /\ Collide(p, "load")
  BY <1>4, TypeCollide
<1>5. CASE p \in Fronts /\ Return(p)
  <2>1. p \notin Servers
    BY <1>5, ProgramAssumption
  <2>2. "running" \in PlacesOf(p, "init") /\ "running" \notin Working /\ "init" \in Threads
    BY <2>1 DEF PlacesOf, Working, Threads
  <2>3. /\ left' \in [Programs -> [Threads -> SUBSET Sections]]
        /\ SharedOK'
        /\ UNCHANGED <<docs, doc, heard, map, conf>> /\ listening' \subseteq listening
        /\ Go(p, "init", "running")
    BY <1>5, SharedStays DEF Return, TypeInv, DataOK
  <2>4. QED
    BY <2>2, <2>3, TypeMove
<1>6. QED
  BY <1>1, <1>2, <1>3, <1>4, <1>5 DEF ProgramStep

LEMMA TypeNext == TypeInv /\ [Next]_vars => TypeInv'
<1> SUFFICES ASSUME TypeInv, [Next]_vars PROVE TypeInv'
  OBVIOUS
<1>1. CASE /\ UNCHANGED <<docs, at, doc, left, heard, listening, map, conf, cause>>
           /\ bucket' \in {bucket, TRUE} /\ tables' \in {tables, TRUE}
  <2>1. SharedOK'
    BY <1>1 DEF TypeInv, DataOK, SharedOK
  <2>2. AtOK'
    BY <1>1, StayType DEF TypeInv
  <2>3. QED
    BY <1>1, <2>1, <2>2 DEF TypeInv, DataOK
<1>2. QED
  BY <1>1, StepOfOne, PublishKeeps, TypeStep

\* Documents, threads, maps and configurations keep their types.
THEOREM ConfigurationTypeCorrect == Spec => []TypeOK
  BY TypeInit, TypeNext, TypeIsInvariant, PTL DEF Spec

-----------------------------------------------------------------------------
(* Programs share the documents, the tables and the bucket                  *)

Same(q) ==
    /\ at'[q] = at[q] /\ doc'[q] = doc[q] /\ left'[q] = left[q]
    /\ heard'[q] = heard[q] /\ conf'[q] = conf[q]
    /\ q \in listening' <=> q \in listening
    /\ q \in Servers => map'[q] = map[q] /\ cause'[q] = cause[q]

LEMMA OthersSame ==
  ASSUME TypeInv, NEW p \in Programs, ProgramStep(p)
  PROVE  /\ docs' = docs /\ (bucket => bucket')
         /\ \A q \in Programs \ {p} : Same(q)
<1>0. docs' = docs /\ (bucket => bucket')
  <2>1. ASSUME NEW t \in Threads, Thread(p, t) PROVE docs' = docs /\ (bucket => bucket')
    BY <2>1 DEF Thread, NewMap, Fill, Walk, Assign, Assigned, Parse, Load, Loaded, shared
  <2>2. CASE GoOnly(p)
    BY <2>2 DEF GoOnly, Fatal, Collide, Connect, CreateTables, CreateClients, BucketExists,
               MakeBucket, ExistsAgain, shared
  <2>3. QED
    BY <2>1, <2>2 DEF ProgramStep, Listen, Get, Change, Collide, Return, shared
<1> SUFFICES ASSUME NEW q \in Programs \ {p} PROVE Same(q)
  BY <1>0
<1>1. /\ at \in [Programs -> [Threads -> Places]]
      /\ doc \in [Programs -> [Threads -> 0..Len(docs)]]
      /\ left \in [Programs -> [Threads -> SUBSET Sections]]
      /\ heard \in [Programs -> 0..Len(docs)]
      /\ map \in [Servers -> [by : Threads, doc : 0..Len(docs), has : SUBSET Sections]]
      /\ conf \in [Programs -> [Sections -> Values]]
      /\ cause \in [Servers -> {"none", "service", "section", "tables"}]
  BY DEF TypeInv, AtOK, DataOK, SharedOK
<1>2. CASE Listen(p) \/ Get(p) \/ Change(p)
  BY <1>1, <1>2 DEF Listen, Get, Change, Go, End, Same, shared
<1>3. ASSUME NEW t \in Threads, NewMap(p, t) \/ Fill(p, t) \/ Walk(p, t) \/ Assigned(p, t)
      PROVE  Same(q)
  BY <1>1, <1>3 DEF NewMap, Fill, Walk, Assigned, Go, Same, shared
<1>4. ASSUME NEW t \in Threads, Assign(p, t) \/ Load(p, t) \/ Parse(p, t) \/ Loaded(p, t)
      PROVE  Same(q)
  BY <1>1, <1>4 DEF Assign, Load, Parse, Loaded, Go, Same, shared
<1>5. ASSUME NEW place, Fatal(p) \/ Collide(p, place) \/ Return(p)
      PROVE  Same(q)
  BY <1>1, <1>5 DEF Fatal, Collide, Return, End, Go, Same, shared
<1>6. CASE \/ Connect(p) \/ CreateTables(p) \/ CreateClients(p)
           \/ BucketExists(p) \/ MakeBucket(p) \/ ExistsAgain(p)
  BY <1>1, <1>6 DEF Connect, CreateTables, CreateClients, BucketExists, MakeBucket, ExistsAgain,
                    Needs, Because, Stay, Panic, Go, Same
<1>7. QED
  BY <1>2, <1>3, <1>4, <1>5, <1>6 DEF ProgramStep, Thread, GoOnly

LEMMA Moved ==
  ASSUME TypeInv, NEW p \in Programs, NEW t \in Threads, NEW place, Go(p, t, place)
  PROVE  at'[p][t] = place /\ \A u \in Threads \ {t} : at'[p][u] = at[p][u]
  BY DEF TypeInv, AtOK, Go

LEMMA Ended ==
  ASSUME TypeInv, NEW p \in Programs, End(p) \/ Panic(p)
  PROVE  /\ at'[p].hook = "idle" /\ at'[p].init \in {"fatal", "panic"}
         /\ End(p) => at'[p].init = "fatal"
         /\ left'[p] = [t \in Threads |-> {}]
<1>1. at \in [Programs -> [Threads -> Places]] /\ left \in [Programs -> [Threads -> SUBSET Sections]]
  BY DEF TypeInv, AtOK, DataOK
<1>2. End(p) => at'[p] = [init |-> "fatal", hook |-> "idle"]
  BY <1>1 DEF End
<1>3. Panic(p) => at'[p] = [init |-> "panic", hook |-> "idle"]
  BY <1>1 DEF Panic
<1>4. left'[p] = [t \in Threads |-> {}]
  BY <1>1 DEF End, Panic
<1>5. QED
  BY <1>2, <1>3, <1>4

-----------------------------------------------------------------------------
(* Start: the bucket is there after an error of MakeBucket that is not      *)
(* MinIO's own.                                                             *)

BucketSeen(p) ==
    /\ at[p].init = "again" => bucket \/ cause[p] # "none"
    /\ at[p].init = "panic" => cause[p] # "none"

StartInv == \A p \in Servers : BucketSeen(p)

\* What panics has a cause, what does not goes on.
LEMMA NeedsStep ==
  ASSUME TypeInv, NEW p \in Servers, NEW S, NEW next, next \notin {"again", "panic"}, Needs(p, S, next)
  PROVE  BucketSeen(p)'
<1>0. p \in Programs /\ "init" \in Threads /\ DOMAIN cause = Servers
  BY DEF Programs, Threads, TypeInv, DataOK, SharedOK
<1>1. CASE Go(p, "init", next)
  BY <1>0, <1>1, Moved DEF BucketSeen
<1>2. CASE Because(p, "section") \/ Because(p, "service")
  <2>1. cause'[p] # "none"
    BY <1>0, <1>2 DEF Because
  <2>2. QED
    BY <2>1 DEF BucketSeen
<1>3. QED
  BY <1>1, <1>2 DEF Needs

LEMMA StartServices ==
  ASSUME TypeInv, NEW p \in Servers, BucketSeen(p),
         \/ Connect(p) \/ CreateTables(p) \/ CreateClients(p)
         \/ BucketExists(p) \/ MakeBucket(p) \/ ExistsAgain(p)
  PROVE  BucketSeen(p)'
<1>0. p \in Programs /\ "init" \in Threads /\ DOMAIN cause = Servers
  BY DEF Programs, Threads, TypeInv, DataOK, SharedOK
<1>1. ASSUME NEW place, place \notin {"again", "panic"}, Go(p, "init", place) PROVE BucketSeen(p)'
  BY <1>0, <1>1, Moved DEF BucketSeen
<1>2. ASSUME NEW why \in {"service", "tables"}, Because(p, why) PROVE BucketSeen(p)'
  <2>1. cause'[p] # "none"
    BY <1>0, <1>2 DEF Because
  <2>2. QED
    BY <2>1 DEF BucketSeen
<1>3. CASE Connect(p) \/ CreateClients(p) \/ BucketExists(p)
  BY <1>3, NeedsStep DEF Connect, CreateClients, BucketExists
<1>4. CASE CreateTables(p)
  BY <1>1, <1>2, <1>4 DEF CreateTables
<1>5. CASE MakeBucket(p)
  <2>1. CASE Go(p, "init", "again") /\ bucket'
    BY <1>0, <2>1, Moved DEF BucketSeen
  <2>2. QED
    BY <1>1, <1>2, <1>5, <2>1 DEF MakeBucket
<1>6. CASE ExistsAgain(p)
  <2>1. CASE ~bucket /\ UNCHANGED cause
    BY <1>6, <2>1 DEF ExistsAgain, BucketSeen
  <2>2. QED
    BY <1>1, <1>2, <1>6, <2>1 DEF ExistsAgain
<1>7. QED
  BY <1>3, <1>4, <1>5, <1>6

LEMMA StartStep ==
  ASSUME TypeInv, NEW p \in Servers, ProgramStep(p), BucketSeen(p)
  PROVE  BucketSeen(p)'
<1>0. p \in Programs /\ "init" \in Threads /\ p \notin Fronts
  BY ProgramAssumption DEF Programs, Threads
<1>1. CASE Listen(p) \/ Get(p) \/ Change(p)
  <2>1. UNCHANGED <<bucket, cause>>
    BY <1>1 DEF Listen, Get, Change, shared
  <2>2. at'[p].init = at[p].init \/ at'[p].init \in {"get", "parse", "running"}
    BY <1>0, <1>1, Moved DEF Listen, Get, Change, Over, Threads
  <2>3. QED
    BY <2>1, <2>2 DEF BucketSeen
<1>2. ASSUME NEW t \in Threads, Thread(p, t) PROVE BucketSeen(p)'
  <2>1. UNCHANGED <<bucket, cause>>
    BY <1>2 DEF Thread, NewMap, Fill, Walk, Assign, Assigned, Parse, Load, Loaded, shared
  <2>2. \/ UNCHANGED at
        \/ \E place \in {"idle", "running", "fill", "unmarshal", "assign", "services"} :
              Go(p, t, place)
    BY <1>0, <1>2 DEF Thread, NewMap, Fill, Walk, Assign, Assigned, Over
  <2>3. at'[p].init = at[p].init \/ at'[p].init \notin {"again", "panic"}
    <3>1. ASSUME NEW place \in {"idle", "running", "fill", "unmarshal", "assign", "services"},
                 Go(p, t, place)
          PROVE  at'[p].init = at[p].init \/ at'[p].init \notin {"again", "panic"}
      BY <1>0, <3>1, Moved
    <3>2. QED
      BY <2>2, <3>1
  <2>4. QED
    BY <2>1, <2>3 DEF BucketSeen
<1>3. CASE Fatal(p) \/ Collide(p, "assign")
  <2>1. UNCHANGED <<bucket, cause>> /\ (End(p) \/ UNCHANGED at)
    BY <1>3 DEF Fatal, Collide, shared
  <2>2. QED
    BY <1>0, <2>1, Ended DEF BucketSeen
<1>4. QED
  BY <1>0, <1>1, <1>2, <1>3, StartServices DEF ProgramStep, GoOnly

LEMMA StartNext == TypeInv /\ StartInv /\ [Next]_vars => StartInv'
<1> SUFFICES ASSUME TypeInv, StartInv, [Next]_vars, NEW q \in Servers PROVE BucketSeen(q)'
  BY DEF StartInv
<1>1. BucketSeen(q) /\ q \in Programs
  BY DEF StartInv, Programs
<1>2. CASE Publish
  BY <1>1, <1>2 DEF Publish, BucketSeen, shared
<1>3. CASE UNCHANGED <<at, cause>> /\ bucket' \in {bucket, TRUE}
  BY <1>1, <1>3 DEF BucketSeen
<1>4. ASSUME NEW p \in Programs, ProgramStep(p) PROVE BucketSeen(q)'
  <2>1. CASE p = q
    BY <1>1, <1>4, <2>1, StartStep
  <2>2. CASE p # q
    BY <1>1, <1>4, <2>2, OthersSame DEF Same, BucketSeen
  <2>3. QED
    BY <2>1, <2>2
<1>5. QED
  BY <1>2, <1>3, <1>4, StepOfOne

\* Whatever their number, servers that find no bucket do not make each other
\* fail over it: init() ends only for an error of a service, a section that
\* was never set, or the tables.
THEOREM BucketCorrect == Spec => []BucketIsShared
<1>1. Init => StartInv
  BY DEF Init, StartInv, BucketSeen, Programs
<1>2. StartInv => BucketIsShared
  BY DEF StartInv, BucketSeen, BucketIsShared
<1>3. QED
  BY TypeInit, TypeNext, StartNext, <1>1, <1>2, PTL DEF Spec

-----------------------------------------------------------------------------
(* End of InitAppConfig: main goes on when no listener is left.             *)

Unheard(p) == at[p].init = "running" => at[p].hook = "idle" /\ p \notin listening

QuietInv == \A p \in Fronts : Unheard(p)

LEMMA QuietStep ==
  ASSUME TypeInv, NEW p \in Fronts, ProgramStep(p), Unheard(p)
  PROVE  Unheard(p)'
<1>0. p \in Programs /\ "init" \in Threads /\ "hook" \in Threads /\ p \notin Servers
  BY ProgramAssumption DEF Programs, Threads
<1>1. CASE Listen(p)
  BY <1>0, <1>1, Moved, Ended DEF Listen, Unheard
<1>2. CASE Get(p)
  BY <1>0, <1>2, Moved DEF Get, Over, Unheard
<1>3. CASE Change(p)
  <2>1. at[p].init # "running" /\ at'[p].init = at[p].init
    BY <1>0, <1>3, Moved DEF Change, Unheard
  <2>2. QED
    BY <2>1 DEF Unheard
<1>4. ASSUME NEW t \in Threads, Thread(p, t) PROVE Unheard(p)'
  <2>1. UNCHANGED listening /\ at[p][t] \in {"parse", "load"}
    BY <1>0, <1>4 DEF Thread, Parse, Load, Loaded
  <2>2. UNCHANGED at \/ Go(p, t, Over(p, t)) \/ Go(p, t, "load")
    BY <1>0, <1>4 DEF Thread, Parse, Load, Loaded
  <2>3. CASE t = "init"
    <3>1. UNCHANGED at \/ at'[p].init \in {"leaving", "load"}
      BY <1>0, <2>2, <2>3, Moved DEF Over
    <3>2. QED
      BY <2>1, <3>1 DEF Unheard
  <2>4. CASE t = "hook"
    <3>1. at'[p].init = at[p].init /\ at[p].init # "running"
      BY <1>0, <2>1, <2>2, <2>4, Moved DEF Unheard
    <3>2. QED
      BY <3>1 DEF Unheard
  <2>5. QED
    BY <2>3, <2>4 DEF Threads
<1>5. CASE Collide(p, "load")
  <2>1. at[p].init = "load" /\ (End(p) \/ UNCHANGED at)
    BY <1>0, <1>5 DEF Collide
  <2>2. QED
    BY <1>0, <2>1, Ended DEF Unheard
<1>6. CASE Return(p)
  BY <1>0, <1>6, Moved DEF Return, Unheard
<1>7. QED
  BY <1>0, <1>1, <1>2, <1>3, <1>4, <1>5, <1>6 DEF ProgramStep

LEMMA QuietNext == TypeInv /\ QuietInv /\ [Next]_vars => QuietInv'
<1> SUFFICES ASSUME TypeInv, QuietInv, [Next]_vars, NEW q \in Fronts PROVE Unheard(q)'
  BY DEF QuietInv
<1>1. Unheard(q) /\ q \in Programs
  BY DEF QuietInv, Programs
<1>2. CASE Publish
  BY <1>1, <1>2 DEF Publish, Unheard
<1>3. CASE UNCHANGED <<at, listening>>
  BY <1>1, <1>3 DEF Unheard
<1>4. ASSUME NEW p \in Programs, ProgramStep(p) PROVE Unheard(q)'
  <2>1. CASE p = q
    BY <1>1, <1>4, <2>1, QuietStep
  <2>2. CASE p # q
    BY <1>1, <1>4, <2>2, OthersSame DEF Same, Unheard
  <2>3. QED
    BY <2>1, <2>2
<1>5. QED
  BY <1>2, <1>3, <1>4, StepOfOne

\* AppConfig stays as it is once main of a C++ program goes on.
NoHotUpdate ==
    [][\A p \in Fronts : at[p].init = "running" => conf'[p] = conf[p]]_vars

\* No update reaches a running C++ program, although internal.cpp:68-70 adds a
\* listener and README.md:11 of the repository promises updates without a
\* restart.  What main reads without a lock is never written beside it.
THEOREM NoUpdateReachesFronts == Spec => NoHotUpdate
<1>1. Init => QuietInv
  BY DEF Init, QuietInv, Unheard, Programs
<1>2. TypeInv /\ QuietInv /\ [Next]_vars =>
         [\A p \in Fronts : at[p].init = "running" => conf'[p] = conf[p]]_vars
  <2> SUFFICES ASSUME TypeInv, QuietInv, [Next]_vars, NEW q \in Fronts, at[q].init = "running"
               PROVE  conf'[q] = conf[q]
    OBVIOUS
  <2>1. at[q].hook = "idle" /\ q \in Programs /\ q \notin Servers
    BY ProgramAssumption DEF QuietInv, Unheard, Programs
  <2>2. ASSUME NEW p \in Programs, ProgramStep(p), p # q PROVE conf'[q] = conf[q]
    BY <2>1, <2>2, OthersSame DEF Same
  <2>3. CASE ProgramStep(q)
    <3>1. \A t \in Threads : ~Thread(q, t)
      BY <2>1 DEF Thread, Parse, Load, Loaded, Threads
    <3>2. ~Collide(q, "load")
      BY <2>1 DEF Collide, Threads
    <3>3. QED
      BY <2>1, <2>3, <3>1, <3>2 DEF ProgramStep, Listen, Get, Change, Return
  <2>4. QED
    BY <2>2, <2>3, StepOfOne DEF Publish
<1>3. QED
  BY TypeInit, TypeNext, QuietNext, <1>1, <1>2, PTL DEF Spec, NoHotUpdate

-----------------------------------------------------------------------------
(* C++: sections are loaded in order.  What a thread has still to load is   *)
(* all that may be missing from AppConfig.                                  *)

InOrder(p) ==
    \A i, j \in 1..Len(Order) :
        i < j /\ {Order[i], Order[j]} \subseteq FrontSections /\ conf[p][Order[j]] # 0
        => conf[p][Order[i]] # 0

Rest(p, t) ==
    /\ left[p][t] \subseteq FrontSections
    /\ left[p][t] # {} => \A s \in FrontSections \ left[p][t] : conf[p][s] # 0

Loading(p) == InOrder(p) /\ \A t \in Threads : Rest(p, t)

LoadInv == \A p \in Fronts : Loading(p)

\* The next section follows those that are there.
LEMMA Follows ==
  ASSUME TypeInv, NEW p \in Programs, InOrder(p), NEW S \in SUBSET FrontSections, S # {},
         \A s \in FrontSections \ S : conf[p][s] # 0,
         NEW v \in Values, v # 0, conf' = [conf EXCEPT ![p][First(S)] = v]
  PROVE  /\ InOrder(p)'
         /\ conf'[p][First(S)] # 0
         /\ \A s \in Sections : conf[p][s] # 0 => conf'[p][s] # 0
<1>1. PICK k \in 1..Len(Order) :
         First(S) = Order[k] /\ Order[k] \in S /\ \A j \in 1..(k - 1) : Order[j] \notin S
  BY FirstIsFirst, SectionAssumption
<1>2. Len(Order) \in Nat /\ \A j \in 1..Len(Order) : Order[j] \in Sections
  BY OrderAssumption DEF Sections
<1>3. \A s \in Sections : conf'[p][s] = IF s = Order[k] THEN v ELSE conf[p][s]
  <2>1. conf \in [Programs -> [Sections -> Values]]
    BY DEF TypeInv, DataOK
  <2>2. QED
    BY <1>1, <1>2, <2>1
<1>4. ASSUME NEW i \in 1..Len(Order), NEW j \in 1..Len(Order), i < j,
             {Order[i], Order[j]} \subseteq FrontSections, conf'[p][Order[j]] # 0
      PROVE  conf'[p][Order[i]] # 0
  <2>1. CASE j = k
    <3>1. i \in 1..(k - 1)
      BY <1>2, <1>4, <2>1
    <3>2. Order[i] \in FrontSections \ S
      BY <1>1, <1>2, <1>4, <3>1
    <3>3. QED
      BY <1>3, <3>2
  <2>2. CASE j # k
    <3>1. Order[j] # Order[k]
      BY <2>2, OrderAssumption
    <3>2. conf[p][Order[i]] # 0
      BY <1>2, <1>3, <1>4, <3>1 DEF InOrder
    <3>3. QED
      BY <1>2, <1>3, <3>2
  <2>3. QED
    BY <2>1, <2>2
<1>5. InOrder(p)'
  BY <1>4 DEF InOrder
<1>6. QED
  BY <1>1, <1>2, <1>3, <1>5

LEMMA LoadStep ==
  ASSUME TypeInv, NEW p \in Fronts, ProgramStep(p), Loading(p)
  PROVE  Loading(p)' /\ \A s \in Sections : conf[p][s] # 0 => conf'[p][s] # 0
<1> DEFINE Kept == \A s \in Sections : conf[p][s] # 0 => conf'[p][s] # 0
<1>0. /\ p \in Programs /\ p \notin Servers /\ 0 \notin 1..Len(docs)
      /\ left \in [Programs -> [Threads -> SUBSET Sections]]
      /\ conf \in [Programs -> [Sections -> Values]]
  BY ProgramAssumption DEF Programs, TypeInv, DataOK
<1>1. CASE UNCHANGED <<left, conf>>
  BY <1>1 DEF Loading, InOrder, Rest
<1>2. ASSUME NEW t \in Threads, Parse(p, t) PROVE Loading(p)' /\ Kept
  <2>1. conf' = conf /\ (left' = left \/ left' = [left EXCEPT ![p][t] = FrontSections])
    BY <1>2 DEF Parse
  <2>2. \A u \in Threads : left'[p][u] = left[p][u] \/ left'[p][u] = FrontSections
    BY <1>0, <2>1
  <2>3. QED
    BY <2>1, <2>2 DEF Loading, InOrder, Rest
<1>3. ASSUME NEW t \in Threads, Load(p, t) PROVE Loading(p)' /\ Kept
  <2> DEFINE S == left[p][t]
  <2>1. S \in SUBSET FrontSections /\ S # {} /\ First(S) \in S
    <3>1. S # {}
      BY <1>3 DEF Load
    <3>2. S \subseteq FrontSections
      BY DEF Loading, Rest
    <3>3. QED
      BY <1>0, <3>1, <3>2, FirstIsLeft
  <2>2. CASE First(S) \notin docs[doc[p][t]].has
    <3>1. conf' = conf /\ left' = [left EXCEPT ![p][t] = {}]
      BY <1>3, <2>2 DEF Load
    <3>2. \A u \in Threads : left'[p][u] = left[p][u] \/ left'[p][u] = {}
      BY <1>0, <3>1
    <3>3. QED
      BY <3>1, <3>2 DEF Loading, InOrder, Rest
  <2>3. CASE First(S) \in docs[doc[p][t]].has
    <3>1. conf' = [conf EXCEPT ![p][First(S)] = doc[p][t]] /\ left' = [left EXCEPT ![p][t] = S \ {First(S)}]
      BY <1>3, <2>3 DEF Load
    <3>2. doc[p][t] \in Values /\ doc[p][t] # 0
      <4>1. at[p][t] \in Working
        BY <1>3 DEF Load, Working
      <4>2. doc[p][t] \in 1..Len(docs)
        BY <1>0, <4>1, Worked
      <4>3. doc[p][t] \in 0..Len(docs) /\ doc[p][t] # 0 /\ DataOK
        BY <4>2 DEF TypeInv
      <4>4. QED
        BY <4>3, ValueType
    <3>3. InOrder(p)' /\ conf'[p][First(S)] # 0 /\ Kept
      BY <1>0, <2>1, <3>1, <3>2, Follows DEF Loading, Rest
    <3>4. /\ left'[p][t] = S \ {First(S)}
          /\ \A u \in Threads \ {t} : left'[p][u] = left[p][u]
      BY <1>0, <3>1
    <3>5. \A u \in Threads : Rest(p, u)'
      BY <2>1, <3>3, <3>4, SectionAssumption DEF Loading, Rest
    <3>6. QED
      BY <3>3, <3>5 DEF Loading
  <2>4. QED
    BY <2>2, <2>3
<1>40. \A t \in Threads : Typed(p, t) = left[p][t]
  BY <1>0, TypedIsLeft
<1>4. CASE Collide(p, "load")
  <2> DEFINE S == left[p].init
  <2>1. CASE End(p) /\ UNCHANGED conf
    <3>1. \A u \in Threads : left'[p][u] = {}
      BY <1>0, <2>1, Ended
    <3>2. QED
      BY <2>1, <3>1 DEF Loading, InOrder, Rest
  <2>2. CASE /\ left' = [left EXCEPT ![p] = [t \in Threads |-> @[t] \ {First(S)}]]
             /\ conf' = [conf EXCEPT ![p][First(S)] = Torn]
    <3>1. S \in SUBSET FrontSections /\ S # {} /\ First(S) \in S /\ Rest(p, "init")
      BY <1>0, <1>4, <1>40, FirstIsLeft DEF Collide, Threads, Loading, Rest
    <3>2. Torn \in Values /\ Torn # 0
      BY ConfigurationBounds DEF Torn, Values
    <3>3. InOrder(p)' /\ conf'[p][First(S)] # 0 /\ Kept
      BY <1>0, <2>2, <3>1, <3>2, Follows DEF Loading, Rest
    <3>4. \A u \in Threads : left'[p][u] = left[p][u] \ {First(S)}
      BY <1>0, <2>2
    <3>5. \A u \in Threads : Rest(p, u)'
      BY <3>3, <3>4, SectionAssumption DEF Loading, Rest
    <3>6. QED
      BY <3>3, <3>5 DEF Loading
  <2>3. QED
    BY <1>4, <1>40, <2>1, <2>2 DEF Collide, Threads
<1>41. CASE End(p) /\ UNCHANGED conf
  <2>1. \A u \in Threads : left'[p][u] = {}
    BY <1>0, <1>41, Ended
  <2>2. QED
    BY <1>41, <2>1 DEF Loading, InOrder, Rest
<1>5. CASE \/ Listen(p) \/ Get(p) \/ Change(p) \/ Return(p)
           \/ \E t \in Threads : Loaded(p, t)
  BY <1>1, <1>41, <1>5 DEF Listen, Get, Change, Return, Loaded
<1>6. QED
  BY <1>0, <1>2, <1>3, <1>4, <1>5 DEF ProgramStep, Thread

LEMMA LoadNext == TypeInv /\ LoadInv /\ [Next]_vars => LoadInv'
<1> SUFFICES ASSUME TypeInv, LoadInv, [Next]_vars, NEW q \in Fronts PROVE Loading(q)'
  BY DEF LoadInv
<1>1. Loading(q) /\ q \in Programs
  BY DEF LoadInv, Programs
<1>2. CASE UNCHANGED <<left, conf>>
  BY <1>1, <1>2 DEF Loading, InOrder, Rest
<1>3. ASSUME NEW p \in Programs, ProgramStep(p) PROVE Loading(q)'
  <2>1. CASE p = q
    BY <1>1, <1>3, <2>1, LoadStep
  <2>2. CASE p # q
    BY <1>1, <1>3, <2>2, OthersSame DEF Same, Loading, InOrder, Rest
  <2>3. QED
    BY <2>1, <2>2
<1>4. QED
  BY <1>2, <1>3, StepOfOne DEF Publish

LEMMA LoadInit == Init => LoadInv
<1> SUFFICES ASSUME Init, NEW p \in Fronts PROVE Loading(p)
  BY DEF LoadInv
<1>1. left[p] = [t \in Threads |-> {}] /\ conf[p] = Unset
  BY DEF Init, Programs
<1>2. \A j \in 1..Len(Order) : conf[p][Order[j]] = 0
  BY <1>1 DEF Unset, Sections
<1>3. QED
  BY <1>1, <1>2 DEF Loading, InOrder, Rest

\* A C++ program has a section only if it has all that are read before it,
\* with whatever documents, of whatever thread, it was filled.
THEOREM LoadCorrect == Spec => []LoadedInOrder
<1>1. LoadInv => LoadedInOrder
  BY DEF LoadInv, Loading, InOrder, LoadedInOrder
<1>2. QED
  BY TypeInit, TypeNext, LoadInit, LoadNext, <1>1, PTL DEF Spec

-----------------------------------------------------------------------------
(* Go: viper's map, and what is assigned from it                            *)

\* A map holds sections of its document; a thread that fills its own map has
\* not met another one; what is assigned is in the document it is taken from.
FromMap(p) ==
    /\ \A s \in map[p].has : map[p].doc > 0 /\ s \in Present(map[p].doc)
    /\ \A t \in Threads :
          /\ at[p][t] = "fill" /\ map[p].by = t => map[p].doc = doc[p][t]
          /\ at[p][t] = "assign" => left[p][t] \subseteq Present(doc[p][t])

MapInv == \A p \in Servers : FromMap(p)

\* What stays so when no thread begins to fill or to assign.
LEMMA MapStays ==
  ASSUME NEW p \in Servers, FromMap(p), UNCHANGED <<docs, map>>,
         \A t \in Threads : at'[p][t] \in {"fill", "assign"} =>
            at'[p][t] = at[p][t] /\ doc'[p][t] = doc[p][t] /\ left'[p][t] \subseteq left[p][t]
  PROVE  FromMap(p)'
  BY DEF FromMap, Present

LEMMA MapViper ==
  ASSUME TypeInv, NEW p \in Servers, NEW t \in Threads, FromMap(p),
         NewMap(p, t) \/ Fill(p, t) \/ Walk(p, t)
  PROVE  FromMap(p)'
<1>0. /\ p \in Programs /\ at[p][t] \in Working
      /\ doc \in [Programs -> [Threads -> 0..Len(docs)]]
      /\ left \in [Programs -> [Threads -> SUBSET Sections]]
      /\ map \in [Servers -> [by : Threads, doc : 0..Len(docs), has : SUBSET Sections]]
  BY DEF Programs, TypeInv, DataOK, NewMap, Fill, Walk, Working
<1>1. CASE NewMap(p, t)
  <2>1. map'[p] = [by |-> t, doc |-> doc[p][t], has |-> {}]
    BY <1>0, <1>1 DEF NewMap
  <2>2. \A u \in Threads \ {t} : at'[p][u] = at[p][u]
    BY <1>0, <1>1, Moved DEF NewMap
  <2>3. UNCHANGED <<docs, doc, left>> /\ at'[p][t] = "fill"
    BY <1>0, <1>1, Moved DEF NewMap
  <2>4. QED
    BY <2>1, <2>2, <2>3 DEF FromMap, Present
<1>2. CASE Fill(p, t)
  <2>1. UNCHANGED <<docs, doc, left>> /\ at'[p][t] \notin {"fill", "assign"}
    BY <1>0, <1>2, Moved DEF Fill, Over
  <2>2. \A u \in Threads \ {t} : at'[p][u] = at[p][u]
    BY <1>0, <1>2, Moved DEF Fill
  <2>3. CASE UNCHANGED map
    BY <2>1, <2>2, <2>3, MapStays
  <2>4. CASE map[p].by = t /\ map' = [map EXCEPT ![p].has = Present(doc[p][t])]
    <3>1. map[p].doc = doc[p][t] /\ doc[p][t] \in 1..Len(docs) /\ doc[p][t] > 0
      BY <1>0, <1>2, <2>4, Worked DEF FromMap, Fill
    <3>2. map'[p] = [map[p] EXCEPT !.has = Present(doc[p][t])]
      BY <1>0, <2>4
    <3>3. map'[p].by = t /\ map'[p].doc = doc[p][t] /\ map'[p].has = Present(doc[p][t])
      BY <1>0, <2>4, <3>1, <3>2
    <3>4. \A u \in Threads : at'[p][u] = "fill" => u # t
      BY <2>1
    <3>5. QED
      BY <2>1, <2>2, <3>1, <3>3, <3>4 DEF FromMap, Present
  <2>5. QED
    BY <1>2, <2>3, <2>4 DEF Fill
<1>3. CASE Walk(p, t)
  <2>1. UNCHANGED <<docs, map>> /\ doc' = [doc EXCEPT ![p][t] = map[p].doc] /\ at'[p][t] = "assign"
    BY <1>0, <1>3, Moved DEF Walk
  <2>2. \A u \in Threads \ {t} : at'[p][u] = at[p][u]
    BY <1>0, <1>3, Moved DEF Walk
  <2>3. PICK S \in SUBSET Present(map[p].doc) : left' = [left EXCEPT ![p][t] = S]
    <3>1. Keys(map[p]) \subseteq Present(map[p].doc)
      BY DEF FromMap, Keys
    <3>2. QED
      BY <1>3, <3>1 DEF Walk
  <2>4. /\ doc'[p][t] = map[p].doc /\ left'[p][t] = S
        /\ \A u \in Threads \ {t} : doc'[p][u] = doc[p][u] /\ left'[p][u] = left[p][u]
    BY <1>0, <2>1, <2>3
  <2>5. QED
    BY <2>1, <2>2, <2>3, <2>4 DEF FromMap, Present
<1>4. QED
  BY <1>1, <1>2, <1>3

\* A section that is assigned has a value.
LEMMA AssignValue ==
  ASSUME TypeInv, NEW p \in Servers, NEW t \in Threads, FromMap(p), Assign(p, t)
  PROVE  LET s == First(Typed(p, t))
         IN  /\ s \in Sections /\ s \in left[p][t]
             /\ doc[p][t] \in 1..Len(docs) /\ s \in docs[doc[p][t]].has
             /\ left'[p][t] = left[p][t] \ {s}
             /\ \A u \in Threads \ {t} : left'[p][u] = left[p][u]
             /\ conf' = [conf EXCEPT ![p][s] = doc[p][t]]
             /\ conf'[p][s] = doc[p][t]
             /\ \A r \in Sections \ {s} : conf'[p][r] = conf[p][r]
<1> DEFINE s == First(Typed(p, t))
<1>0. /\ p \in Programs /\ at[p][t] \in Working
      /\ left \in [Programs -> [Threads -> SUBSET Sections]]
      /\ conf \in [Programs -> [Sections -> Values]]
  BY DEF Programs, TypeInv, DataOK, Assign, Working
<1>1. Typed(p, t) # {} /\ Typed(p, t) = left[p][t] \ docs[doc[p][t]].bad
  BY DEF Assign, Typed
<1>2. s \in Typed(p, t) /\ s \in left[p][t] /\ s \in Sections
  BY <1>0, <1>1, TypedIsLeft
<1>3. doc[p][t] \in 1..Len(docs)
  BY <1>0, Worked
<1>4. s \in docs[doc[p][t]].has /\ Value(doc[p][t], s) = doc[p][t]
  BY <1>1, <1>2 DEF FromMap, Value, Assign, Present
<1>5. conf' = [conf EXCEPT ![p][s] = doc[p][t]] /\ left' = [left EXCEPT ![p][t] = @ \ {s}]
  BY <1>4 DEF Assign
<1>6. left'[p][t] = left[p][t] \ {s} /\ \A u \in Threads \ {t} : left'[p][u] = left[p][u]
  BY <1>0, <1>5
<1>7. conf'[p][s] = doc[p][t] /\ \A r \in Sections \ {s} : conf'[p][r] = conf[p][r]
  BY <1>0, <1>2, <1>5
<1>8. QED
  BY <1>2, <1>3, <1>4, <1>5, <1>6, <1>7

\* Two threads that write one section at once leave both lists without it.
LEMMA CollideValue ==
  ASSUME TypeInv, NEW p \in Servers, Collide(p, "assign")
  PROVE  LET s == First(Typed(p, "init"))
         IN  /\ s \in Sections
             /\ UNCHANGED <<docs, at, doc, heard, map>>
             /\ \A t \in Threads : at[p][t] = "assign" /\ left'[p][t] = left[p][t] \ {s}
             /\ conf'[p][s] = Torn
             /\ \A r \in Sections \ {s} : conf'[p][r] = conf[p][r]
<1> DEFINE s == First(Typed(p, "init"))
<1>0. /\ p \in Programs /\ p \notin Fronts /\ "init" \in Threads
      /\ left \in [Programs -> [Threads -> SUBSET Sections]]
      /\ conf \in [Programs -> [Sections -> Values]]
  BY ProgramAssumption DEF Programs, TypeInv, DataOK, Threads
<1>1. s \in Sections
  <2>1. Typed(p, "init") # {}
    BY <1>0 DEF Collide
  <2>2. QED
    BY <1>0, <2>1, TypedIsLeft
<1>2. /\ left' = [left EXCEPT ![p] = [t \in Threads |-> @[t] \ {s}]]
      /\ conf' = [conf EXCEPT ![p][s] = Torn]
      /\ UNCHANGED <<docs, at, doc, heard, map>>
      /\ \A t \in Threads : at[p][t] = "assign"
  BY <1>0 DEF Collide
<1>3. \A t \in Threads : left'[p][t] = left[p][t] \ {s}
  BY <1>0, <1>2
<1>4. conf'[p][s] = Torn /\ \A r \in Sections \ {s} : conf'[p][r] = conf[p][r]
  BY <1>0, <1>1, <1>2
<1>5. QED
  BY <1>1, <1>2, <1>3, <1>4

\* InitRedis .. InitMinio only move init(), or end the program.
Serving(p) ==
    \/ Connect(p) \/ CreateTables(p) \/ CreateClients(p)
    \/ BucketExists(p) \/ MakeBucket(p) \/ ExistsAgain(p)

Served == {"create", "clients", "exists", "make", "again", "running"}

LEMMA ServingStep ==
  ASSUME NEW p, Serving(p)
  PROVE  /\ UNCHANGED <<docs, doc, heard, map, conf>>
         /\ \/ Panic(p)
            \/ /\ UNCHANGED left /\ \E place \in Served : Go(p, "init", place)
               /\ at[p].init \in Served \cup {"services"}
<1>1. ASSUME NEW S, NEW place \in Served, Needs(p, S, place)
      PROVE  Panic(p) \/ (Go(p, "init", place) /\ UNCHANGED left)
  BY <1>1 DEF Needs, Stay
<1>2. CASE Connect(p) \/ CreateClients(p) \/ BucketExists(p)
  <2>1. /\ \E S, place : place \in Served /\ Needs(p, S, place)
        /\ at[p].init \in Served \cup {"services"}
    BY <1>2 DEF Connect, CreateClients, BucketExists, Served
  <2>2. UNCHANGED <<docs, doc, heard, map, conf>>
    BY <1>2 DEF Connect, CreateClients, BucketExists
  <2>3. QED
    BY <1>1, <2>1, <2>2
<1>3. CASE CreateTables(p) \/ MakeBucket(p) \/ ExistsAgain(p)
  BY <1>3 DEF CreateTables, MakeBucket, ExistsAgain, Stay, Served
<1>4. QED
  BY <1>2, <1>3 DEF Serving

\* The other steps of a server.
Aside(p) ==
    \/ Listen(p) \/ Get(p) \/ Change(p) \/ \E t \in Threads : Assigned(p, t)
    \/ Fatal(p) \/ Serving(p)

LEMMA ServerStep ==
  ASSUME NEW p \in Servers, ProgramStep(p)
  PROVE  \/ Aside(p) \/ Collide(p, "assign")
         \/ \E t \in Threads : NewMap(p, t) \/ Fill(p, t) \/ Walk(p, t) \/ Assign(p, t)
  BY ProgramAssumption DEF ProgramStep, Thread, GoOnly, Aside, Serving

LEMMA AsideKeeps ==
  ASSUME TypeInv, NEW p \in Servers, Aside(p)
  PROVE  /\ UNCHANGED <<docs, map, conf>>
         /\ \A t \in Threads : at'[p][t] \in {"fill", "unmarshal", "assign"} =>
               /\ at'[p][t] = at[p][t] /\ doc'[p][t] = doc[p][t] /\ left'[p][t] = left[p][t]
<1>0. /\ p \in Programs /\ p \in Servers /\ "init" \in Threads /\ "hook" \in Threads
      /\ doc \in [Programs -> [Threads -> 0..Len(docs)]]
      /\ left \in [Programs -> [Threads -> SUBSET Sections]]
  BY DEF Programs, TypeInv, DataOK, Threads
<1> DEFINE Kept == \A t \in Threads : at'[p][t] \in {"fill", "unmarshal", "assign"} =>
                      at'[p][t] = at[p][t] /\ doc'[p][t] = doc[p][t] /\ left'[p][t] = left[p][t]
<1>1. UNCHANGED <<docs, map, conf>>
  BY ServingStep DEF Aside, Listen, Get, Change, Assigned, Fatal
<1> SUFFICES Kept
  BY <1>1
<1>2. ASSUME NEW t \in Threads, \E place : Go(p, t, place),
             at'[p][t] \notin {"fill", "unmarshal", "assign"},
             \A u \in Threads \ {t} : doc'[p][u] = doc[p][u] /\ left'[p][u] = left[p][u]
      PROVE  Kept
  <2>1. \A u \in Threads \ {t} : at'[p][u] = at[p][u]
    BY <1>0, <1>2, Moved
  <2>2. QED
    BY <1>2, <2>1
<1>7. CASE End(p) \/ Panic(p)
  BY <1>0, <1>7, Ended DEF Threads
<1>3. CASE Listen(p) \/ Serving(p)
  <2>1. \/ End(p) \/ Panic(p)
        \/ /\ UNCHANGED <<left, doc>>
           /\ \E place \in Served \cup {"get"} : Go(p, "init", place)
    BY <1>3, ServingStep DEF Listen, Served
  <2>2. CASE /\ UNCHANGED <<left, doc>>
             /\ \E place \in Served \cup {"get"} : Go(p, "init", place)
    <3>1. at'[p]["init"] \in Served \cup {"get"}
      BY <1>0, <2>2, Moved
    <3>2. QED
      BY <1>0, <1>2, <2>2, <3>1 DEF Served
  <2>3. QED
    BY <1>7, <2>1, <2>2
<1>4. CASE Get(p)
  <2>1. UNCHANGED left /\ (doc' = doc \/ doc' = [doc EXCEPT ![p]["init"] = Len(docs)])
    BY <1>4 DEF Get
  <2>2. \E place \in {"parse", "running"} : Go(p, "init", place)
    BY <1>0, <1>4 DEF Get, Over
  <2>3. at'[p]["init"] \in {"parse", "running"}
    BY <1>0, <2>2, Moved
  <2>4. \A u \in Threads \ {"init"} : doc'[p][u] = doc[p][u]
    BY <1>0, <2>1
  <2>5. QED
    BY <1>0, <1>2, <2>1, <2>2, <2>3, <2>4
<1>5. CASE Change(p)
  <2>1. UNCHANGED left /\ doc' = [doc EXCEPT ![p]["hook"] = Len(docs)] /\ at[p]["hook"] = "idle"
    BY <1>5 DEF Change
  <2>2. \A u \in Threads \ {"hook"} : doc'[p][u] = doc[p][u]
    BY <1>0, <2>1
  <2>3. CASE UNCHANGED at
    BY <1>0, <2>1, <2>2, <2>3
  <2>4. CASE Go(p, "hook", "parse")
    <3>1. at'[p]["hook"] = "parse"
      BY <1>0, <2>4, Moved
    <3>2. QED
      BY <1>0, <1>2, <2>1, <2>2, <2>4, <3>1
  <2>5. QED
    BY <1>5, <2>3, <2>4 DEF Change
<1>6. ASSUME NEW t \in Threads, Assigned(p, t) PROVE Kept
  <2>1. /\ doc' = doc /\ left' = [left EXCEPT ![p][t] = {}]
        /\ \E place \in {"idle", "running", "services"} : Go(p, t, place)
    BY <1>0, <1>6 DEF Assigned, Over
  <2>2. at'[p][t] \in {"idle", "running", "services"}
    BY <1>0, <2>1, Moved
  <2>3. \A u \in Threads \ {t} : left'[p][u] = left[p][u]
    BY <1>0, <2>1
  <2>4. QED
    BY <1>2, <2>1, <2>2, <2>3
<1>9. QED
  BY <1>3, <1>4, <1>5, <1>6, <1>7 DEF Aside, Fatal

LEMMA MapStep ==
  ASSUME TypeInv, NEW p \in Servers, ProgramStep(p), FromMap(p)
  PROVE  FromMap(p)'
<1>1. CASE Aside(p)
  BY <1>1, AsideKeeps, MapStays
<1>2. CASE Collide(p, "assign")
  BY <1>2, CollideValue, MapStays
<1>3. ASSUME NEW t \in Threads, Assign(p, t) PROVE FromMap(p)'
  <2>1. UNCHANGED <<docs, at, doc, map>>
    BY <1>3 DEF Assign
  <2>2. \A u \in Threads : left'[p][u] \subseteq left[p][u]
    BY <1>3, AssignValue
  <2>3. QED
    BY <2>1, <2>2, MapStays
<1>4. QED
  BY <1>1, <1>2, <1>3, ServerStep, MapViper

LEMMA MapNext == TypeInv /\ MapInv /\ [Next]_vars => MapInv'
<1> SUFFICES ASSUME TypeInv, MapInv, [Next]_vars, NEW q \in Servers PROVE FromMap(q)'
  BY DEF MapInv
<1>1. FromMap(q) /\ q \in Programs
  BY DEF MapInv, Programs
<1>2. CASE Publish
  <2>1. UNCHANGED <<at, doc, left, map>>
    BY <1>2 DEF Publish
  <2>2. \A d \in 1..Len(docs) : docs'[d] = docs[d]
    BY <1>2, PublishKeeps
  <2>3. map[q].doc > 0 => map[q].doc \in 1..Len(docs)
    BY DEF TypeInv, DataOK
  <2>4. \A t \in Threads : at[q][t] = "assign" => doc[q][t] \in 1..Len(docs)
    BY <1>1, Worked DEF Working
  <2>5. QED
    BY <1>1, <2>1, <2>2, <2>3, <2>4 DEF FromMap, Present
<1>3. CASE UNCHANGED <<docs, at, doc, left, map>>
  BY <1>1, <1>3 DEF FromMap, Present
<1>4. ASSUME NEW p \in Programs, ProgramStep(p) PROVE FromMap(q)'
  <2>1. CASE p = q
    BY <1>1, <1>4, <2>1, MapStep
  <2>2. CASE p # q
    BY <1>1, <1>4, <2>2, OthersSame DEF Same, FromMap, Present
  <2>3. QED
    BY <2>1, <2>2
<1>5. QED
  BY <1>2, <1>3, <1>4, StepOfOne

LEMMA MapInit == Init => MapInv
<1> SUFFICES ASSUME Init, NEW p \in Servers PROVE FromMap(p)
  BY DEF MapInv
<1>1. map[p].has = {} /\ \A t \in Threads : at[p][t] \notin {"fill", "assign"}
  BY DEF Init, Programs, Threads
<1>2. QED
  BY <1>1 DEF FromMap

LEMMA NeverErasedStep ==
  ASSUME TypeInv, LoadInv, MapInv, NEW p \in Programs, ProgramStep(p), NEW s \in Sections,
         conf[p][s] # 0
  PROVE  conf'[p][s] # 0
<1>1. CASE p \in Fronts
  BY <1>1, LoadStep DEF LoadInv
<1>2. CASE p \in Servers
  <2>1. CASE Aside(p)
    BY <1>2, <2>1, AsideKeeps
  <2>2. CASE Collide(p, "assign")
    <3>1. Torn # 0
      BY ConfigurationBounds DEF Torn
    <3>2. QED
      BY <1>2, <2>2, <3>1, CollideValue
  <2>3. ASSUME NEW t \in Threads, NewMap(p, t) \/ Fill(p, t) \/ Walk(p, t) PROVE conf'[p][s] # 0
    BY <2>3 DEF NewMap, Fill, Walk
  <2>4. ASSUME NEW t \in Threads, Assign(p, t) PROVE conf'[p][s] # 0
    <3>1. FromMap(p)
      BY <1>2 DEF MapInv
    <3>2. /\ doc[p][t] \in 1..Len(docs) /\ conf'[p][First(Typed(p, t))] = doc[p][t]
          /\ \A r \in Sections \ {First(Typed(p, t))} : conf'[p][r] = conf[p][r]
      BY <1>2, <2>4, <3>1, AssignValue
    <3>3. doc[p][t] # 0
      BY <3>2
    <3>4. QED
      BY <3>2, <3>3
  <2>5. QED
    BY <1>2, <2>1, <2>2, <2>3, <2>4, ServerStep
<1>3. QED
  BY <1>1, <1>2 DEF Programs

\* A section that a program has once loaded is never lost, whatever is
\* published and wherever OnChange meets init() between the statements of the
\* two.
THEOREM SectionsStay == Spec => NeverErased
<1>1. TypeInv /\ LoadInv /\ MapInv /\ [Next]_vars =>
         [\A p \in Programs, s \in Sections : conf[p][s] # 0 => conf'[p][s] # 0]_vars
  <2> SUFFICES ASSUME TypeInv, LoadInv, MapInv, [Next]_vars,
                      NEW q \in Programs, NEW s \in Sections, conf[q][s] # 0
               PROVE  conf'[q][s] # 0
    OBVIOUS
  <2>1. ASSUME NEW p \in Programs, ProgramStep(p) PROVE conf'[q][s] # 0
    BY <2>1, OthersSame, NeverErasedStep DEF Same
  <2>2. QED
    BY <2>1, StepOfOne DEF Publish
<1>2. QED
  BY TypeInit, TypeNext, LoadInit, LoadNext, MapInit, MapNext, <1>1, PTL DEF Spec, NeverErased

-----------------------------------------------------------------------------
(* Go: nothing goes back once init() has done its part                      *)

\* OnChange works on the newest document it was told of, or on the one that
\* init() has put in its way, of which init() then assigns every section.
HookDoc(p) == IF at[p].hook = "assign" THEN doc[p].hook ELSE map[p].doc

Stale(p) == at[p].hook \in {"fill", "unmarshal", "assign"} /\ HookDoc(p) # heard[p]

Assured(p, d) ==
    \A s \in docs[d].has :
        conf[p][s] \in {d, Torn} \/ (at[p].init = "assign" /\ s \in left[p].init)

Overtaken(p) ==
    LET d == map[p].doc
    IN  /\ map[p].by = "init" /\ HookDoc(p) = d
        /\ at[p].init \notin {"listen", "get", "parse"}
        /\ at[p].init = "unmarshal" => map[p].has = Present(d)
        /\ at[p].init = "assign" => doc[p].init = d
        /\ at[p].init \notin {"fill", "unmarshal"} => Assured(p, d)

Rolled(p) ==
    /\ at[p].hook \in {"parse", "fill"} => doc[p].hook = heard[p]
    /\ Stale(p) => Overtaken(p)

RollInv == \A p \in Servers : Rolled(p)

\* A hook that is not at work on a stale document needs nothing from init().
LEMMA HookFresh ==
  ASSUME NEW p \in Servers, ~Stale(p), Rolled(p),
         at'[p].hook \in {at[p].hook, "idle"}, heard'[p] = heard[p], doc'[p].hook = doc[p].hook,
         map'[p].doc = map[p].doc
  PROVE  Rolled(p)'
  BY DEF Rolled, Stale, HookDoc

LEMMA RollHook ==
  ASSUME TypeInv, NEW p \in Servers, FromMap(p), Rolled(p),
         \/ Change(p) \/ Assigned(p, "hook")
         \/ NewMap(p, "hook") \/ Fill(p, "hook") \/ Walk(p, "hook") \/ Assign(p, "hook")
  PROVE  Rolled(p)'
<1>0. /\ p \in Programs /\ "init" \in Threads /\ "hook" \in Threads
      /\ doc \in [Programs -> [Threads -> 0..Len(docs)]]
      /\ left \in [Programs -> [Threads -> SUBSET Sections]]
      /\ heard \in [Programs -> 0..Len(docs)]
      /\ map \in [Servers -> [by : Threads, doc : 0..Len(docs), has : SUBSET Sections]]
  BY DEF Programs, TypeInv, DataOK, Threads
<1>1. CASE Change(p)
  <2>1. doc' = [doc EXCEPT ![p]["hook"] = Len(docs)] /\ heard' = [heard EXCEPT ![p] = Len(docs)]
    BY <1>1 DEF Change
  <2>2. doc'[p].hook = heard'[p]
    BY <1>0, <2>1
  <2>3. at'[p].hook \in {"idle", "parse"}
    BY <1>0, <1>1, Moved DEF Change
  <2>4. QED
    BY <2>2, <2>3 DEF Rolled, Stale
<1>2. CASE Assigned(p, "hook")
  <2>1. at'[p].hook = "idle"
    BY <1>0, <1>2, Moved DEF Assigned, Over
  <2>2. QED
    BY <2>1 DEF Rolled, Stale
<1>3. CASE NewMap(p, "hook")
  <2>1. /\ at[p].hook = "parse" /\ UNCHANGED <<doc, heard>>
        /\ map' = [map EXCEPT ![p] = [by |-> "hook", doc |-> doc[p]["hook"], has |-> {}]]
    BY <1>3 DEF NewMap
  <2>2. map'[p].doc = doc[p].hook
    BY <1>0, <2>1
  <2>3. at'[p].hook = "fill"
    BY <1>0, <1>3, Moved DEF NewMap
  <2>4. QED
    BY <2>1, <2>2, <2>3 DEF Rolled, Stale, HookDoc
<1>4. CASE Fill(p, "hook")
  <2>1. /\ at[p].hook = "fill" /\ UNCHANGED <<docs, doc, left, heard, conf>>
        /\ at'[p].hook \in {"idle", "unmarshal"} /\ at'[p].init = at[p].init
    BY <1>0, <1>4, Moved DEF Fill, Over
  <2>2. CASE map'[p] = map[p]
    BY <2>1, <2>2 DEF Rolled, Stale, HookDoc, Overtaken, Assured, Present
  <2>3. CASE map[p].by = "hook" /\ map' = [map EXCEPT ![p].has = Present(doc[p]["hook"])]
    <3>1. map'[p].doc = map[p].doc
      BY <1>0, <2>3
    <3>2. ~Stale(p)
      BY <2>3 DEF Rolled, Overtaken
    <3>3. QED
      BY <2>1, <3>1, <3>2 DEF Rolled, Stale, HookDoc
  <2>4. QED
    BY <1>4, <2>2, <2>3 DEF Fill
<1>5. CASE Walk(p, "hook")
  <2>1. /\ at[p].hook = "unmarshal" /\ UNCHANGED <<docs, map, heard, conf>>
        /\ at'[p].hook = "assign" /\ at'[p].init = at[p].init
        /\ doc' = [doc EXCEPT ![p]["hook"] = map[p].doc]
    BY <1>0, <1>5, Moved DEF Walk
  <2>2. doc'[p].hook = map[p].doc /\ doc'[p].init = doc[p].init
    BY <1>0, <2>1
  <2>3. left'[p].init = left[p].init
    <3>1. PICK S : left' = [left EXCEPT ![p]["hook"] = S]
      BY <1>5 DEF Walk
    <3>2. QED
      BY <1>0, <3>1
  <2>4. QED
    BY <2>1, <2>2, <2>3 DEF Rolled, Stale, HookDoc, Overtaken, Assured, Present
<1>6. CASE Assign(p, "hook")
  <2>1. at[p].hook = "assign" /\ UNCHANGED <<docs, at, doc, map, heard>>
    BY <1>6 DEF Assign
  <2> DEFINE t == First(Typed(p, "hook"))
  <2>2. \A u \in Threads \ {"hook"} : left'[p][u] = left[p][u]
    BY <1>0, <1>6, AssignValue
  <2>3. /\ t \in Sections /\ conf'[p][t] = doc[p]["hook"]
        /\ \A s \in Sections \ {t} : conf'[p][s] = conf[p][s]
    BY <1>0, <1>6, AssignValue
  <2> HIDE DEF t
  <2>4. ASSUME Stale(p) PROVE Overtaken(p)'
    <3>1. Overtaken(p) /\ map[p].doc = doc[p].hook
      BY <2>1, <2>4 DEF Rolled, Overtaken, HookDoc
    <3>2. docs[map[p].doc].has \subseteq Sections
      BY <1>0, <2>1, <3>1, Worked DEF Working
    <3>3. Assured(p, map[p].doc) => Assured(p, map[p].doc)'
      BY <1>0, <2>1, <2>2, <2>3, <3>1, <3>2 DEF Assured
    <3>4. QED
      BY <2>1, <3>1, <3>3 DEF Overtaken, HookDoc, Present
  <2>5. QED
    BY <2>1, <2>4 DEF Rolled, Stale, HookDoc
<1>7. QED
  BY <1>1, <1>2, <1>3, <1>4, <1>5, <1>6

LEMMA RollLoad ==
  ASSUME TypeInv, NEW p \in Servers, FromMap(p), Rolled(p),
         \/ Listen(p) \/ Get(p) \/ Assigned(p, "init")
         \/ NewMap(p, "init") \/ Fill(p, "init") \/ Walk(p, "init") \/ Assign(p, "init")
  PROVE  Rolled(p)'
<1>0. /\ p \in Programs /\ "init" \in Threads /\ "hook" \in Threads /\ "init" # "hook"
      /\ doc \in [Programs -> [Threads -> 0..Len(docs)]]
      /\ left \in [Programs -> [Threads -> SUBSET Sections]]
      /\ map \in [Servers -> [by : Threads, doc : 0..Len(docs), has : SUBSET Sections]]
      /\ at[p].hook \in PlacesOf(p, "hook")
  BY DEF Programs, TypeInv, AtOK, Placed, DataOK, Threads
<1>1. UNCHANGED <<docs, heard>> /\ at'[p].hook = at[p].hook
  BY <1>0, ProgramAssumption, Moved DEF Listen, Get, Assigned, NewMap, Fill, Walk, Assign
<1>2. CASE Listen(p) \/ Get(p)
  <2>1. map' = map /\ (doc' = doc \/ doc' = [doc EXCEPT ![p]["init"] = Len(docs)])
    BY <1>2 DEF Listen, Get
  <2>2. doc'[p].hook = doc[p].hook
    BY <1>0, <2>1
  <2>3. ~Stale(p)
    BY <1>2 DEF Listen, Get, Rolled, Overtaken
  <2>4. QED
    BY <1>1, <2>1, <2>2, <2>3, HookFresh
<1>3. CASE NewMap(p, "init")
  <2>1. doc' = doc /\ at[p].init = "parse"
        /\ map' = [map EXCEPT ![p] = [by |-> "init", doc |-> doc[p]["init"], has |-> {}]]
    BY <1>3 DEF NewMap
  <2>2. map'[p].by = "init" /\ at'[p].init = "fill"
    BY <1>0, <1>3, <2>1, Moved DEF NewMap
  <2>3. ~Stale(p)
    BY <2>1 DEF Rolled, Overtaken
  <2>4. QED
    BY <1>1, <2>1, <2>2, <2>3 DEF Rolled, Stale, HookDoc, Overtaken
<1>4. CASE Fill(p, "init")
  <2>1. at[p].init = "fill" /\ UNCHANGED <<doc, left, conf>>
    BY <1>4 DEF Fill
  <2>2. map'[p].doc = map[p].doc /\ map'[p].by = map[p].by
    <3>1. CASE map' = [map EXCEPT ![p].has = Present(doc[p]["init"])]
      BY <1>0, <3>1
    <3>2. QED
      BY <1>4, <3>1 DEF Fill
  <2>3. CASE Stale(p)
    <3>1. map[p].by = "init" /\ map[p].doc = doc[p].init /\ HookDoc(p) = map[p].doc
      BY <1>0, <2>1, <2>3 DEF Rolled, Overtaken, FromMap
    <3>2. HookDoc(p)' = map'[p].doc
      BY <1>1, <2>1, <2>2, <3>1 DEF HookDoc
    <3>3. CASE docs[doc[p]["init"]].form = "malformed"
      <4>1. at'[p].init = "running"
        BY <1>0, <1>4, <3>3, Moved DEF Fill, Over
      <4>2. docs[map[p].doc].has = {}
        <5>1. doc[p].init \in 1..Len(docs) /\ DataOK
          BY <1>0, <2>1, Worked DEF Working, TypeInv
        <5>2. QED
          BY <3>1, <3>3, <5>1, DocumentType
      <4>3. QED
        BY <1>1, <2>1, <2>2, <2>3, <3>1, <3>2, <4>1, <4>2 DEF Rolled, Stale, HookDoc, Overtaken, Assured
    <3>4. CASE docs[doc[p]["init"]].form # "malformed"
      <4>1. at'[p].init = "unmarshal" /\ map' = [map EXCEPT ![p].has = Present(doc[p]["init"])]
        BY <1>0, <1>4, <3>1, <3>4, Moved DEF Fill
      <4>2. map'[p].has = Present(doc[p].init)
        BY <1>0, <4>1
      <4>3. QED
        BY <1>1, <2>1, <2>2, <2>3, <3>1, <3>2, <4>1, <4>2 DEF Rolled, Stale, HookDoc, Overtaken, Present
    <3>5. QED
      BY <3>3, <3>4
  <2>4. QED
    BY <1>1, <2>1, <2>2, <2>3, HookFresh
<1>5. CASE Walk(p, "init")
  <2>1. /\ at[p].init = "unmarshal" /\ UNCHANGED <<map, conf>> /\ at'[p].init = "assign"
        /\ doc' = [doc EXCEPT ![p]["init"] = map[p].doc]
    BY <1>0, <1>5, Moved DEF Walk
  <2>2. doc'[p].init = map[p].doc /\ doc'[p].hook = doc[p].hook
    BY <1>0, <2>1
  <2>3. CASE Stale(p)
    <3>1. map[p].by = "init" /\ map[p].has = Present(map[p].doc) /\ HookDoc(p) = map[p].doc
      BY <2>1, <2>3 DEF Rolled, Overtaken
    <3>2. left' = [left EXCEPT ![p]["init"] = Present(map[p].doc)]
      BY <1>0, <1>5, <3>1 DEF Walk, Keys
    <3>3. left'[p].init = Present(map[p].doc)
      BY <1>0, <3>2
    <3>4. QED
      BY <1>1, <2>1, <2>2, <2>3, <3>1, <3>3 DEF Rolled, Stale, HookDoc, Overtaken, Assured, Present
  <2>4. QED
    BY <1>1, <2>1, <2>2, <2>3, HookFresh
<1>6. CASE Assign(p, "init") \/ Assigned(p, "init")
  <2>1. at[p].init = "assign" /\ UNCHANGED <<doc, map>>
    BY <1>6 DEF Assign, Assigned
  <2>2. CASE Stale(p)
    <3>1. Overtaken(p) /\ doc[p].init = map[p].doc /\ Assured(p, map[p].doc)
      BY <2>1, <2>2 DEF Rolled, Overtaken
    <3>2. docs[map[p].doc].has \subseteq Sections
      BY <1>0, <2>1, <3>1, Worked DEF Working
    <3>3. Assured(p, map[p].doc)' /\ at'[p].init \in {"assign", "running", "services"}
      <4>1. CASE Assign(p, "init")
        <5> DEFINE t == First(Typed(p, "init"))
        <5>1. /\ t \in Sections /\ left'[p]["init"] = left[p]["init"] \ {t}
              /\ conf'[p][t] = doc[p]["init"]
              /\ \A s \in Sections \ {t} : conf'[p][s] = conf[p][s]
          BY <1>0, <4>1, AssignValue
        <5>2. at' = at
          BY <4>1 DEF Assign
        <5> HIDE DEF t
        <5>3. QED
          BY <1>1, <2>1, <3>1, <3>2, <5>1, <5>2 DEF Assured
      <4>2. CASE Assigned(p, "init")
        <5>1. /\ left[p].init \subseteq docs[map[p].doc].bad
              /\ conf' = conf /\ at'[p].init \in {"running", "services"}
          BY <1>0, <3>1, <4>2, Moved DEF Assigned, Over, Typed
        <5>2. docs[map[p].doc].has \cap docs[map[p].doc].bad = {}
          <6>1. doc[p]["init"] \in 1..Len(docs) /\ DataOK
            BY <1>0, <2>1, Worked DEF Working, TypeInv
          <6>2. QED
            BY <3>1, <6>1, DocumentType
        <5>3. QED
          BY <1>1, <2>1, <3>1, <5>1, <5>2 DEF Assured
      <4>3. QED
        BY <1>6, <4>1, <4>2
    <3>4. QED
      BY <1>1, <2>1, <2>2, <3>1, <3>3 DEF Rolled, Stale, HookDoc, Overtaken
  <2>3. QED
    BY <1>1, <2>1, <2>2, HookFresh
<1>7. QED
  BY <1>2, <1>3, <1>4, <1>5, <1>6

\* Services do not touch what OnChange works with.
LEMMA RollServices ==
  ASSUME TypeInv, NEW p \in Servers, Rolled(p),
         Serving(p) \/ Fatal(p)
  PROVE  Rolled(p)'
<1>0. p \in Programs /\ "init" \in Threads /\ "hook" \in Threads \ {"init"}
  BY DEF Programs, Threads
<1>1. CASE End(p) \/ Panic(p)
  BY <1>0, <1>1, Ended DEF Rolled, Stale
<1>2. CASE /\ UNCHANGED left /\ at[p].init \in Served \cup {"services"}
           /\ \E place \in Served : Go(p, "init", place)
  <2>1. at'[p].init \in Served /\ at'[p].hook = at[p].hook
    BY <1>0, <1>2, Moved
  <2>2. UNCHANGED <<docs, doc, heard, map, conf>>
    BY ServingStep DEF Fatal
  <2>3. Assured(p, map[p].doc) => Assured(p, map[p].doc)'
    BY <1>2, <2>1, <2>2 DEF Assured, Served
  <2>4. QED
    BY <1>2, <2>1, <2>2, <2>3 DEF Rolled, Stale, HookDoc, Overtaken, Served
<1>3. QED
  BY <1>1, <1>2, ServingStep DEF Fatal

LEMMA RollCollide ==
  ASSUME TypeInv, NEW p \in Servers, Rolled(p), Collide(p, "assign")
  PROVE  Rolled(p)'
<1> DEFINE t == First(Typed(p, "init"))
<1>1. /\ UNCHANGED <<docs, at, doc, heard, map>> /\ at[p]["hook"] = "assign"
      /\ left'[p]["init"] = left[p]["init"] \ {t} /\ conf'[p][t] = Torn
      /\ \A s \in Sections \ {t} : conf'[p][s] = conf[p][s]
  BY CollideValue DEF Threads
<1> HIDE DEF t
<1>2. ASSUME Stale(p) PROVE Overtaken(p)'
  <2>1. Overtaken(p) /\ map[p].doc = doc[p]["hook"]
    BY <1>1, <1>2 DEF Rolled, Overtaken, HookDoc
  <2>2. docs[map[p].doc].has \subseteq Sections
    BY <1>1, <2>1, Worked DEF Working, Programs, Threads
  <2>3. Assured(p, map[p].doc) => Assured(p, map[p].doc)'
    BY <1>1, <2>2 DEF Assured
  <2>4. QED
    BY <1>1, <2>1, <2>3 DEF Overtaken, HookDoc, Present
<1>3. QED
  BY <1>1, <1>2 DEF Rolled, Stale, HookDoc

LEMMA RollStep ==
  ASSUME TypeInv, NEW p \in Servers, ProgramStep(p), FromMap(p), Rolled(p)
  PROVE  Rolled(p)'
<1>1. \A t \in Threads : t \in {"init", "hook"}
  BY DEF Threads
<1>2. QED
  BY <1>1, ServerStep, RollHook, RollLoad, RollServices, RollCollide DEF Aside

LEMMA RollNext == TypeInv /\ MapInv /\ RollInv /\ [Next]_vars => RollInv'
<1> SUFFICES ASSUME TypeInv, MapInv, RollInv, [Next]_vars, NEW q \in Servers PROVE Rolled(q)'
  BY DEF RollInv
<1>1. Rolled(q) /\ FromMap(q) /\ q \in Programs /\ "hook" \in Threads
  BY DEF RollInv, MapInv, Programs, Threads
<1>2. CASE Publish
  <2>1. UNCHANGED <<at, doc, left, heard, map, conf>>
    BY <1>2 DEF Publish
  <2>2. CASE Stale(q)
    <3>1. Overtaken(q)
      BY <1>1, <2>2 DEF Rolled
    <3>2. map[q].doc \in 1..Len(docs)
      <4>1. CASE at[q].hook = "assign"
        BY <1>1, <3>1, <4>1, Worked DEF Overtaken, HookDoc, Working
      <4>2. CASE at[q].hook # "assign"
        BY <1>1, <2>2, <4>2, MapWorked DEF Stale
      <4>3. QED
        BY <4>1, <4>2
    <3>3. docs'[map[q].doc] = docs[map[q].doc]
      BY <1>2, <3>2, PublishKeeps
    <3>4. QED
      BY <1>1, <2>1, <3>1, <3>3 DEF Rolled, Overtaken, Assured, HookDoc, Present
  <2>3. CASE ~Stale(q)
    BY <1>1, <2>1, <2>3 DEF Rolled, Stale, HookDoc
  <2>4. QED
    BY <2>2, <2>3
<1>3. CASE UNCHANGED <<docs, at, doc, left, heard, map, conf>>
  BY <1>1, <1>3 DEF Rolled, Stale, HookDoc, Overtaken, Assured, Present
<1>4. ASSUME NEW p \in Programs, ProgramStep(p) PROVE Rolled(q)'
  <2>1. CASE p = q
    BY <1>1, <1>4, <2>1, RollStep
  <2>2. CASE p # q
    <3>1. Same(q) /\ docs' = docs
      BY <1>1, <1>4, <2>2, OthersSame
    <3>2. QED
      BY <1>1, <3>1 DEF Same, Rolled, Stale, HookDoc, Overtaken, Assured, Present
  <2>3. QED
    BY <2>1, <2>2
<1>5. QED
  BY <1>2, <1>3, <1>4, StepOfOne

LEMMA NoRollbackStep ==
  ASSUME TypeInv, MapInv, RollInv, NEW p \in Servers, ProgramStep(p), NEW s \in Sections,
         Past(p), conf[p][s] <= heard[p]
  PROVE  conf'[p][s] >= conf[p][s]
<1>0. /\ p \in Programs /\ Rolled(p) /\ FromMap(p) /\ "hook" \in Threads
      /\ conf[p][s] \in Nat /\ heard[p] \in 0..Len(docs)
      /\ DataOK /\ at[p].init \notin {"assign", "fill", "unmarshal"}
  <2>1. p \in Programs /\ Rolled(p) /\ FromMap(p) /\ "hook" \in Threads /\ DataOK
    BY DEF Programs, RollInv, MapInv, Threads, TypeInv
  <2>2. at[p].init \notin {"assign", "fill", "unmarshal"}
    BY DEF Past
  <2>3. conf[p][s] \in 0..Torn /\ heard[p] \in 0..Len(docs)
    BY <2>1 DEF DataOK, Values
  <2>4. QED
    BY <2>1, <2>2, <2>3
<1>1. CASE UNCHANGED conf
  BY <1>0, <1>1
<1>2. CASE Assign(p, "hook")
  <2> DEFINE t == First(Typed(p, "hook"))
             d == doc[p]["hook"]
  <2>1. /\ t \in left[p]["hook"] /\ conf'[p][t] = d
        /\ \A r \in Sections \ {t} : conf'[p][r] = conf[p][r]
    BY <1>0, <1>2, AssignValue
  <2>2. at[p].hook = "assign" /\ t \in docs[d].has
    BY <1>0, <1>2, <2>1, AssignValue DEF Assign
  <2> HIDE DEF t
  <2>3. CASE Stale(p)
    <3>1. conf[p][t] \in {d, Torn}
      BY <1>0, <2>2, <2>3 DEF Rolled, Overtaken, HookDoc, Assured
    <3>2. Torn > heard[p]
      BY <1>0, ValueType
    <3>3. conf[p][s] # Torn
      BY <1>0, <3>2
    <3>4. QED
      BY <1>0, <2>1, <3>1, <3>3
  <2>4. CASE ~Stale(p)
    <3>1. d = heard[p]
      BY <2>2, <2>4 DEF Stale, HookDoc
    <3>2. QED
      BY <1>0, <2>1, <3>1
  <2>5. QED
    BY <2>3, <2>4
<1>3. ~Assign(p, "init") /\ ~Collide(p, "assign")
  BY <1>0 DEF Assign, Collide, Threads
<1>4. ASSUME NEW t \in Threads, NewMap(p, t) \/ Fill(p, t) \/ Walk(p, t) PROVE UNCHANGED conf
  BY <1>4 DEF NewMap, Fill, Walk
<1>5. QED
  BY <1>1, <1>2, <1>3, <1>4, ServerStep, AsideKeeps DEF Threads

\* Once init() has assigned ViperConf, a section that OnChange has brought up
\* to what it was told of never goes back: what it may still assign is that
\* document, or one of which init() has assigned the section already.
THEOREM NothingRollsBack == Spec => NoRollback
<1>1. Init => RollInv
  BY DEF Init, RollInv, Rolled, Stale, Programs
<1>2. TypeInv /\ MapInv /\ RollInv /\ [Next]_vars =>
         [\A p \in Servers, s \in Sections :
             Past(p) /\ conf[p][s] <= heard[p] => conf'[p][s] >= conf[p][s]]_vars
  <2> SUFFICES ASSUME TypeInv, MapInv, RollInv, [Next]_vars,
                      NEW q \in Servers, NEW s \in Sections, Past(q), conf[q][s] <= heard[q]
               PROVE  conf'[q][s] >= conf[q][s]
    OBVIOUS
  <2>1. q \in Programs /\ conf[q][s] \in Nat
    BY ConfigurationBounds DEF Programs, TypeInv, DataOK, Values, Torn
  <2>2. CASE UNCHANGED conf
    BY <2>1, <2>2
  <2>3. ASSUME NEW p \in Programs, ProgramStep(p) PROVE conf'[q][s] >= conf[q][s]
    <3>1. CASE p = q
      BY <2>3, <3>1, NoRollbackStep
    <3>2. CASE p # q
      BY <2>1, <2>3, <3>2, OthersSame DEF Same
    <3>3. QED
      BY <3>1, <3>2
  <2>4. QED
    BY <2>2, <2>3, StepOfOne DEF Publish
<1>3. QED
  BY TypeInit, TypeNext, MapInit, MapNext, RollNext, <1>1, <1>2, PTL DEF Spec, NoRollback
=============================================================================
