-------------------------- MODULE StoreWorker_proofs --------------------------
(***************************************************************************)
(* Proofs about StoreWorker, for any number of processes, workers and      *)
(* events, any lock length and any combination of failures.                *)
(***************************************************************************)
EXTENDS StoreWorker, TLAPS

-----------------------------------------------------------------------------
(* Type correctness *)

\* Between tryBeginInbox and its return value a worker handles an event.
HandlesEvent ==
    \A w \in Workers : pc[w] \notin {"idle", "err"} => event[w] \in Events

TypeInv == WorkerTypeOK /\ HandlesEvent

LEMMA TypeInit == WorkerInit => TypeInv
  BY PayloadAssumption, TimeAssumption
  DEF WorkerInit, TypeInv, WorkerTypeOK, HandlesEvent, Row, NoRow, Statements

\* The value written by an acquisition is a row.
LEMMA LockedIsRow ==
  ASSUME TypeInv, NEW w \in Workers
  PROVE  Locked(w) \in Row
  BY PayloadAssumption, TimeAssumption DEF TypeInv, WorkerTypeOK, Locked, Row, Me

\* UpdateOwned keeps the table well typed.
LEMMA UpdateOwnedType ==
  ASSUME TypeInv, NEW w \in Workers, event[w] \in Events,
         NEW status \in {"FAILED", "DONE"}, UpdateOwned(w, status)
  PROVE  inbox' \in [Events -> Row]
  BY DEF TypeInv, WorkerTypeOK, UpdateOwned, Row

LEMMA TypeNext == TypeInv /\ [WorkerNext]_workerVars => TypeInv'
<1> SUFFICES ASSUME TypeInv, [WorkerNext]_workerVars PROVE TypeInv'
  OBVIOUS
<1> USE DEF TypeInv, WorkerTypeOK, HandlesEvent, Statements, Goto
<1>1. ASSUME NEW w \in Workers, NEW m \in Events \cup {Malformed}, Take(w, m)
      PROVE  TypeInv'
  BY <1>1 DEF Take
<1>2. ASSUME NEW w \in Workers, InsertInbox(w)
      PROVE  TypeInv'
  <2>1. inbox' \in [Events -> Row]
    BY <1>2, LockedIsRow DEF InsertInbox
  <2>2. QED
    BY <1>2, <2>1 DEF InsertInbox
<1>3. ASSUME NEW w \in Workers, FindInbox(w)
      PROVE  TypeInv'
  BY <1>3 DEF FindInbox
<1>4. ASSUME NEW w \in Workers, TakeOver(w)
      PROVE  TypeInv'
  <2>1. inbox' \in [Events -> Row]
    BY <1>4, LockedIsRow DEF TakeOver
  <2>2. QED
    BY <1>4, <2>1 DEF TakeOver
<1>5. ASSUME NEW w \in Workers, CheckObject(w)
      PROVE  TypeInv'
  BY <1>5 DEF CheckObject
<1>6. ASSUME NEW w \in Workers, Upload(w)
      PROVE  TypeInv'
  BY <1>6 DEF Upload
<1>7. ASSUME NEW w \in Workers, FinalizeSuccess(w)
      PROVE  TypeInv'
  <2>1. event[w] \in Events
    BY <1>7 DEF FinalizeSuccess
  <2>2. inbox' \in [Events -> Row]
    BY <1>7, <2>1, UpdateOwnedType DEF FinalizeSuccess, rowVars
  <2>3. files' \in [Sha1s -> {"PENDING", "SUCCESS"}]
    BY <1>7 DEF FinalizeSuccess, rowVars
  <2>4. QED
    BY <1>7, <2>2, <2>3 DEF FinalizeSuccess
<1>8. ASSUME NEW w \in Workers, MarkInboxFailed(w)
      PROVE  TypeInv'
  <2>1. event[w] \in Events
    BY <1>8 DEF MarkInboxFailed
  <2>2. inbox' \in [Events -> Row]
    BY <1>8, <2>1, UpdateOwnedType DEF MarkInboxFailed
  <2>3. QED
    BY <1>8, <2>2 DEF MarkInboxFailed
<1>9. ASSUME NEW w \in Workers, Return(w)
      PROVE  TypeInv'
  BY <1>9, TimeAssumption DEF Return
<1>10. ASSUME NEW i \in Instances, Stop(i) \/ Start(i)
       PROVE  TypeInv'
  BY <1>10 DEF Stop, Start
<1>11. ASSUME NEW i \in Instances, Exit(i)
       PROVE  TypeInv'
  BY <1>11, TimeAssumption DEF Exit
<1>12. CASE Tick
  BY <1>12, TimeAssumption DEF Tick
<1>13. CASE UNCHANGED workerVars
  BY <1>13 DEF workerVars
<1>14. QED
  BY <1>1, <1>2, <1>3, <1>4, <1>5, <1>6, <1>7, <1>8, <1>9, <1>10, <1>11,
     <1>12, <1>13 DEF WorkerNext, WorkerStep

\* Every variable of processMessage, the tables and the bucket keeps its type.
THEOREM TypeCorrect == WorkerSpec => []WorkerTypeOK
<1>1. TypeInv => WorkerTypeOK
  BY DEF TypeInv
<1>2. QED
  BY TypeInit, TypeNext, <1>1, PTL DEF WorkerSpec

-----------------------------------------------------------------------------
(* The effects of an event                                                  *)
(*                                                                         *)
(* The invariants of the property section are not inductive.  What is      *)
(* missing is what a worker knows at each statement: it has reached        *)
(* finalizeSuccess only with the object stored, and past the insert only   *)
(* with the row in the table.  DONE rows carry the knowledge from the      *)
(* worker that finished an event to the ones that find it finished.        *)

ObjectBeforeFinalize ==
    \A w \in Workers :
        (pc[w] = "finalize" /\ event[w] \in LoadFile) => KeyOf[event[w]] \in objects

OnlyLoadFileUploads ==
    \A w \in Workers : pc[w] = "upload" => event[w] \in LoadFile

RowBeforeEffects ==
    \A w \in Workers :
        pc[w] \in {"first", "takeover", "exists", "upload", "finalize", "fail"}
            => inbox[event[w]].status # "absent"

DoneIsPublished ==
    \A e \in Events : inbox[e].status = "DONE" => Published(e)

EffectInv ==
    /\ TypeInv
    /\ LockedIffProcessing
    /\ ObjectBeforeFinalize
    /\ OnlyLoadFileUploads
    /\ RowBeforeEffects
    /\ DoneIsPublished
    /\ AcknowledgedIsPublished
    /\ SuccessIsStored

LEMMA EffectInit == WorkerInit => EffectInv
<1> SUFFICES ASSUME WorkerInit PROVE EffectInv
  OBVIOUS
<1>1. TypeInv
  BY TypeInit
<1>2. LockedIffProcessing /\ DoneIsPublished
  BY DEF WorkerInit, LockedIffProcessing, DoneIsPublished, NoRow
<1>3. ObjectBeforeFinalize /\ OnlyLoadFileUploads /\ RowBeforeEffects
      /\ AcknowledgedIsPublished
  BY DEF WorkerInit, ObjectBeforeFinalize, OnlyLoadFileUploads, RowBeforeEffects,
         AcknowledgedIsPublished
<1>4. SuccessIsStored
  BY DEF WorkerInit, SuccessIsStored
<1>5. QED
  BY <1>1, <1>2, <1>3, <1>4 DEF EffectInv

\* What is published stays published while files and objects only grow.
LEMMA PublishedStable ==
  ASSUME TypeInv, NEW e \in Events, Published(e),
         objects \subseteq objects',
         \A s \in Sha1s : files[s] = "SUCCESS" => files'[s] = "SUCCESS"
  PROVE  Published(e)'
  BY DEF Published, Sha1s

\* Writing an acquired row.
LEMMA AcquireKeepsLocks ==
  ASSUME EffectInv, NEW w \in Workers, event[w] \in Events,
         inbox' = [inbox EXCEPT ![event[w]] = Locked(w)]
  PROVE  /\ LockedIffProcessing'
         /\ inbox'[event[w]].status = "PROCESSING"
         /\ \A e \in Events \ {event[w]} : inbox'[e] = inbox[e]
  BY PayloadAssumption, TimeAssumption
  DEF EffectInv, TypeInv, WorkerTypeOK, LockedIffProcessing, Locked, Me

\* UpdateOwned touches a row only while it is PROCESSING, although its WHERE
\* clause does not say so: locked rows are.
LEMMA UpdateOwnedEffect ==
  ASSUME EffectInv, NEW w \in Workers, event[w] \in Events,
         NEW status \in {"FAILED", "DONE"}, UpdateOwned(w, status)
  PROVE  /\ LockedIffProcessing'
         /\ \A e \in Events \ {event[w]} : inbox'[e] = inbox[e]
         /\ \/ inbox' = inbox
            \/ /\ inbox[event[w]].status = "PROCESSING"
               /\ inbox'[event[w]].status = status
  BY PayloadAssumption
  DEF EffectInv, TypeInv, WorkerTypeOK, LockedIffProcessing, UpdateOwned, Me

\* Steps that leave the table, the bucket and the files alone, and send a
\* worker only where it may be.
LEMMA EffectQuiet ==
  ASSUME EffectInv, TypeInv', UNCHANGED <<inbox, objects, files>>,
         \A w \in Workers :
            \/ pc'[w] \in {"idle", "err", "insert"}
            \/ pc'[w] = pc[w] /\ event'[w] = event[w]
  PROVE  EffectInv'
<1> USE DEF EffectInv
<1>1. LockedIffProcessing' /\ DoneIsPublished' /\ SuccessIsStored'
  BY DEF LockedIffProcessing, DoneIsPublished, SuccessIsStored, Published
<1>2. ObjectBeforeFinalize' /\ OnlyLoadFileUploads' /\ RowBeforeEffects'
  BY DEF ObjectBeforeFinalize, OnlyLoadFileUploads, RowBeforeEffects
<1>3. AcknowledgedIsPublished'
  BY DEF AcknowledgedIsPublished, Published
<1>4. QED
  BY <1>1, <1>2, <1>3

LEMMA EffectInsert ==
  ASSUME EffectInv, TypeInv', NEW w \in Workers, InsertInbox(w)
  PROVE  EffectInv'
<1> USE DEF EffectInv
<1>1. event[w] \in Events
  BY DEF InsertInbox, TypeInv, HandlesEvent
<1>2. /\ LockedIffProcessing'
      /\ \A e \in Events : \/ inbox'[e] = inbox[e]
                           \/ /\ e = event[w]
                              /\ inbox'[e].status = "PROCESSING"
      /\ inbox'[event[w]].status # "absent" \/ pc'[w] = "err"
  <2>1. CASE inbox' = inbox
    <3>1. inbox[event[w]].status # "absent" \/ pc'[w] = "err"
      BY <2>1, <1>1, AcquireKeepsLocks
      DEF InsertInbox, Goto, TypeInv, WorkerTypeOK
    <3>2. QED
      BY <2>1, <3>1 DEF LockedIffProcessing
  <2>2. CASE inbox' = [inbox EXCEPT ![event[w]] = Locked(w)]
    BY <2>2, <1>1, AcquireKeepsLocks
  <2>3. QED
    BY <2>1, <2>2 DEF InsertInbox
<1>3. UNCHANGED <<event, objects, files>>
  BY DEF InsertInbox
<1>4. /\ pc'[w] \in {"exists", "first", "err"}
      /\ \A v \in Workers \ {w} : pc'[v] = pc[v]
  BY DEF InsertInbox, Goto, TypeInv, WorkerTypeOK
<1>5. ObjectBeforeFinalize' /\ OnlyLoadFileUploads' /\ AcknowledgedIsPublished'
  BY <1>3, <1>4
  DEF ObjectBeforeFinalize, OnlyLoadFileUploads, AcknowledgedIsPublished, Published
<1>6. RowBeforeEffects'
  BY <1>1, <1>2, <1>3, <1>4 DEF RowBeforeEffects, TypeInv, HandlesEvent
<1>7. DoneIsPublished' /\ SuccessIsStored'
  BY <1>2, <1>3 DEF DoneIsPublished, SuccessIsStored, Published
<1>8. QED
  BY <1>2, <1>5, <1>6, <1>7

LEMMA EffectFind ==
  ASSUME EffectInv, TypeInv', NEW w \in Workers, FindInbox(w)
  PROVE  EffectInv'
<1> USE DEF EffectInv
<1>1. event[w] \in Events /\ inbox[event[w]].status # "absent"
  BY DEF FindInbox, TypeInv, HandlesEvent, RowBeforeEffects
<1>2. UNCHANGED <<event, inbox, objects, files>>
  BY DEF FindInbox
<1>3. /\ pc'[w] \in {"ok", "takeover", "err"}
      /\ pc'[w] = "ok" => inbox[event[w]].status = "DONE"
      /\ \A v \in Workers \ {w} : pc'[v] = pc[v]
  BY DEF FindInbox, Goto, TypeInv, WorkerTypeOK
<1>4. LockedIffProcessing' /\ DoneIsPublished' /\ SuccessIsStored'
  BY <1>2 DEF LockedIffProcessing, DoneIsPublished, SuccessIsStored, Published
<1>5. ObjectBeforeFinalize' /\ OnlyLoadFileUploads' /\ RowBeforeEffects'
  BY <1>1, <1>2, <1>3 DEF ObjectBeforeFinalize, OnlyLoadFileUploads, RowBeforeEffects
<1>6. AcknowledgedIsPublished'
  BY <1>1, <1>2, <1>3 DEF AcknowledgedIsPublished, DoneIsPublished, Published
<1>7. QED
  BY <1>4, <1>5, <1>6

LEMMA EffectTakeOver ==
  ASSUME EffectInv, TypeInv', NEW w \in Workers, TakeOver(w)
  PROVE  EffectInv'
<1> USE DEF EffectInv
<1>1. event[w] \in Events /\ inbox[event[w]].status # "absent"
  BY DEF TakeOver, TypeInv, HandlesEvent, RowBeforeEffects
<1>2. /\ LockedIffProcessing'
      /\ \A e \in Events : \/ inbox'[e] = inbox[e]
                           \/ inbox'[e].status = "PROCESSING"
  <2>1. CASE inbox' = inbox
    BY <2>1 DEF LockedIffProcessing
  <2>2. CASE inbox' = [inbox EXCEPT ![event[w]] = Locked(w)]
    BY <2>2, <1>1, AcquireKeepsLocks
  <2>3. QED
    BY <2>1, <2>2 DEF TakeOver
<1>3. UNCHANGED <<event, objects, files>>
  BY DEF TakeOver
<1>4. /\ pc'[w] \in {"exists", "err"}
      /\ \A v \in Workers \ {w} : pc'[v] = pc[v]
  BY DEF TakeOver, Goto, TypeInv, WorkerTypeOK
<1>5. ObjectBeforeFinalize' /\ OnlyLoadFileUploads' /\ AcknowledgedIsPublished'
  BY <1>3, <1>4
  DEF ObjectBeforeFinalize, OnlyLoadFileUploads, AcknowledgedIsPublished, Published
<1>6. RowBeforeEffects'
  BY <1>1, <1>2, <1>3, <1>4 DEF RowBeforeEffects, TypeInv, HandlesEvent
<1>7. DoneIsPublished' /\ SuccessIsStored'
  BY <1>2, <1>3 DEF DoneIsPublished, SuccessIsStored, Published
<1>8. QED
  BY <1>2, <1>5, <1>6, <1>7

LEMMA EffectCheck ==
  ASSUME EffectInv, TypeInv', NEW w \in Workers, CheckObject(w)
  PROVE  EffectInv'
<1> USE DEF EffectInv
<1>1. UNCHANGED <<event, inbox, objects, files>>
  BY DEF CheckObject
<1>2. /\ pc[w] = "exists"
      /\ \/ pc'[w] = "upload" /\ event[w] \in LoadFile
         \/ /\ pc'[w] = "finalize"
            /\ event[w] \in LoadFile => KeyOf[event[w]] \in objects
      /\ \A v \in Workers \ {w} : pc'[v] = pc[v]
  BY DEF CheckObject, Goto, TypeInv, WorkerTypeOK
<1>3. LockedIffProcessing' /\ DoneIsPublished' /\ SuccessIsStored'
  BY <1>1 DEF LockedIffProcessing, DoneIsPublished, SuccessIsStored, Published
<1>4. ObjectBeforeFinalize' /\ OnlyLoadFileUploads' /\ RowBeforeEffects'
  BY <1>1, <1>2 DEF ObjectBeforeFinalize, OnlyLoadFileUploads, RowBeforeEffects
<1>5. AcknowledgedIsPublished'
  BY <1>1, <1>2 DEF AcknowledgedIsPublished, Published
<1>6. QED
  BY <1>3, <1>4, <1>5

LEMMA EffectUpload ==
  ASSUME EffectInv, TypeInv', NEW w \in Workers, Upload(w)
  PROVE  EffectInv'
<1> USE DEF EffectInv
<1>1. UNCHANGED <<event, inbox, files>> /\ objects \subseteq objects'
  BY DEF Upload
<1>2. /\ pc[w] = "upload"
      /\ \/ pc'[w] = "finalize" /\ KeyOf[event[w]] \in objects'
         \/ pc'[w] = "fail"
      /\ \A v \in Workers \ {w} : pc'[v] = pc[v]
  BY DEF Upload, Goto, TypeInv, WorkerTypeOK
<1>3. LockedIffProcessing'
  BY <1>1 DEF LockedIffProcessing
<1>4. \A e \in Events : Published(e) => Published(e)'
  BY <1>1 DEF Published
<1>5. DoneIsPublished' /\ SuccessIsStored'
  BY <1>1, <1>4 DEF DoneIsPublished, SuccessIsStored
<1>6. ObjectBeforeFinalize' /\ OnlyLoadFileUploads' /\ RowBeforeEffects'
  BY <1>1, <1>2 DEF ObjectBeforeFinalize, OnlyLoadFileUploads, RowBeforeEffects
<1>7. AcknowledgedIsPublished'
  BY <1>1, <1>2 DEF AcknowledgedIsPublished, Published
<1>8. QED
  BY <1>3, <1>5, <1>6, <1>7

LEMMA EffectFinalize ==
  ASSUME EffectInv, TypeInv', NEW w \in Workers, FinalizeSuccess(w)
  PROVE  EffectInv'
<1> USE DEF EffectInv
<1>1. /\ event[w] \in Events
      /\ inbox[event[w]].status # "absent"
      /\ event[w] \in LoadFile => KeyOf[event[w]] \in objects
      /\ Sha1Of[event[w]] \in Sha1s
  BY DEF FinalizeSuccess, TypeInv, HandlesEvent, RowBeforeEffects,
         ObjectBeforeFinalize, Sha1s
<1>2. UNCHANGED <<event, objects>>
  BY DEF FinalizeSuccess
<1>3. \A v \in Workers \ {w} : pc'[v] = pc[v]
  BY DEF FinalizeSuccess, Goto, TypeInv, WorkerTypeOK
<1>4. CASE UNCHANGED rowVars /\ pc'[w] = "fail"
  <2>1. LockedIffProcessing' /\ DoneIsPublished' /\ SuccessIsStored'
    BY <1>2, <1>4 DEF rowVars, LockedIffProcessing, DoneIsPublished, SuccessIsStored, Published
  <2>2. ObjectBeforeFinalize' /\ OnlyLoadFileUploads' /\ RowBeforeEffects'
    BY <1>1, <1>2, <1>3, <1>4
    DEF rowVars, ObjectBeforeFinalize, OnlyLoadFileUploads, RowBeforeEffects
  <2>3. AcknowledgedIsPublished'
    BY <1>2, <1>3, <1>4 DEF rowVars, AcknowledgedIsPublished, Published
  <2>4. QED
    BY <2>1, <2>2, <2>3
<1>5. CASE /\ files' = [files EXCEPT ![Sha1Of[event[w]]] = "SUCCESS"]
           /\ UpdateOwned(w, "DONE")
           /\ pc'[w] \in {"ok", "fail"}
  <2>1. /\ LockedIffProcessing'
        /\ \A e \in Events \ {event[w]} : inbox'[e] = inbox[e]
        /\ inbox'[event[w]].status # "absent"
    BY <1>1, <1>5, UpdateOwnedEffect
  <2>2. /\ files'[Sha1Of[event[w]]] = "SUCCESS"
        /\ \A s \in Sha1s : s = Sha1Of[event[w]] \/ files'[s] = files[s]
    BY <1>1, <1>5 DEF TypeInv, WorkerTypeOK
  <2>3. Published(event[w])'
    BY <1>1, <1>2, <2>2 DEF Published
  <2>4. \A e \in Events : Published(e) => Published(e)'
    BY <1>2, <2>2 DEF Published, Sha1s
  <2>5. DoneIsPublished'
    BY <1>2, <2>1, <2>3, <2>4 DEF DoneIsPublished, Published
  <2>6. SuccessIsStored'
    BY <1>1, <1>2, <2>2 DEF SuccessIsStored
  <2>7. ObjectBeforeFinalize' /\ OnlyLoadFileUploads'
    BY <1>2, <1>3, <1>5 DEF ObjectBeforeFinalize, OnlyLoadFileUploads
  <2>8. RowBeforeEffects'
    BY <1>1, <1>2, <1>3, <1>5, <2>1 DEF RowBeforeEffects, TypeInv, HandlesEvent
  <2>9. AcknowledgedIsPublished'
    BY <1>2, <1>3, <1>5, <2>3, <2>4 DEF AcknowledgedIsPublished, TypeInv, HandlesEvent
  <2>10. QED
    BY <2>1, <2>5, <2>6, <2>7, <2>8, <2>9
<1>6. QED
  BY <1>4, <1>5 DEF FinalizeSuccess, Goto, TypeInv, WorkerTypeOK

LEMMA EffectMarkFailed ==
  ASSUME EffectInv, TypeInv', NEW w \in Workers, MarkInboxFailed(w)
  PROVE  EffectInv'
<1> USE DEF EffectInv
<1>1. event[w] \in Events /\ inbox[event[w]].status # "absent"
  BY DEF MarkInboxFailed, TypeInv, HandlesEvent, RowBeforeEffects
<1>2. UNCHANGED <<event, objects, files>>
  BY DEF MarkInboxFailed
<1>3. pc'[w] = "err" /\ \A v \in Workers \ {w} : pc'[v] = pc[v]
  BY DEF MarkInboxFailed, Goto, TypeInv, WorkerTypeOK
<1>4. /\ LockedIffProcessing'
      /\ \A e \in Events : \/ inbox'[e] = inbox[e]
                           \/ inbox'[e].status = "FAILED"
  <2>1. CASE inbox' = inbox
    BY <2>1 DEF LockedIffProcessing
  <2>2. CASE UpdateOwned(w, "FAILED")
    BY <2>2, <1>1, UpdateOwnedEffect
  <2>3. QED
    BY <2>1, <2>2 DEF MarkInboxFailed
<1>5. DoneIsPublished' /\ SuccessIsStored'
  BY <1>2, <1>4 DEF DoneIsPublished, SuccessIsStored, Published
<1>6. ObjectBeforeFinalize' /\ OnlyLoadFileUploads' /\ AcknowledgedIsPublished'
  BY <1>2, <1>3
  DEF ObjectBeforeFinalize, OnlyLoadFileUploads, AcknowledgedIsPublished, Published
<1>7. RowBeforeEffects'
  BY <1>2, <1>3, <1>4 DEF RowBeforeEffects, TypeInv, HandlesEvent
<1>8. QED
  BY <1>4, <1>5, <1>6, <1>7

LEMMA EffectNext == EffectInv /\ [WorkerNext]_workerVars => EffectInv'
<1> SUFFICES ASSUME EffectInv, [WorkerNext]_workerVars PROVE EffectInv'
  OBVIOUS
<1>1. TypeInv'
  BY TypeNext DEF EffectInv
<1>2. ASSUME NEW w \in Workers, NEW m \in Events \cup {Malformed}, Take(w, m)
      PROVE  EffectInv'
  BY <1>1, <1>2, EffectQuiet DEF Take, Goto, EffectInv, TypeInv, WorkerTypeOK
<1>3. ASSUME NEW w \in Workers, WorkerStep(w)
      PROVE  EffectInv'
  BY <1>1, <1>3, EffectInsert, EffectFind, EffectTakeOver, EffectCheck,
     EffectUpload, EffectFinalize, EffectMarkFailed DEF WorkerStep
<1>4. ASSUME NEW w \in Workers, Return(w)
      PROVE  EffectInv'
  BY <1>1, <1>4, EffectQuiet DEF Return, Goto, EffectInv, TypeInv, WorkerTypeOK
<1>5. ASSUME NEW i \in Instances, Stop(i) \/ Exit(i) \/ Start(i)
      PROVE  EffectInv'
  <2>1. CASE Exit(i)
    BY <1>1, <2>1, EffectQuiet DEF Exit, EffectInv, TypeInv, WorkerTypeOK
  <2>2. CASE Stop(i) \/ Start(i)
    BY <1>1, <2>2, EffectQuiet DEF Stop, Start
  <2>3. QED
    BY <1>5, <2>1, <2>2
<1>6. CASE Tick
  BY <1>1, <1>6, EffectQuiet DEF Tick
<1>7. CASE UNCHANGED workerVars
  BY <1>1, <1>7, EffectQuiet DEF workerVars
<1>8. QED
  BY <1>2, <1>3, <1>4, <1>5, <1>6, <1>7 DEF WorkerNext

LEMMA EffectInvariant == WorkerSpec => []EffectInv
  BY EffectInit, EffectNext, PTL DEF WorkerSpec

\* A message is reported as handled only when its file is published and its
\* object is stored.
THEOREM AcknowledgedCorrect == WorkerSpec => []AcknowledgedIsPublished
<1>1. EffectInv => AcknowledgedIsPublished
  BY DEF EffectInv
<1>2. QED
  BY EffectInvariant, <1>1, PTL

\* No files row is SUCCESS before the effects of an event on it are complete.
THEOREM SuccessCorrect == WorkerSpec => []SuccessIsStored
<1>1. EffectInv => SuccessIsStored
  BY DEF EffectInv
<1>2. QED
  BY EffectInvariant, <1>1, PTL

\* Exactly the rows being processed are locked.
THEOREM LockCorrect == WorkerSpec => []LockedIffProcessing
<1>1. EffectInv => LockedIffProcessing
  BY DEF EffectInv
<1>2. QED
  BY EffectInvariant, <1>1, PTL

-----------------------------------------------------------------------------
(* What a step does to a row.  The three writers of the table are insert,  *)
(* take over and UpdateOwned; all else follows from this one lemma.        *)

RowStep(e) ==
    \/ inbox'[e] = inbox[e]
    \/ \E w \in Workers :
          /\ e = event[w]
          /\ \/ /\ pc[w] = "insert"
                /\ inbox[e].status = "absent"
                /\ inbox'[e] = Locked(w)
             \/ /\ pc[w] = "takeover"
                /\ MayTakeOver(w, inbox[e])
                /\ inbox'[e] = Locked(w)
             \/ /\ inbox[e].locked_by = Me(w)
                /\ \/ pc[w] = "finalize" /\ inbox'[e].status = "DONE"
                   \/ /\ pc[w] = "fail" /\ inbox'[e].status = "FAILED"
                      /\ pc'[w] = "err"

LEMMA EveryStepIsRowStep ==
  ASSUME TypeInv, [WorkerNext]_workerVars, NEW e \in Events
  PROVE  RowStep(e)
<1> USE DEF TypeInv, WorkerTypeOK
<1>1. ASSUME NEW w \in Workers, WorkerStep(w)
      PROVE  RowStep(e)
  <2>1. CASE InsertInbox(w)
    BY <2>1 DEF InsertInbox, RowStep
  <2>2. CASE TakeOver(w)
    BY <2>2 DEF TakeOver, RowStep
  <2>3. CASE FinalizeSuccess(w)
    <3>1. UpdateOwned(w, "DONE") \/ inbox' = inbox
      BY <2>3 DEF FinalizeSuccess, rowVars
    <3>2. pc[w] = "finalize"
      BY <2>3 DEF FinalizeSuccess
    <3>3. QED
      BY <3>1, <3>2 DEF UpdateOwned, RowStep
  <2>4. CASE MarkInboxFailed(w)
    <3>1. UpdateOwned(w, "FAILED") \/ inbox' = inbox
      BY <2>4 DEF MarkInboxFailed
    <3>2. pc[w] = "fail" /\ pc'[w] = "err"
      BY <2>4 DEF MarkInboxFailed, Goto
    <3>3. QED
      BY <3>1, <3>2 DEF UpdateOwned, RowStep
  <2>5. CASE FindInbox(w) \/ CheckObject(w) \/ Upload(w)
    BY <2>5 DEF FindInbox, CheckObject, Upload, RowStep
  <2>6. QED
    BY <1>1, <2>1, <2>2, <2>3, <2>4, <2>5 DEF WorkerStep
<1>2. CASE UNCHANGED inbox
  BY <1>2 DEF RowStep
<1>3. QED
  BY <1>1, <1>2 DEF WorkerNext, Take, Return, Stop, Exit, Start, Tick, workerVars

\* A finished event is out of reach of every later step: inserts need an
\* absent row, take overs test the status, and UpdateOwned needs a lock that
\* DONE rows do not have.
THEOREM DoneForever == WorkerSpec => DoneIsFinal
<1>1. EffectInv /\ [WorkerNext]_workerVars
        => [\A e \in Events : inbox[e].status = "DONE" => inbox'[e] = inbox[e]]_workerVars
  <2> SUFFICES ASSUME EffectInv, [WorkerNext]_workerVars, NEW e \in Events,
                      inbox[e].status = "DONE"
               PROVE  inbox'[e] = inbox[e]
    OBVIOUS
  <2>1. inbox[e].locked_by = Null
    BY DEF EffectInv, LockedIffProcessing
  <2>2. \A w \in Workers : Me(w) # Null
    BY PayloadAssumption DEF Me
  <2>3. RowStep(e)
    BY EveryStepIsRowStep DEF EffectInv
  <2>4. QED
    BY <2>1, <2>2, <2>3 DEF RowStep, MayTakeOver
<1>2. QED
  BY EffectInvariant, <1>1, PTL DEF WorkerSpec, DoneIsFinal

-----------------------------------------------------------------------------
(* Locks.  A take over compares a lock with the clock as it was before the  *)
(* first statement, which the clock has left behind by then.               *)

NowIsPast == \A w \in Workers : now[w] <= clock

LEMMA ClockNext == TypeInv /\ NowIsPast /\ [WorkerNext]_workerVars => NowIsPast'
<1> SUFFICES ASSUME TypeInv, NowIsPast, [WorkerNext]_workerVars
             PROVE  NowIsPast'
  OBVIOUS
<1> USE TimeAssumption DEF TypeInv, WorkerTypeOK, NowIsPast
<1>1. ASSUME NEW w \in Workers, NEW m \in Events \cup {Malformed}, Take(w, m)
      PROVE  NowIsPast'
  BY <1>1 DEF Take
<1>2. ASSUME NEW w \in Workers, WorkerStep(w)
      PROVE  NowIsPast'
  BY <1>2 DEF WorkerStep, InsertInbox, FindInbox, TakeOver, CheckObject, Upload,
              FinalizeSuccess, MarkInboxFailed
<1>3. ASSUME NEW w \in Workers, Return(w)
      PROVE  NowIsPast'
  BY <1>3 DEF Return
<1>4. ASSUME NEW i \in Instances, Stop(i) \/ Exit(i) \/ Start(i)
      PROVE  NowIsPast'
  BY <1>4 DEF Stop, Exit, Start
<1>5. CASE Tick \/ UNCHANGED workerVars
  BY <1>5 DEF Tick, workerVars
<1>6. QED
  BY <1>1, <1>2, <1>3, <1>4, <1>5 DEF WorkerNext

\* A lock that has not expired is changed by the process that holds it only.
THEOREM LockKept == WorkerSpec => UnexpiredLockIsKept
<1> DEFINE Inv == EffectInv /\ NowIsPast
<1>1. WorkerInit => Inv
  BY EffectInit DEF WorkerInit, NowIsPast
<1>2. Inv /\ [WorkerNext]_workerVars => Inv'
  BY EffectNext, ClockNext DEF EffectInv
<1>3. Inv /\ [WorkerNext]_workerVars
        => [\A e \in Events :
              inbox[e].locked_by # Null /\ inbox'[e] # inbox[e] =>
                  \/ inbox[e].locked_until < clock
                  \/ \E w \in Workers :
                        /\ Me(w) = inbox[e].locked_by
                        /\ event[w] = e /\ pc[w] \in {"finalize", "fail"}]_workerVars
  <2> SUFFICES ASSUME Inv, [WorkerNext]_workerVars, NEW e \in Events,
                      inbox[e].locked_by # Null, inbox'[e] # inbox[e],
                      ~(inbox[e].locked_until < clock)
               PROVE  \E w \in Workers : /\ Me(w) = inbox[e].locked_by
                                         /\ event[w] = e /\ pc[w] \in {"finalize", "fail"}
    OBVIOUS
  <2>1. inbox[e].status = "PROCESSING" /\ inbox[e].locked_until # Null
    BY DEF EffectInv, LockedIffProcessing
  <2>2. ASSUME NEW w \in Workers, MayTakeOver(w, inbox[e])
        PROVE  FALSE
    <3>1. inbox[e].locked_until \in Nat /\ now[w] \in Nat /\ clock \in Nat
      BY <2>1, TimeAssumption DEF EffectInv, TypeInv, WorkerTypeOK, Row
    <3>2. inbox[e].locked_until < now[w] /\ now[w] <= clock
      BY <2>1, <2>2 DEF MayTakeOver, NowIsPast
    <3>3. QED
      BY <3>1, <3>2
  <2>3. RowStep(e)
    BY EveryStepIsRowStep DEF EffectInv
  <2>4. QED
    BY <2>1, <2>2, <2>3 DEF RowStep
<1>4. QED
  BY <1>1, <1>2, <1>3, PTL DEF WorkerSpec, UnexpiredLockIsKept

-----------------------------------------------------------------------------
(* Refinement of UploadLifecycle *)

Status == [e \in Events |-> inbox[e].status]
Ready  == {s \in Sha1s : files[s] = "SUCCESS"}

LEMMA LifecycleInitial == WorkerInit => Lifecycle!LifecycleInit
  BY DEF WorkerInit, Lifecycle!LifecycleInit, NoRow

\* One row at most changes its status in a step.
LEMMA StatusExcept ==
  ASSUME TypeInv, TypeInv', NEW e \in Events,
         \A d \in Events \ {e} : inbox'[d] = inbox[d]
  PROVE  Status' = [Status EXCEPT ![e] = inbox'[e].status]
  BY DEF Status

LEMMA LifecycleStep ==
  EffectInv /\ [WorkerNext]_workerVars
      => [Lifecycle!LifecycleNext]_(Lifecycle!lifecycleVars)
<1> SUFFICES ASSUME EffectInv, [WorkerNext]_workerVars
             PROVE  \/ \E e \in Events : \/ Lifecycle!Claim(e) \/ Lifecycle!Store(e)
                                         \/ Lifecycle!GiveUp(e) \/ Lifecycle!Publish(e)
                    \/ UNCHANGED <<Status, objects, Ready>>
  BY DEF Lifecycle!LifecycleNext, Lifecycle!lifecycleVars, Status, Ready
<1> USE DEF EffectInv
<1>1. TypeInv'
  BY TypeNext
<1>2. ASSUME NEW w \in Workers, WorkerStep(w)
      PROVE  \/ \E e \in Events : \/ Lifecycle!Claim(e) \/ Lifecycle!Store(e)
                                  \/ Lifecycle!GiveUp(e) \/ Lifecycle!Publish(e)
             \/ UNCHANGED <<Status, objects, Ready>>
  <2>1. event[w] \in Events
    BY <1>2 DEF WorkerStep, InsertInbox, FindInbox, TakeOver, CheckObject, Upload,
                FinalizeSuccess, MarkInboxFailed, TypeInv, HandlesEvent
  <2> PICK e \in Events : e = event[w]
    BY <2>1
  <2>2. ASSUME inbox[e].status # "DONE", inbox' = [inbox EXCEPT ![e] = Locked(w)],
               UNCHANGED <<objects, files>>
        PROVE  Lifecycle!Claim(e)
    <3>1. inbox'[e].status = "PROCESSING" /\ \A d \in Events \ {e} : inbox'[d] = inbox[d]
      BY <2>1, <2>2, AcquireKeepsLocks
    <3>2. Status' = [Status EXCEPT ![e] = "PROCESSING"]
      BY <1>1, <2>1, <3>1, StatusExcept
    <3>3. UNCHANGED <<objects, Ready>>
      BY <2>2 DEF Ready
    <3>4. QED
      BY <2>1, <2>2, <3>2, <3>3 DEF Lifecycle!Claim, Status, Ready
  <2>3. CASE InsertInbox(w) \/ TakeOver(w)
    <3>1. CASE inbox' = inbox
      BY <2>3, <3>1 DEF InsertInbox, TakeOver, Status, Ready
    <3>2. CASE inbox' # inbox
      <4>1. /\ inbox[e].status # "DONE"
            /\ inbox' = [inbox EXCEPT ![e] = Locked(w)]
            /\ UNCHANGED <<objects, files>>
        BY <2>3, <3>2 DEF InsertInbox, TakeOver, MayTakeOver
      <4>2. Lifecycle!Claim(e)
        BY <2>2, <4>1
      <4>3. QED
        BY <2>1, <4>2
    <3>3. QED
      BY <3>1, <3>2
  <2>4. CASE FindInbox(w) \/ CheckObject(w)
    BY <2>4 DEF FindInbox, CheckObject, Status, Ready
  <2>5. CASE Upload(w)
    <3>1. e \in LoadFile
      BY <2>5 DEF Upload, OnlyLoadFileUploads
    <3>2. UNCHANGED <<Status, Ready>>
      BY <2>5 DEF Upload, Status, Ready
    <3>3. objects' = objects \cup {KeyOf[e]} \/ objects' = objects
      BY <2>5 DEF Upload
    <3>4. QED
      BY <2>1, <3>1, <3>2, <3>3 DEF Lifecycle!Store, Status, Ready
  <2>6. CASE FinalizeSuccess(w)
    <3>1. /\ inbox[e].status # "absent"
          /\ e \in LoadFile => KeyOf[e] \in objects
          /\ objects' = objects
      BY <2>6 DEF FinalizeSuccess, RowBeforeEffects, ObjectBeforeFinalize
    <3>2. CASE UNCHANGED rowVars
      BY <3>1, <3>2 DEF rowVars, Status, Ready
    <3>3. CASE /\ files' = [files EXCEPT ![Sha1Of[e]] = "SUCCESS"]
               /\ UpdateOwned(w, "DONE")
      <4>1. Sha1Of[e] \in Sha1s
        BY <2>1 DEF Sha1s
      <4>2. Ready' = Ready \cup {Sha1Of[e]}
        BY <3>3, <4>1 DEF Ready, TypeInv, WorkerTypeOK
      <4>3. \/ Status' = Status
            \/ /\ inbox[e].status = "PROCESSING"
               /\ Status' = [Status EXCEPT ![e] = "DONE"]
        BY <1>1, <2>1, <3>3, UpdateOwnedEffect, StatusExcept DEF Status
      <4>4. QED
        BY <2>1, <3>1, <4>2, <4>3 DEF Lifecycle!Publish, Status, Ready
    <3>4. QED
      BY <2>6, <3>2, <3>3 DEF FinalizeSuccess
  <2>7. CASE MarkInboxFailed(w)
    <3>1. UNCHANGED <<objects, Ready>>
      BY <2>7 DEF MarkInboxFailed, Ready
    <3>2. CASE inbox' = inbox
      BY <3>1, <3>2 DEF Status
    <3>3. CASE UpdateOwned(w, "FAILED")
      <4>1. \/ Status' = Status
            \/ /\ inbox[e].status = "PROCESSING"
               /\ Status' = [Status EXCEPT ![e] = "FAILED"]
        BY <1>1, <2>1, <3>3, UpdateOwnedEffect, StatusExcept DEF Status
      <4>2. QED
        BY <2>1, <3>1, <4>1 DEF Lifecycle!GiveUp, Status, Ready
    <3>4. QED
      BY <2>7, <3>2, <3>3 DEF MarkInboxFailed
  <2>8. QED
    BY <1>2, <2>3, <2>4, <2>5, <2>6, <2>7 DEF WorkerStep
<1>3. CASE UNCHANGED <<inbox, objects, files>>
  BY <1>3 DEF Status, Ready
<1>4. QED
  BY <1>2, <1>3 DEF WorkerNext, Take, Return, Stop, Exit, Start, Tick, workerVars

\* Every behaviour of the workers is a behaviour of the upload life cycle:
\* an event is completed once, together with the publication of its file,
\* and never before its content is stored.
THEOREM LifecycleImplemented == WorkerSpec => ImplementsLifecycle
  BY LifecycleInitial, LifecycleStep, EffectInvariant, PTL
  DEF WorkerSpec, ImplementsLifecycle, Lifecycle!LifecycleSpec
=============================================================================
