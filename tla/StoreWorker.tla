----------------------------- MODULE StoreWorker -----------------------------
(***************************************************************************)
(* The worker goroutines of store_srv: processMessage of                   *)
(* src/other_srv/store_srv/kafka/kafkacunsumer.go, one action per          *)
(* statement that reaches the database or the object store, since other    *)
(* workers and other processes run between any two of them.                *)
(*                                                                         *)
(* Here a worker may be handed any event at any time.  StoreConsumer       *)
(* extends this module with the Kafka side, which decides what is handed   *)
(* to whom and what becomes of the result.                                 *)
(***************************************************************************)
EXTENDS Integers

CONSTANTS
    Instances,  \* processes of store_srv; each one is an instanceID
    Workers,    \* worker goroutines of all the processes
    InstanceOf, \* InstanceOf[w]: the process worker w belongs to
    Events,     \* event_id values
    Sha1Of,     \* Sha1Of[e]: the sha1 of event e
    KeyOf,      \* KeyOf[e]: the oss_key of event e
    LoadFile,   \* events with event_type = model.LoadFile
    Malformed,  \* a message that is not a valid payload
    Null,       \* SQL NULL, the empty locked_by, an idle worker's message
    LockTime,   \* length of an inbox lock (2 minutes in the code)
    MaxClock,   \* bound on the clock
    Unreliable  \* what may fail: a subset of {"db", "oss", "process"}

ASSUME PayloadAssumption ==
    /\ InstanceOf \in [Workers -> Instances]
    /\ LoadFile \subseteq Events
    /\ Malformed \notin Events
    /\ Null \notin Events
    /\ Null \notin Instances
    /\ Null # Malformed

ASSUME TimeAssumption ==
    /\ LockTime \in Nat \ {0}
    /\ MaxClock \in Nat
    /\ Null \notin Nat
    /\ Unreliable \subseteq {"db", "oss", "process"}

VARIABLES
    clock,      \* time.Now(), the same for every process and the database
    proc,       \* proc[i]: "up", "stopping" (ctx cancelled) or "down"
    pc,         \* pc[w]: the next statement of worker w
    event,      \* event[w]: the message worker w is processing
    now,        \* now[w]: the local variable now of tryBeginInbox
    inbox,      \* inbox[e]: the inbox row of event e
    objects,    \* keys of the objects in the bucket
    files       \* files[s]: status of the files rows whose sha1 is s

rowVars     == <<inbox, files>>
workerVars  == <<clock, proc, pc, event, now, inbox, objects, files>>

-----------------------------------------------------------------------------
(* State *)

Sha1s == {Sha1Of[e] : e \in Events}

\* A row that was never inserted has status "absent".
Row == [status       : {"absent", "PROCESSING", "FAILED", "DONE"},
        locked_by    : Instances \cup {Null},
        locked_until : Nat \cup {Null}]

NoRow == [status |-> "absent", locked_by |-> Null, locked_until |-> Null]

\* The statements of processMessage at which a worker can be preempted;
\* "ok" and "err" are its return values.
Statements == {"insert", "first", "takeover", "exists", "upload",
               "finalize", "fail", "ok", "err"}

Me(w) == InstanceOf[w]

WorkerInit ==
    /\ clock = 0
    /\ proc = [i \in Instances |-> "up"]
    /\ pc = [w \in Workers |-> "idle"]
    /\ event = [w \in Workers |-> Null]
    /\ now = [w \in Workers |-> 0]
    /\ inbox = [e \in Events |-> NoRow]
    /\ objects = {}
    /\ files = [s \in Sha1s |-> "PENDING"]

Goto(w, label) == pc' = [pc EXCEPT ![w] = label]

\* A statement completes only while ctx is alive.  A cancelled ctx, or a
\* broken connection, makes it return an error; the server may have executed
\* it all the same, so an error says nothing of the effect.
StatementOk(w)   == proc[Me(w)] = "up"
StatementFail(w) == \/ proc[Me(w)] = "stopping"
                    \/ proc[Me(w)] = "up" /\ "db" \in Unreliable

\* MinIO calls use context.Background(), so a cancelled ctx does not stop them.
Running(w) == proc[Me(w)] # "down"

-----------------------------------------------------------------------------
(* tryBeginInbox *)

\* A worker receives a task; processMessage validates the payload and
\* tryBeginInbox reads the clock, before any statement is sent.
Take(w, m) ==
    /\ Running(w)
    /\ pc[w] = "idle"
    /\ event' = [event EXCEPT ![w] = m]
    /\ IF m = Malformed
       THEN Goto(w, "err") /\ UNCHANGED now
       ELSE Goto(w, "insert") /\ now' = [now EXCEPT ![w] = clock]
    /\ UNCHANGED <<clock, proc, inbox, objects, files>>

\* The row both the insert and the take over write.
Locked(w) == [status       |-> "PROCESSING",
              locked_by    |-> Me(w),
              locked_until |-> now[w] + LockTime]

\* 1) insert the row; a duplicate key means somebody was here before.
InsertInbox(w) ==
    LET e == event[w]
        Insert == IF inbox[e].status = "absent"
                  THEN inbox' = [inbox EXCEPT ![e] = Locked(w)]
                  ELSE UNCHANGED inbox
    IN  /\ pc[w] = "insert"
        /\ \/ /\ StatementOk(w)
              /\ Insert
              /\ Goto(w, IF inbox[e].status = "absent" THEN "exists" ELSE "first")
           \/ /\ StatementFail(w)
              /\ Insert \/ UNCHANGED inbox
              /\ Goto(w, "err")
        /\ UNCHANGED <<clock, proc, event, now, objects, files>>

\* 3) read the row: a finished event needs no work.
FindInbox(w) ==
    /\ pc[w] = "first"
    /\ \/ StatementOk(w) /\ inbox[event[w]].status = "DONE" /\ Goto(w, "ok")
       \/ StatementOk(w) /\ inbox[event[w]].status # "DONE" /\ Goto(w, "takeover")
       \/ StatementFail(w) /\ Goto(w, "err")
    /\ UNCHANGED <<clock, proc, event, now, inbox, objects, files>>

\* Mutant of MayTakeOver: the expiry test is dropped.
MayTakeOver_AnyTime(w, row) == row.status # "DONE"

\* The WHERE clause of the take over, with the now read before step 1.
MayTakeOver(w, row) ==
    /\ row.status # "DONE"
    /\ row.locked_until = Null \/ row.locked_until < now[w]

\* 4) take over a row whose lock is free or has expired.
TakeOver(w) ==
    LET e == event[w]
        Update == IF MayTakeOver(w, inbox[e])
                  THEN inbox' = [inbox EXCEPT ![e] = Locked(w)]
                  ELSE UNCHANGED inbox
    IN  /\ pc[w] = "takeover"
        /\ \/ /\ StatementOk(w)
              /\ Update
              /\ Goto(w, IF MayTakeOver(w, inbox[e]) THEN "exists" ELSE "err")
           \/ /\ StatementFail(w)
              /\ Update \/ UNCHANGED inbox
              /\ Goto(w, "err")
        /\ UNCHANGED <<clock, proc, event, now, objects, files>>

-----------------------------------------------------------------------------
(* The effects of an acquired event *)

\* Only LoadFile events upload, and only when the object is not seen; a
\* failed existence check counts as "not there".
CheckObject(w) ==
    LET e == event[w]
        Next(seen) == IF ~seen /\ e \in LoadFile THEN "upload" ELSE "finalize"
    IN  /\ pc[w] = "exists"
        /\ Running(w)
        /\ \/ Goto(w, Next(KeyOf[e] \in objects))
           \/ "oss" \in Unreliable /\ Goto(w, Next(FALSE))
        /\ UNCHANGED <<clock, proc, event, now, inbox, objects, files>>

\* Mutant of Upload: an upload error is only logged.
Upload_IgnoreError(w) ==
    LET Put == objects' = objects \cup {KeyOf[event[w]]}
    IN  /\ pc[w] = "upload"
        /\ Running(w)
        /\ Put \/ ("oss" \in Unreliable /\ UNCHANGED objects)
        /\ Goto(w, "finalize")
        /\ UNCHANGED <<clock, proc, event, now, inbox, files>>

\* Mutant of Upload: success is returned before finalizeSuccess.
Upload_ReturnEarly(w) ==
    /\ pc[w] = "upload"
    /\ Running(w)
    /\ objects' = objects \cup {KeyOf[event[w]]}
    /\ Goto(w, "ok")
    /\ UNCHANGED <<clock, proc, event, now, inbox, files>>

Upload(w) ==
    LET Put == objects' = objects \cup {KeyOf[event[w]]}
    IN  /\ pc[w] = "upload"
        /\ Running(w)
        /\ \/ Put /\ Goto(w, "finalize")
           \/ /\ "oss" \in Unreliable
              /\ Put \/ UNCHANGED objects
              /\ Goto(w, "fail")
        /\ UNCHANGED <<clock, proc, event, now, inbox, files>>

\* Mutant of UpdateOwned: the WHERE clause names the event only.
UpdateOwned_AnyOwner(w, status) ==
    inbox' = [inbox EXCEPT ![event[w]] = [status       |-> status,
                                          locked_by    |-> Null,
                                          locked_until |-> Null]]

\* The row is changed only if this process still holds its lock: the WHERE
\* clause event_id = ? AND locked_by = ?.
UpdateOwned(w, status) ==
    LET e == event[w]
    IN  inbox' = IF inbox[e].locked_by = Me(w)
                 THEN [inbox EXCEPT ![e] = [status       |-> status,
                                            locked_by    |-> Null,
                                            locked_until |-> Null]]
                 ELSE inbox

\* One transaction: the files rows of the sha1, whoever owns the event, and
\* the inbox row if it is still owned.
FinalizeSuccess(w) ==
    LET Commit == /\ files' = [files EXCEPT ![Sha1Of[event[w]]] = "SUCCESS"]
                  /\ UpdateOwned(w, "DONE")
    IN  /\ pc[w] = "finalize"
        /\ \/ StatementOk(w) /\ Commit /\ Goto(w, "ok")
           \/ /\ StatementFail(w)
              /\ Commit \/ UNCHANGED rowVars
              /\ Goto(w, "fail")
        /\ UNCHANGED <<clock, proc, event, now, objects>>

\* The error of markInboxFailed itself is ignored.
MarkInboxFailed(w) ==
    /\ pc[w] = "fail"
    /\ \/ StatementOk(w) /\ UpdateOwned(w, "FAILED")
       \/ /\ StatementFail(w)
          /\ UpdateOwned(w, "FAILED") \/ UNCHANGED inbox
    /\ Goto(w, "err")
    /\ UNCHANGED <<clock, proc, event, now, objects, files>>

\* processMessage returns and the goroutine goes back to the channel.
Return(w) ==
    /\ Running(w)
    /\ pc[w] \in {"ok", "err"}
    /\ Goto(w, "idle")
    /\ event' = [event EXCEPT ![w] = Null]
    /\ now' = [now EXCEPT ![w] = 0]
    /\ UNCHANGED <<clock, proc, inbox, objects, files>>

-----------------------------------------------------------------------------
(* Processes and time *)

\* SIGINT or SIGTERM cancels ctx; the workers go on.
Stop(i) ==
    /\ "process" \in Unreliable
    /\ proc[i] = "up"
    /\ proc' = [proc EXCEPT ![i] = "stopping"]
    /\ UNCHANGED <<clock, pc, event, now, inbox, objects, files>>

\* main returns (nothing waits for the workers) or the process is killed.
Exit(i) ==
    LET Forget(f, v) == [w \in Workers |-> IF Me(w) = i THEN v ELSE f[w]]
    IN  /\ "process" \in Unreliable
        /\ proc[i] # "down"
        /\ proc' = [proc EXCEPT ![i] = "down"]
        /\ pc' = Forget(pc, "idle")
        /\ event' = Forget(event, Null)
        /\ now' = Forget(now, 0)
        /\ UNCHANGED <<clock, inbox, objects, files>>

\* Started again under the same instanceID: host and pid of a container.
Start(i) ==
    /\ proc[i] = "down"
    /\ proc' = [proc EXCEPT ![i] = "up"]
    /\ UNCHANGED <<clock, pc, event, now, inbox, objects, files>>

Tick ==
    /\ clock < MaxClock
    /\ clock' = clock + 1
    /\ UNCHANGED <<proc, pc, event, now, inbox, objects, files>>

\* The steps a worker takes on its own once it has a task.
WorkerStep(w) ==
    \/ InsertInbox(w) \/ FindInbox(w) \/ TakeOver(w)
    \/ CheckObject(w) \/ Upload(w)
    \/ FinalizeSuccess(w) \/ MarkInboxFailed(w)

WorkerNext ==
    \/ \E w \in Workers : \/ WorkerStep(w)
                          \/ Return(w)
                          \/ \E m \in Events \cup {Malformed} : Take(w, m)
    \/ \E i \in Instances : Stop(i) \/ Exit(i) \/ Start(i)
    \/ Tick

WorkerSpec == WorkerInit /\ [][WorkerNext]_workerVars

-----------------------------------------------------------------------------
(* Properties *)

\* Types of the variables of processMessage, the inbox and files tables and
\* the bucket.
WorkerTypeOK ==
    /\ clock \in 0..MaxClock
    /\ proc \in [Instances -> {"up", "stopping", "down"}]
    /\ pc \in [Workers -> Statements \cup {"idle"}]
    /\ event \in [Workers -> Events \cup {Malformed, Null}]
    /\ now \in [Workers -> 0..MaxClock]
    /\ inbox \in [Events -> Row]
    /\ objects \subseteq {KeyOf[e] : e \in Events}
    /\ files \in [Sha1s -> {"PENDING", "SUCCESS"}]

\* The work of event e is visible: its file is SUCCESS and, if the event
\* carries content, the object is in the bucket.
Published(e) ==
    /\ files[Sha1Of[e]] = "SUCCESS"
    /\ e \in LoadFile => KeyOf[e] \in objects

\* A message that processMessage reports as handled (so that its offset may
\* be marked) is one whose file is published and whose object is stored,
\* whichever worker did the work and however many attempts failed, crashed
\* or were taken over on the way.
AcknowledgedIsPublished ==
    \A w \in Workers : pc[w] = "ok" => Published(event[w])

\* A files row is SUCCESS only if the effects of some event on it are
\* complete: readers of the files table never see a file with no content.
SuccessIsStored ==
    \A s \in Sha1s : files[s] = "SUCCESS" =>
        \E e \in Events : Sha1Of[e] = s /\ (e \in LoadFile => KeyOf[e] \in objects)

\* The lock columns and the status of an inbox row agree: exactly the rows
\* being processed are locked.  finalizeSuccess and markInboxFailed rely on
\* it, for they test locked_by and not status.
LockedIffProcessing ==
    \A e \in Events :
        /\ inbox[e].status = "PROCESSING" <=> inbox[e].locked_by # Null
        /\ inbox[e].status = "PROCESSING" <=> inbox[e].locked_until # Null

\* A finished event stays finished, whatever late workers, ambiguous
\* commits and failed attempts do to its row.
DoneIsFinal ==
    [][\A e \in Events : inbox[e].status = "DONE" => inbox'[e] = inbox[e]]_workerVars

\* Worker w is between acquiring event e and giving it back.
Holds(w, e) == event[w] = e /\ pc[w] \in {"exists", "upload", "finalize", "fail"}

\* The lock worker w acquired has run out.
Expired(w) == now[w] + LockTime < clock

\* A lock that has not expired is kept: its row changes only when a worker of
\* the process that holds it finishes the event or gives it up, whichever now
\* a take over works with and however late the workers of other processes are.
UnexpiredLockIsKept ==
    [][\A e \in Events :
          inbox[e].locked_by # Null /\ inbox'[e] # inbox[e] =>
              \/ inbox[e].locked_until < clock
              \/ \E w \in Workers :
                    /\ Me(w) = inbox[e].locked_by
                    /\ event[w] = e /\ pc[w] \in {"finalize", "fail"}]_workerVars

\* "Take over only if the lock has expired" (comment of step 4): when a
\* worker acquires an event, every other worker that holds it has a lock
\* that has expired.  It is false, because workers of one process share its
\* instanceID: a late one that fails frees the lock of the one that took over
\* from it.
TakeOverOnlyExpired ==
    [][\A w, v \in Workers : \A e \in Events :
          (w # v /\ ~Holds(w, e) /\ Holds(w, e)' /\ Holds(v, e))
              => Expired(v)]_workerVars

-----------------------------------------------------------------------------
(* Refinement *)

Lifecycle == INSTANCE UploadLifecycle WITH
    status    <- [e \in Events |-> inbox[e].status],
    stored    <- objects,
    published <- {s \in Sha1s : files[s] = "SUCCESS"}

\* Workers, leases and failures together implement the upload life cycle.
ImplementsLifecycle == Lifecycle!LifecycleSpec
=============================================================================
