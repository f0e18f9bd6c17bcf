--------------------------- MODULE UploadLifecycle ---------------------------
(***************************************************************************)
(* What store_srv promises about an upload event, without saying how: no   *)
(* workers, no leases, no clock.  An event is claimed, may fail and be     *)
(* claimed again, and is completed at most once; the file it names is      *)
(* published only when the object its content belongs to is in the object  *)
(* store; and completing an event and publishing its file are one step.    *)
(*                                                                         *)
(* The columns and constants are those of model.Inbox and model.File as    *)
(* used in src/other_srv/store_srv/kafka/kafkacunsumer.go.                 *)
(***************************************************************************)

CONSTANTS
    Events,     \* event_id values
    Sha1Of,     \* Sha1Of[e]: the sha1 in the payload of event e
    KeyOf,      \* KeyOf[e]: the oss_key in the payload of event e
    LoadFile    \* the events whose event_type is model.LoadFile

VARIABLES
    status,     \* status[e]: inbox status of event e
    stored,     \* keys of the objects in the bucket
    published   \* sha1s whose files rows have status model.FileSuccess

lifecycleVars == <<status, stored, published>>

LifecycleInit ==
    /\ status = [e \in Events |-> "absent"]
    /\ stored = {}
    /\ published = {}

\* Some worker begins (or takes over) an event that is not finished.
Claim(e) ==
    /\ status[e] # "DONE"
    /\ status' = [status EXCEPT ![e] = "PROCESSING"]
    /\ UNCHANGED <<stored, published>>

\* The content of a LoadFile event reaches the object store.
Store(e) ==
    /\ e \in LoadFile
    /\ stored' = stored \cup {KeyOf[e]}
    /\ UNCHANGED <<status, published>>

\* An attempt is given up; a finished event is out of reach of this step.
GiveUp(e) ==
    /\ status[e] = "PROCESSING"
    /\ status' = [status EXCEPT ![e] = "FAILED"]
    /\ UNCHANGED <<stored, published>>

\* The file becomes visible.  The event is completed with it, unless the
\* worker that publishes has lost the event to another one.
Publish(e) ==
    /\ status[e] # "absent"
    /\ e \in LoadFile => KeyOf[e] \in stored
    /\ published' = published \cup {Sha1Of[e]}
    /\ \/ /\ status[e] = "PROCESSING"
          /\ status' = [status EXCEPT ![e] = "DONE"]
       \/ UNCHANGED status
    /\ UNCHANGED stored

LifecycleNext ==
    \E e \in Events : Claim(e) \/ Store(e) \/ GiveUp(e) \/ Publish(e)

LifecycleSpec == LifecycleInit /\ [][LifecycleNext]_lifecycleVars
=============================================================================
