------------------------------ MODULE LocalFile ------------------------------
(***************************************************************************)
(* The local file store of store_srv (localfile/localfile.go): a file named *)
(* by its hash lives two directories below the root, SaveFile creates the  *)
(* directories it needs and DeleteFile removes those that it leaves empty. *)
(* Several callers, in one process or in several, share the directory      *)
(* tree and nothing else; one action is one system call.                   *)
(*                                                                         *)
(* os.MkdirAll, os.Remove and ioutil.WriteFile belong to the Go library;   *)
(* what is modelled of them is the system calls they make and the errors   *)
(* they forgive.  The root exists and nothing else writes below it; every  *)
(* call that changes the disk may be refused by it.  A hash of fewer than  *)
(* four characters is refused before any call and left out.                *)
(***************************************************************************)
EXTENDS Naturals

CONSTANTS
    Callers,    \* goroutines that call SaveFile and DeleteFile
    Hashes,     \* names of files
    Subs, Tops, \* second-level and first-level directories
    SubOf,      \* the second-level directory of a hash: hash[0:2]/hash[2:4]
    TopOf,      \* the first-level directory a second-level one lies in
    DiskFails,  \* may the disk refuse a call or break off a write?
    Crashes,    \* may a caller's process die?
    MaxCalls,   \* bound: calls made
    None        \* no hash

ASSUME NameAssumption == None \notin Hashes
ASSUME PathAssumption == SubOf \in [Hashes -> Subs] /\ TopOf \in [Subs -> Tops]
ASSUME FaultAssumption == DiskFails \in BOOLEAN /\ Crashes \in BOOLEAN
ASSUME BoundAssumption == MaxCalls \in Nat

VARIABLES
    tops, subs, \* the directories that exist
    file,       \* what is under the name of each hash
    pc,         \* next system call of each caller
    hash,       \* the argument of its call
    calls,      \* how many calls were made
    linked,     \* does its descriptor belong to the file of that name?
    (* History, for the properties. *)
    kept,       \* saved and not deleted since
    undone,     \* callers whose hash was deleted while they save it
    hindered,   \* callers that lost a directory, or a call to the disk, while they save
    spoiled,    \* hashes with a write that broke off
    left        \* empty directories of calls that died or that the disk refused

dirVars  == <<tops, subs>>
callVars == <<pc, hash, linked>>
histVars == <<kept, undone, hindered, spoiled, left>>
vars == <<dirVars, file, callVars, calls, histVars>>

Saving == {"stat", "statTop", "mkTop", "lstatTop", "mkSub", "lstatSub", "open", "write"}
Deleting == {"remove", "removeSub", "removeTop"}
Returned == {"idle", "failed"}

Init ==
    /\ tops = {} /\ subs = {}
    /\ file = [h \in Hashes |-> "absent"]
    /\ pc = [p \in Callers |-> "idle"]
    /\ hash = [p \in Callers |-> None]
    /\ calls = 0
    /\ linked = [p \in Callers |-> FALSE]
    /\ kept = {} /\ undone = {} /\ hindered = {} /\ spoiled = {} /\ left = {}

Sub(p) == SubOf[hash[p]]
Top(p) == TopOf[Sub(p)]

\* FindFile; FileExists on the path that PathForSha1 gives is the same test.
FindFile(h) == file[h] # "absent"

EmptySub(s) == \A h \in Hashes : SubOf[h] = s => file[h] = "absent"
EmptyTop(t) == \A s \in subs : TopOf[s] # t

EmptyDirs == {s \in subs : EmptySub(s)} \cup {t \in tops : EmptyTop(t)}

\* The step leaves behind those directories of D that are empty.
Leaves(D) == left' = (left \cup D) \cap EmptyDirs'

Goto(p, l) == pc' = [pc EXCEPT ![p] = l]

\* A call begins.
Begin(p, h, l) ==
    /\ pc[p] = "idle"
    /\ calls < MaxCalls
    /\ calls' = calls + 1
    /\ Goto(p, l)
    /\ hash' = [hash EXCEPT ![p] = h]

\* The call returns.
Done(p) == Goto(p, "idle") /\ hash' = [hash EXCEPT ![p] = None]

\* It returns, or goes on at l.
DoneOr(p, l, over) == IF over THEN Done(p) ELSE Goto(p, l) /\ UNCHANGED hash

-----------------------------------------------------------------------------
(* SaveFile *)

BeginSave(p, h) ==
    /\ Begin(p, h, "stat")
    /\ UNCHANGED <<dirVars, file, linked, histVars>>

\* os.MkdirAll first looks whether the directory is there ...
StatSub(p) ==
    /\ pc[p] = "stat"
    /\ Goto(p, IF Sub(p) \in subs THEN "open" ELSE "statTop")
    /\ UNCHANGED <<dirVars, file, hash, linked, histVars, calls>>

\* ... then whether its parent is ...
StatTop(p) ==
    /\ pc[p] = "statTop"
    /\ Goto(p, IF Top(p) \in tops THEN "mkSub" ELSE "mkTop")
    /\ UNCHANGED <<dirVars, file, hash, linked, histVars, calls>>

\* ... and creates what is missing.
MkTop(p) ==
    /\ pc[p] = "mkTop"
    /\ \/ /\ tops' = tops \cup {Top(p)}
          /\ Goto(p, IF Top(p) \in tops THEN "lstatTop" ELSE "mkSub")
          /\ UNCHANGED hindered
       \/ /\ DiskFails
          /\ Goto(p, "lstatTop")
          /\ hindered' = hindered \cup {p}
          /\ UNCHANGED tops
    /\ UNCHANGED <<subs, file, hash, linked, kept, undone, spoiled, left, calls>>

MkSub(p) ==
    /\ pc[p] = "mkSub"
    /\ UNCHANGED <<tops, file, hash, linked, kept, undone, spoiled, calls>>
    /\ \/ /\ Top(p) \in tops /\ Sub(p) \notin subs
          /\ subs' = subs \cup {Sub(p)}
          /\ Goto(p, "open")
          /\ Leaves({})
          /\ UNCHANGED hindered
       \/ /\ Top(p) \notin tops \/ Sub(p) \in subs
          /\ Goto(p, "lstatSub")
          /\ UNCHANGED <<subs, hindered, left>>
       \/ /\ DiskFails
          /\ Goto(p, "lstatSub")
          /\ hindered' = hindered \cup {p}
          /\ UNCHANGED subs
          /\ Leaves({Top(p)})

\* Mutant: a directory that somebody else has just created is an error.
Lstat_Strict(p) ==
    /\ pc[p] \in {"lstatTop", "lstatSub"}
    /\ Goto(p, "failed")
    /\ UNCHANGED <<dirVars, file, hash, linked, histVars, calls>>

\* A mkdir that failed is forgiven if the directory is there now.
Lstat(p) ==
    /\ \/ /\ pc[p] = "lstatTop"
          /\ Goto(p, IF Top(p) \in tops THEN "mkSub" ELSE "failed")
       \/ /\ pc[p] = "lstatSub"
          /\ Goto(p, IF Sub(p) \in subs THEN "open" ELSE "failed")
    /\ UNCHANGED <<dirVars, file, hash, linked, histVars, calls>>

\* ioutil.WriteFile opens the file with O_CREATE and O_TRUNC ...
Open(p) ==
    /\ pc[p] = "open"
    /\ UNCHANGED <<dirVars, hash, kept, undone, spoiled, calls>>
    /\ \/ /\ Sub(p) \in subs
          /\ file' = [file EXCEPT ![hash[p]] = "empty"]
          /\ linked' = [linked EXCEPT ![p] = TRUE]
          /\ Goto(p, "write")
          /\ Leaves({})
          /\ UNCHANGED hindered
       \/ /\ Sub(p) \notin subs
          /\ Goto(p, "failed")
          /\ UNCHANGED <<file, linked, hindered, left>>
       \/ /\ DiskFails
          /\ Goto(p, "failed")
          /\ hindered' = hindered \cup {p}
          /\ UNCHANGED <<file, linked>>
          /\ Leaves({Sub(p)})

\* Mutant: the error of WriteFile is not looked at.
Write_IgnoreError(p) ==
    /\ pc[p] = "write"
    /\ \/ file' = [file EXCEPT ![hash[p]] = IF linked[p] THEN "whole" ELSE @]
       \/ DiskFails /\ UNCHANGED file
    /\ kept' = IF p \in undone THEN kept ELSE kept \cup {hash[p]}
    /\ Done(p)
    /\ linked' = [linked EXCEPT ![p] = FALSE]
    /\ UNCHANGED <<dirVars, undone, hindered, spoiled, left, calls>>

\* ... and writes it.  If the name was removed meanwhile, the content goes to
\* a file without a name and SaveFile succeeds all the same.
Write(p) ==
    /\ pc[p] = "write"
    /\ \/ /\ file' = [file EXCEPT ![hash[p]] = IF linked[p] THEN "whole" ELSE @]
          /\ kept' = IF p \in undone THEN kept ELSE kept \cup {hash[p]}
          /\ spoiled' = IF linked[p] THEN spoiled \ {hash[p]} ELSE spoiled
       \/ /\ DiskFails
          /\ spoiled' = IF linked[p] THEN spoiled \cup {hash[p]} ELSE spoiled
          /\ UNCHANGED <<file, kept>>
    /\ Done(p)
    /\ linked' = [linked EXCEPT ![p] = FALSE]
    /\ undone' = undone \ {p}
    /\ hindered' = hindered \ {p}
    /\ UNCHANGED <<dirVars, left, calls>>

-----------------------------------------------------------------------------
(* DeleteFile *)

BeginDelete(p, h) ==
    /\ Begin(p, h, "remove")
    /\ UNCHANGED <<dirVars, file, linked, histVars>>

Savers(h) == {q \in Callers : pc[q] \in Saving /\ hash[q] = h}

\* A file that is not there counts as deleted, and no directory is looked at;
\* any other error ends the call.
Remove(p) ==
    /\ pc[p] = "remove"
    /\ \/ /\ file' = [file EXCEPT ![hash[p]] = "absent"]
          /\ linked' = [q \in Callers |-> linked[q] /\ hash[q] # hash[p]]
          /\ DoneOr(p, "removeSub", file[hash[p]] = "absent")
          /\ kept' = kept \ {hash[p]}
          /\ spoiled' = spoiled \ {hash[p]}
          /\ undone' = undone \cup Savers(hash[p])
       \/ /\ DiskFails
          /\ Done(p)
          /\ UNCHANGED <<file, linked, kept, spoiled, undone>>
    /\ UNCHANGED <<dirVars, hindered, left, calls>>

\* Mutant: the directory goes with everything in it.
RemoveSub_All(p) ==
    /\ pc[p] = "removeSub"
    /\ subs' = subs \ {Sub(p)}
    /\ file' = [h \in Hashes |-> IF SubOf[h] = Sub(p) THEN "absent" ELSE file[h]]
    /\ Goto(p, "removeTop")
    /\ UNCHANGED <<tops, hash, linked, histVars, calls>>

\* rmdir of the second level, which fails unless the directory is empty; the
\* error is ignored, as is any other.
RemoveSub(p) ==
    /\ pc[p] = "removeSub"
    /\ UNCHANGED <<tops, file, hash, linked, kept, undone, spoiled, calls>>
    /\ \/ /\ Sub(p) \in subs /\ EmptySub(Sub(p))
          /\ subs' = subs \ {Sub(p)}
          /\ hindered' = hindered \cup {q \in Callers : pc[q] \in Saving /\ Sub(q) = Sub(p)}
          /\ Leaves({})
       \/ /\ Sub(p) \notin subs \/ ~EmptySub(Sub(p)) \/ DiskFails
          /\ UNCHANGED <<subs, hindered>>
          /\ Leaves({Sub(p)})
    /\ Goto(p, "removeTop")

\* Mutant: only the second level is cleaned up.
RemoveTop_Never(p) ==
    /\ pc[p] = "removeTop"
    /\ Done(p)
    /\ UNCHANGED <<dirVars, file, linked, histVars, calls>>

\* rmdir of the first level, in the same way.
RemoveTop(p) ==
    /\ pc[p] = "removeTop"
    /\ UNCHANGED <<subs, file, linked, kept, undone, spoiled, calls>>
    /\ \/ /\ Top(p) \in tops /\ EmptyTop(Top(p))
          /\ tops' = tops \ {Top(p)}
          /\ hindered' = hindered \cup {q \in Callers : pc[q] \in Saving /\ Top(q) = Top(p)}
          /\ Leaves({})
       \/ /\ Top(p) \notin tops \/ ~EmptyTop(Top(p)) \/ DiskFails
          /\ UNCHANGED <<tops, hindered>>
          /\ Leaves({Top(p)})
    /\ Done(p)

-----------------------------------------------------------------------------
\* SaveFile has returned an error; the caller goes on.
ReturnError(p) ==
    /\ pc[p] = "failed"
    /\ Done(p)
    /\ undone' = undone \ {p}
    /\ hindered' = hindered \ {p}
    /\ UNCHANGED <<dirVars, file, linked, kept, spoiled, left, calls>>

\* The process dies in the middle of a call, and is started again.
Crash(p) ==
    /\ Crashes
    /\ pc[p] \in Saving \cup Deleting
    /\ UNCHANGED <<dirVars, file, kept, calls>>
    /\ Done(p)
    /\ linked' = [linked EXCEPT ![p] = FALSE]
    /\ spoiled' = IF linked[p] THEN spoiled \cup {hash[p]} ELSE spoiled
    /\ Leaves({Sub(p), Top(p)})
    /\ undone' = undone \ {p}
    /\ hindered' = hindered \ {p}

SaveStep(p) ==
    \/ StatSub(p) \/ StatTop(p) \/ MkTop(p) \/ MkSub(p) \/ Lstat(p)
    \/ Open(p) \/ Write(p)

DeleteStep(p) == Remove(p) \/ RemoveSub(p) \/ RemoveTop(p)

Next ==
    \E p \in Callers :
        \/ \E h \in Hashes : BeginSave(p, h) \/ BeginDelete(p, h)
        \/ SaveStep(p) \/ DeleteStep(p) \/ ReturnError(p) \/ Crash(p)

Spec == Init /\ [][Next]_vars

-----------------------------------------------------------------------------
(* Properties *)

TypeOK ==
    /\ tops \subseteq Tops /\ subs \subseteq Subs
    /\ file \in [Hashes -> {"absent", "empty", "whole"}]
    /\ pc \in [Callers -> Saving \cup Deleting \cup Returned]
    /\ hash \in [Callers -> Hashes \cup {None}]
    /\ linked \in [Callers -> BOOLEAN]
    /\ kept \subseteq Hashes /\ undone \subseteq Callers
    /\ hindered \subseteq Callers /\ spoiled \subseteq Hashes
    /\ left \subseteq Subs \cup Tops /\ calls \in 0..MaxCalls

\* FindFile finds what SaveFile has saved until somebody deletes that hash:
\* the clean-up of DeleteFile never takes away a sibling's file, however the
\* calls of savers and deleters interleave.
SavedIsFound == \A h \in kept : FindFile(h)

\* What was saved is there with its whole content, except while a later save
\* of the same hash has truncated it, or after one that broke off.
SavedIsWhole ==
    \A h \in kept \ spoiled :
        file[h] = "whole" \/ \E p \in Callers : hash[p] = h /\ pc[p] = "write"

\* SaveFile fails for one reason besides the disk: a deleter removed one of
\* its directories while it ran.  Savers alone never make each other fail,
\* although all of them create the same directories.
SaveFailsOnlyUnderDelete ==
    \A p \in Callers : pc[p] = "failed" => p \in hindered

\* When no call is in progress, no directory is empty, whichever way deleters
\* and savers have raced, but for those that a call had to leave when the disk
\* refused it or its process died; the next deleter removes even these.
NoEmptyDirectoryStays ==
    (\A p \in Callers : pc[p] \in Returned) => EmptyDirs \subseteq left
=============================================================================
