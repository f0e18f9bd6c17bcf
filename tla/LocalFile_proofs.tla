--------------------------- MODULE LocalFile_proofs ---------------------------
(***************************************************************************)
(* Proofs about LocalFile, for any number of callers, any set of hashes    *)
(* and any layout of the directories they lie in.                          *)
(***************************************************************************)
EXTENDS LocalFile, TLAPS

-----------------------------------------------------------------------------
(* Type correctness *)

\* A call in progress has an argument.
HandlesHash == \A p \in Callers : pc[p] # "idle" => hash[p] \in Hashes

TypeInv == TypeOK /\ HandlesHash

LEMMA TypeInit == Init => TypeInv
<1> SUFFICES ASSUME Init PROVE TypeInv
  OBVIOUS
<1>1. pc \in [Callers -> Saving \cup Deleting \cup Returned] /\ HandlesHash
  BY DEF Init, HandlesHash, Returned
<1>2. calls \in 0..MaxCalls
  BY BoundAssumption DEF Init
<1>3. QED
  BY <1>1, <1>2 DEF Init, TypeInv, TypeOK

LEMMA PathType ==
  ASSUME TypeInv, NEW p \in Callers, pc[p] # "idle"
  PROVE  Sub(p) \in Subs /\ Top(p) \in Tops
  BY PathAssumption DEF TypeInv, HandlesHash, Sub, Top

\* What a step leaves behind are directories that exist after it.
LEMMA LeavesType ==
  ASSUME NEW D, Leaves(D), (subs \subseteq Subs /\ tops \subseteq Tops)'
  PROVE  left' \subseteq Subs \cup Tops
  BY DEF Leaves, EmptyDirs

LEMMA TypeNext == TypeInv /\ [Next]_vars => TypeInv'
<1> SUFFICES ASSUME TypeInv, [Next]_vars PROVE TypeInv'
  OBVIOUS
<1> USE DEF TypeInv, TypeOK, HandlesHash, Goto, Done, DoneOr, Saving, Deleting, Returned
<1> USE DEF dirVars, callVars, histVars
<1>1. ASSUME NEW p \in Callers, NEW h \in Hashes, BeginSave(p, h) \/ BeginDelete(p, h)
      PROVE  TypeInv'
  BY <1>1, BoundAssumption DEF BeginSave, BeginDelete, Begin
<1>2. ASSUME NEW p \in Callers, StatSub(p) \/ StatTop(p) \/ Lstat(p)
      PROVE  TypeInv'
  BY <1>2 DEF StatSub, StatTop, Lstat
<1>3. ASSUME NEW p \in Callers, MkTop(p) \/ MkSub(p)
      PROVE  TypeInv'
  <2>1. Sub(p) \in Subs /\ Top(p) \in Tops
    BY <1>3, PathType DEF MkTop, MkSub
  <2>2. (subs \subseteq Subs /\ tops \subseteq Tops)'
    BY <1>3, <2>1 DEF MkTop, MkSub
  <2>3. left' \subseteq Subs \cup Tops
    BY <1>3, <2>2, LeavesType DEF MkTop, MkSub
  <2>4. QED
    BY <1>3, <2>2, <2>3 DEF MkTop, MkSub
<1>4. ASSUME NEW p \in Callers, Open(p)
      PROVE  TypeInv'
  <2>1. left' \subseteq Subs \cup Tops
    BY <1>4, LeavesType DEF Open
  <2>2. /\ file' \in [Hashes -> {"absent", "empty", "whole"}]
        /\ linked' \in [Callers -> BOOLEAN]
        /\ pc' \in [Callers -> Saving \cup Deleting \cup Returned]
    <3>1. \/ file' = [file EXCEPT ![hash[p]] = "empty"]
          \/ file' = file
      BY <1>4 DEF Open
    <3>2. linked' = [linked EXCEPT ![p] = TRUE] \/ linked' = linked
      BY <1>4 DEF Open
    <3>3. pc' = [pc EXCEPT ![p] = "write"] \/ pc' = [pc EXCEPT ![p] = "failed"]
      BY <1>4 DEF Open
    <3>4. QED
      BY <3>1, <3>2, <3>3
  <2>3. /\ UNCHANGED <<dirVars, hash, kept, undone, spoiled, calls>>
        /\ hindered' \subseteq Callers /\ pc[p] = "open"
        /\ \A q \in Callers : q # p => pc'[q] = pc[q]
    BY <1>4 DEF Open
  <2>4. QED
    BY <2>1, <2>2, <2>3
<1>5. ASSUME NEW p \in Callers, Write(p)
      PROVE  TypeInv'
  BY <1>5 DEF Write
<1>6. ASSUME NEW p \in Callers, Remove(p)
      PROVE  TypeInv'
  <2>1. CASE file' = [file EXCEPT ![hash[p]] = "absent"]
             /\ linked' = [q \in Callers |-> linked[q] /\ hash[q] # hash[p]]
    <3>1. /\ file' \in [Hashes -> {"absent", "empty", "whole"}]
          /\ linked' \in [Callers -> BOOLEAN]
      BY <2>1
    <3>2. /\ kept' \subseteq Hashes /\ spoiled' \subseteq Hashes /\ undone' \subseteq Callers
          /\ UNCHANGED <<dirVars, hindered, left, calls>>
      BY <1>6 DEF Remove, Savers
    <3>3. /\ pc' \in [Callers -> Saving \cup Deleting \cup Returned]
          /\ hash' \in [Callers -> Hashes \cup {None}]
          /\ HandlesHash'
      BY <1>6 DEF Remove
    <3>4. QED
      BY <3>1, <3>2, <3>3
  <2>2. CASE Done(p) /\ UNCHANGED <<file, linked, kept, spoiled, undone>>
    BY <1>6, <2>2 DEF Remove
  <2>3. QED
    BY <1>6, <2>1, <2>2 DEF Remove
<1>7. ASSUME NEW p \in Callers, RemoveSub(p) \/ RemoveTop(p)
      PROVE  TypeInv'
  <2>1. (subs \subseteq Subs /\ tops \subseteq Tops)'
    BY <1>7 DEF RemoveSub, RemoveTop
  <2>2. left' \subseteq Subs \cup Tops
    BY <1>7, <2>1, LeavesType DEF RemoveSub, RemoveTop
  <2>3. QED
    BY <1>7, <2>1, <2>2 DEF RemoveSub, RemoveTop
<1>8. ASSUME NEW p \in Callers, ReturnError(p)
      PROVE  TypeInv'
  BY <1>8 DEF ReturnError
<1>9. ASSUME NEW p \in Callers, Crash(p)
      PROVE  TypeInv'
  <2>1. left' \subseteq Subs \cup Tops
    BY <1>9, LeavesType DEF Crash
  <2>2. QED
    BY <1>9, <2>1 DEF Crash
<1>10. CASE UNCHANGED vars
  BY <1>10 DEF vars
<1>11. QED
  BY <1>1, <1>2, <1>3, <1>4, <1>5, <1>6, <1>7, <1>8, <1>9, <1>10
  DEF Next, SaveStep, DeleteStep

\* Directories, files, calls and the history keep their types.
THEOREM TypeCorrect == Spec => []TypeOK
<1>1. TypeInv => TypeOK
  BY DEF TypeInv
<1>2. QED
  BY TypeInit, TypeNext, <1>1, PTL DEF Spec

-----------------------------------------------------------------------------
(* What was saved.  A descriptor belongs to a file that is there, and a     *)
(* writer without one knows that its hash was deleted: it is among undone. *)

LinkedIsThere == \A p \in Callers : linked[p] => pc[p] = "write" /\ file[hash[p]] # "absent"

UnlinkedIsUndone == \A p \in Callers : pc[p] = "write" => linked[p] \/ p \in undone

\* An empty file has a writer that is not done, or one that broke off.
EmptyIsUnfinished ==
    \A h \in Hashes : file[h] = "empty" =>
        h \in spoiled \/ \E p \in Callers : linked[p] /\ hash[p] = h

KeptInv == TypeInv /\ LinkedIsThere /\ UnlinkedIsUndone /\ EmptyIsUnfinished /\ SavedIsFound

LEMMA KeptInit == Init => KeptInv
  BY TypeInit
  DEF Init, KeptInv, LinkedIsThere, UnlinkedIsUndone, EmptyIsUnfinished, SavedIsFound

LEMMA KeptNext == KeptInv /\ [Next]_vars => KeptInv'
<1> SUFFICES ASSUME KeptInv, [Next]_vars
             PROVE  (LinkedIsThere /\ UnlinkedIsUndone /\ EmptyIsUnfinished /\ SavedIsFound)'
  BY TypeNext DEF KeptInv
<1> USE DEF KeptInv, TypeInv, TypeOK, HandlesHash, LinkedIsThere, UnlinkedIsUndone,
            EmptyIsUnfinished, SavedIsFound, FindFile, Goto, Done, DoneOr
<1>1. ASSUME NEW p \in Callers, NEW h \in Hashes, BeginSave(p, h) \/ BeginDelete(p, h)
      PROVE  (LinkedIsThere /\ UnlinkedIsUndone /\ EmptyIsUnfinished /\ SavedIsFound)'
  BY <1>1 DEF BeginSave, BeginDelete, Begin, histVars
<1>2. ASSUME NEW p \in Callers,
             StatSub(p) \/ StatTop(p) \/ Lstat(p) \/ MkTop(p) \/ MkSub(p)
      PROVE  (LinkedIsThere /\ UnlinkedIsUndone /\ EmptyIsUnfinished /\ SavedIsFound)'
  BY <1>2 DEF StatSub, StatTop, Lstat, MkTop, MkSub, histVars
<1>3. ASSUME NEW p \in Callers, Open(p)
      PROVE  (LinkedIsThere /\ UnlinkedIsUndone /\ EmptyIsUnfinished /\ SavedIsFound)'
  BY <1>3 DEF Open, histVars
<1>4. ASSUME NEW p \in Callers, Write(p)
      PROVE  (LinkedIsThere /\ UnlinkedIsUndone /\ EmptyIsUnfinished /\ SavedIsFound)'
  <2>1. LinkedIsThere' /\ UnlinkedIsUndone'
    BY <1>4 DEF Write
  <2>2. EmptyIsUnfinished'
    BY <1>4 DEF Write
  <2>3. SavedIsFound'
    BY <1>4 DEF Write
  <2>4. QED
    BY <2>1, <2>2, <2>3
<1>5. ASSUME NEW p \in Callers, Remove(p)
      PROVE  (LinkedIsThere /\ UnlinkedIsUndone /\ EmptyIsUnfinished /\ SavedIsFound)'
  <2>1. LinkedIsThere' /\ UnlinkedIsUndone'
    BY <1>5 DEF Remove, Savers, Saving
  <2>2. EmptyIsUnfinished' /\ SavedIsFound'
    BY <1>5 DEF Remove
  <2>3. QED
    BY <2>1, <2>2
<1>6. ASSUME NEW p \in Callers, RemoveSub(p) \/ RemoveTop(p) \/ ReturnError(p)
      PROVE  (LinkedIsThere /\ UnlinkedIsUndone /\ EmptyIsUnfinished /\ SavedIsFound)'
  BY <1>6 DEF RemoveSub, RemoveTop, ReturnError
<1>7. ASSUME NEW p \in Callers, Crash(p)
      PROVE  (LinkedIsThere /\ UnlinkedIsUndone /\ EmptyIsUnfinished /\ SavedIsFound)'
  BY <1>7 DEF Crash
<1>8. CASE UNCHANGED vars
  BY <1>8 DEF vars, callVars, histVars
<1>9. QED
  BY <1>1, <1>2, <1>3, <1>4, <1>5, <1>6, <1>7, <1>8 DEF Next, SaveStep, DeleteStep

\* A saved file is found until its hash is deleted, however the calls of any
\* number of savers and deleters interleave.
THEOREM SavedCorrect == Spec => []SavedIsFound
<1>1. KeptInv => SavedIsFound
  BY DEF KeptInv
<1>2. QED
  BY KeptInit, KeptNext, <1>1, PTL DEF Spec

\* And it is whole: the error paths of WriteFile and the callers that share a
\* name leave an empty file only where a write is in progress or broke off.
THEOREM WholeCorrect == Spec => []SavedIsWhole
<1>1. KeptInv => SavedIsWhole
  BY DEF KeptInv, TypeInv, TypeOK, LinkedIsThere, EmptyIsUnfinished, SavedIsFound,
         SavedIsWhole, FindFile
<1>2. QED
  BY KeptInit, KeptNext, <1>1, PTL DEF Spec

-----------------------------------------------------------------------------
(* The tree: a file lies in a directory that exists, and so does a second- *)
(* level directory.  It is why the name alone tells whether FindFile finds *)
(* a file.                                                                 *)

FilesHaveDirectories ==
    /\ \A h \in Hashes : file[h] # "absent" => SubOf[h] \in subs
    /\ \A s \in subs : TopOf[s] \in tops

TreeInv == KeptInv /\ FilesHaveDirectories

LEMMA TreeInit == Init => TreeInv
  BY KeptInit DEF Init, TreeInv, FilesHaveDirectories

LEMMA TreeNext == TreeInv /\ [Next]_vars => TreeInv'
<1> SUFFICES ASSUME TreeInv, [Next]_vars PROVE FilesHaveDirectories'
  BY KeptNext DEF TreeInv
<1> USE DEF TreeInv, KeptInv, TypeInv, TypeOK, HandlesHash, FilesHaveDirectories, Sub, Top
<1>1. ASSUME NEW p \in Callers, MkTop(p) \/ MkSub(p)
      PROVE  FilesHaveDirectories'
  BY <1>1 DEF MkTop, MkSub
<1>2. ASSUME NEW p \in Callers, Open(p)
      PROVE  FilesHaveDirectories'
  BY <1>2 DEF Open, dirVars
<1>3. ASSUME NEW p \in Callers, Write(p)
      PROVE  FilesHaveDirectories'
  BY <1>3 DEF Write, dirVars, LinkedIsThere
<1>4. ASSUME NEW p \in Callers, Remove(p)
      PROVE  FilesHaveDirectories'
  BY <1>4 DEF Remove, dirVars
<1>5. ASSUME NEW p \in Callers, RemoveSub(p)
      PROVE  FilesHaveDirectories'
  BY <1>5 DEF RemoveSub, EmptySub
<1>6. ASSUME NEW p \in Callers, RemoveTop(p)
      PROVE  FilesHaveDirectories'
  BY <1>6 DEF RemoveTop, EmptyTop
<1>7. CASE UNCHANGED <<dirVars, file>>
  BY <1>7 DEF dirVars
<1>8. QED
  BY <1>1, <1>2, <1>3, <1>4, <1>5, <1>6, <1>7
  DEF Next, SaveStep, DeleteStep, BeginSave, BeginDelete, StatSub, StatTop, Lstat,
      ReturnError, Crash, vars

\* Every file is below two directories that exist.
THEOREM TreeCorrect == Spec => []FilesHaveDirectories
<1>1. TreeInv => FilesHaveDirectories
  BY DEF TreeInv
<1>2. QED
  BY TreeInit, TreeNext, <1>1, PTL DEF Spec

-----------------------------------------------------------------------------
(* What a saver knows of its directories at each system call: they exist,  *)
(* or somebody has hindered one of them away.                                *)

KnowsTop ==
    \A p \in Callers : pc[p] \in {"lstatTop", "mkSub"} => Top(p) \in tops \/ p \in hindered

KnowsSub ==
    \A p \in Callers : pc[p] \in {"lstatSub", "open"} => Sub(p) \in subs \/ p \in hindered

HinderedInv == TypeInv /\ KnowsTop /\ KnowsSub /\ SaveFailsOnlyUnderDelete

LEMMA HinderedInit == Init => HinderedInv
  BY TypeInit DEF Init, HinderedInv, KnowsTop, KnowsSub, SaveFailsOnlyUnderDelete

LEMMA HinderedNext == HinderedInv /\ [Next]_vars => HinderedInv'
<1> SUFFICES ASSUME HinderedInv, [Next]_vars
             PROVE  (KnowsTop /\ KnowsSub /\ SaveFailsOnlyUnderDelete)'
  BY TypeNext DEF HinderedInv
<1> USE DEF HinderedInv, TypeInv, TypeOK, HandlesHash, KnowsTop, KnowsSub,
            SaveFailsOnlyUnderDelete, Sub, Top, Goto, Done, DoneOr
<1>1. ASSUME NEW p \in Callers, NEW h \in Hashes, BeginSave(p, h) \/ BeginDelete(p, h)
      PROVE  (KnowsTop /\ KnowsSub /\ SaveFailsOnlyUnderDelete)'
  BY <1>1 DEF BeginSave, BeginDelete, Begin, dirVars, histVars
<1>2. ASSUME NEW p \in Callers, StatSub(p) \/ StatTop(p) \/ Lstat(p)
      PROVE  (KnowsTop /\ KnowsSub /\ SaveFailsOnlyUnderDelete)'
  BY <1>2 DEF StatSub, StatTop, Lstat, dirVars, histVars
<1>3. ASSUME NEW p \in Callers, MkTop(p) \/ MkSub(p)
      PROVE  (KnowsTop /\ KnowsSub /\ SaveFailsOnlyUnderDelete)'
  BY <1>3 DEF MkTop, MkSub, histVars
<1>4. ASSUME NEW p \in Callers, Open(p)
      PROVE  (KnowsTop /\ KnowsSub /\ SaveFailsOnlyUnderDelete)'
  BY <1>4 DEF Open, dirVars, histVars
<1>5. ASSUME NEW p \in Callers, Write(p) \/ ReturnError(p) \/ Crash(p)
      PROVE  (KnowsTop /\ KnowsSub /\ SaveFailsOnlyUnderDelete)'
  BY <1>5 DEF Write, ReturnError, Crash, dirVars
<1>6. ASSUME NEW p \in Callers, Remove(p)
      PROVE  (KnowsTop /\ KnowsSub /\ SaveFailsOnlyUnderDelete)'
  BY <1>6 DEF Remove, dirVars
<1>7. ASSUME NEW p \in Callers, RemoveSub(p)
      PROVE  (KnowsTop /\ KnowsSub /\ SaveFailsOnlyUnderDelete)'
  BY <1>7 DEF RemoveSub, Saving
<1>8. ASSUME NEW p \in Callers, RemoveTop(p)
      PROVE  (KnowsTop /\ KnowsSub /\ SaveFailsOnlyUnderDelete)'
  BY <1>8 DEF RemoveTop, Saving
<1>9. CASE UNCHANGED vars
  BY <1>9 DEF vars, dirVars, callVars, histVars
<1>10. QED
  BY <1>1, <1>2, <1>3, <1>4, <1>5, <1>6, <1>7, <1>8, <1>9
  DEF Next, SaveStep, DeleteStep

\* Savers that create the same directories never make each other fail.
THEOREM SaveFailsCorrect == Spec => []SaveFailsOnlyUnderDelete
<1>1. HinderedInv => SaveFailsOnlyUnderDelete
  BY DEF HinderedInv
<1>2. QED
  BY HinderedInit, HinderedNext, <1>1, PTL DEF Spec

-----------------------------------------------------------------------------
(* Empty directories: each of them has a caller that is about to put        *)
(* something into it or to remove it, or was left behind.                   *)

SubIsWanted(s) == \E p \in Callers : pc[p] \in {"open", "removeSub"} /\ Sub(p) = s

TopIsWanted(t) == \E p \in Callers : pc[p] \in {"mkSub", "removeTop"} /\ Top(p) = t

EmptyIsWanted ==
    /\ \A s \in subs : EmptySub(s) => SubIsWanted(s) \/ s \in left
    /\ \A t \in tops : EmptyTop(t) => TopIsWanted(t) \/ t \in left

EmptyInv == TypeInv /\ EmptyIsWanted

LEMMA EmptyInit == Init => EmptyInv
  BY TypeInit DEF Init, EmptyInv, EmptyIsWanted

\* An empty directory that was left behind, or is left behind by this step.
LEMMA LeftStays ==
  ASSUME NEW D, Leaves(D)
  PROVE  /\ \A s \in subs' : EmptySub(s)' /\ s \in left \cup D => s \in left'
         /\ \A t \in tops' : EmptyTop(t)' /\ t \in left \cup D => t \in left'
  BY DEF Leaves, EmptyDirs

LEMMA EmptyNext == EmptyInv /\ [Next]_vars => EmptyInv'
<1> SUFFICES ASSUME EmptyInv, [Next]_vars PROVE EmptyIsWanted'
  BY TypeNext DEF EmptyInv
<1> USE DEF EmptyInv, EmptyIsWanted, TypeInv, TypeOK, HandlesHash, SubIsWanted, TopIsWanted,
            EmptySub, EmptyTop, Sub, Top, Goto, Done, DoneOr
<1>1. ASSUME NEW p \in Callers, NEW h \in Hashes, BeginSave(p, h) \/ BeginDelete(p, h)
      PROVE  EmptyIsWanted'
  BY <1>1 DEF BeginSave, BeginDelete, Begin, dirVars, histVars
<1>2. ASSUME NEW p \in Callers, StatSub(p) \/ StatTop(p) \/ Lstat(p)
      PROVE  EmptyIsWanted'
  BY <1>2 DEF StatSub, StatTop, Lstat, dirVars, histVars
<1>3. ASSUME NEW p \in Callers, MkTop(p)
      PROVE  EmptyIsWanted'
  BY <1>3 DEF MkTop
<1>4. ASSUME NEW p \in Callers, MkSub(p)
      PROVE  EmptyIsWanted'
  BY <1>4, LeftStays DEF MkSub
<1>5. ASSUME NEW p \in Callers, Open(p)
      PROVE  EmptyIsWanted'
  BY <1>5, LeftStays DEF Open, dirVars
<1>6. ASSUME NEW p \in Callers, Write(p) \/ ReturnError(p)
      PROVE  EmptyIsWanted'
  BY <1>6 DEF Write, ReturnError, dirVars
<1>7. ASSUME NEW p \in Callers, Remove(p)
      PROVE  EmptyIsWanted'
  BY <1>7 DEF Remove, dirVars
<1>8. ASSUME NEW p \in Callers, RemoveSub(p)
      PROVE  EmptyIsWanted'
  BY <1>8, LeftStays DEF RemoveSub
<1>9. ASSUME NEW p \in Callers, RemoveTop(p)
      PROVE  EmptyIsWanted'
  BY <1>9, LeftStays DEF RemoveTop
<1>10. ASSUME NEW p \in Callers, Crash(p)
       PROVE  EmptyIsWanted'
  BY <1>10, LeftStays DEF Crash, dirVars
<1>11. CASE UNCHANGED vars
  BY <1>11 DEF vars, dirVars, callVars, histVars
<1>12. QED
  BY <1>1, <1>2, <1>3, <1>4, <1>5, <1>6, <1>7, <1>8, <1>9, <1>10, <1>11
  DEF Next, SaveStep, DeleteStep

\* Savers and deleters, however they race, leave no empty directory behind but
\* those that the disk or a death makes them leave.
THEOREM EmptyCorrect == Spec => []NoEmptyDirectoryStays
<1>1. EmptyInv => NoEmptyDirectoryStays
  BY DEF EmptyInv, EmptyIsWanted, SubIsWanted, TopIsWanted, NoEmptyDirectoryStays, EmptyDirs,
         Returned
<1>2. QED
  BY EmptyInit, EmptyNext, <1>1, PTL DEF Spec
=============================================================================
