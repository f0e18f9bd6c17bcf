--------------------------- MODULE MCStoreConsumer ---------------------------
(***************************************************************************)
(* Instances of StoreConsumer for TLC: one or two processes, one topic     *)
(* partition.                                                              *)
(***************************************************************************)
EXTENDS StoreConsumer, TLC

CONSTANTS w1, w2, i1, i2, a, b

MCWorkers   == {w1, w2}

\* Two workers of one process.
MCShared    == [w \in MCWorkers |-> i1]

\* One worker in each of two processes.
MCSeparate  == (w1 :> i1) @@ (w2 :> i2)

MCSha1Of    == (a :> "sha1") @@ (b :> "sha2")
MCKeyOf     == (a :> "key1") @@ (b :> "key2")

MCAll       == {"db", "oss", "process"}
=============================================================================
