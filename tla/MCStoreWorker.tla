---------------------------- MODULE MCStoreWorker ----------------------------
(***************************************************************************)
(* An instance of StoreWorker for TLC: two workers of one process, which   *)
(* share an instanceID as the ten that main.go starts do, against one of   *)
(* another process.  The event carries content (LoadFile).                 *)
(***************************************************************************)
EXTENDS StoreWorker, TLC

CONSTANTS w1, w2, w3, i1, i2, load

MCWorkers3   == {w1, w2, w3}

MCMixed      == (w1 :> i1) @@ (w2 :> i1) @@ (w3 :> i2)

MCLoadFile   == {load}

MCOneEvent   == {load}
MCOneSha1Of  == [e \in MCOneEvent |-> "sha1"]
MCOneKeyOf   == [e \in MCOneEvent |-> "key1"]

MCUnreliable == {"db", "oss", "process"}
=============================================================================
