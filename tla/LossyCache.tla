----------------------------- MODULE LossyCache -----------------------------
(***************************************************************************)
(* What ICachePolicy promises to the gateway: a map that may forget, and   *)
(* that never answers with anything but the last value put.                *)
(***************************************************************************)
CONSTANTS Keys, Values, None

VARIABLES
    entries,    \* the value cached under each key, or None
    got         \* the answer of the last get, or None

\* Any entries may be forgotten, at any call.
MayForget(before, after) == \A k \in Keys : after[k] \in {before[k], None}

LossyInit == entries = [k \in Keys |-> None] /\ got = None

LossyPut(k, v) ==
    /\ MayForget([entries EXCEPT ![k] = v], entries')
    /\ entries' \in [Keys -> Values \cup {None}]
    /\ got' = None

\* The answer is the entry; an entry that get does not find is forgotten.
LossyGet(k) ==
    /\ MayForget(entries, entries')
    /\ entries' \in [Keys -> Values \cup {None}]
    /\ got' = entries'[k]

LossyNext == \E k \in Keys : LossyGet(k) \/ \E v \in Values : LossyPut(k, v)

LossySpec == LossyInit /\ [][LossyNext]_<<entries, got>>
=============================================================================
