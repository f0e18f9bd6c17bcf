----------------------------- MODULE MCLocalFile -----------------------------
(***************************************************************************)
(* An instance of LocalFile for TLC: two hashes share both directories, a  *)
(* third one shares the first level only.                                  *)
(***************************************************************************)
EXTENDS LocalFile, TLC

CONSTANTS p1, p2, p3, a, b, c, ab, ac, top

MCSubOf == (a :> ab) @@ (b :> ab) @@ (c :> ac)
MCTopOf == (ab :> top) @@ (ac :> top)

Symmetric == Permutations(Callers)
=============================================================================
