----------------------------- MODULE MCArcCache -----------------------------
(* Instances of ArcCache for TLC. *)
EXTENDS ArcCache

CONSTANTS a, b, c, d, v1, v2, none

FourKeys == {a, b, c, d}
TwoValues == {v1, v2}

Symmetric == Permutations(Keys) \cup Permutations(Values)
=============================================================================
