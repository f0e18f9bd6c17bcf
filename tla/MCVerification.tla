--------------------------- MODULE MCVerification ---------------------------
(***************************************************************************)
(* An instance of Verification for TLC.                                    *)
(***************************************************************************)
EXTENDS Verification

CONSTANTS a1, w1, w2, c1
=============================================================================
