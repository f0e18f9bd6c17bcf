--------------------------- MODULE MCEmailService ---------------------------
(***************************************************************************)
(* An instance of EmailService for TLC.                                    *)
(***************************************************************************)
EXTENDS EmailService

CONSTANTS a1, w1, w2, c1, c2, k1
=============================================================================
