------------------------------ MODULE MCGateway ------------------------------
(***************************************************************************)
(* An instance of Gateway for TLC.                                         *)
(***************************************************************************)
EXTENDS Gateway, TLC

CONSTANTS g1, g2, s1, s2, r1, r2

\* Operations of each kind, with a flaw that they refuse or none.
MCInputs ==
    {<<"signin", "none">>, <<"signin", "field">>, <<"filedowm", "none">>,
     <<"filedowm", "token">>, <<"aiRequest", "none">>, <<"aiRequest", "claims">>}

\* The operation whose callback may end without a reply.
MCAsk == {<<"aiRequest", "none">>}

Symmetric == Permutations(Gateways) \cup Permutations(Backends) \cup Permutations(Requests)
=============================================================================
