--------------------------- MODULE MCGovernedAction ---------------------------
(***************************************************************************)
(* Governed calls for TLC: a required and then an optional pre-hook, one   *)
(* post-hook, and a world in which scope, content, containment and the one *)
(* capability may each drift while a call is in flight.                    *)
(***************************************************************************)
EXTENDS GovernedAction, TLC

CONSTANTS s1, s2, v1, v2, network

MCScopes       == {s1, s2}
MCVersions     == {v1, v2}
MCCapabilities == {network}
MCPreHooks     == <<"required", "optional">>

\* Nothing tells one scope from another, nor one content.
MCSymmetry == Permutations(MCScopes) \cup Permutations(MCVersions)
=============================================================================
