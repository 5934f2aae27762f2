---------------------------- MODULE MCCodingRun ----------------------------
(***************************************************************************)
(* Two validators, of two IDs or of one, two governed calls, and two       *)
(* contents of the workspace's scopes.  One limitation is configured       *)
(* and the list holds two, so a run may have one more to disclose than     *)
(* there is room for.                                                      *)
(***************************************************************************)
EXTENDS CodingRun

MCSuites == {<<"lint", "tests">>, <<"lint", "lint">>}
MCConfigured == <<"backend:network">>
MCClears == [baseline |-> {{"target", "forbidden"}},
             final |-> {{"target", "forbidden"}, {"forbidden"}}]
=============================================================================
