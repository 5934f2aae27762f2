----------------------------- MODULE MCWorkflow -----------------------------
(***************************************************************************)
(* Workflow on one small definition that uses every kind of transition:    *)
(*                                                                         *)
(*   a --conditional--> p --parallel [x, y]--> the end                     *)
(*   a --conditional--> e (end)                                            *)
(*                                                                         *)
(* y may write the key x writes, so that a group can collide.  r1 starts   *)
(* w1, r2 resumes it, or replays it under w2, while r1 may still run.      *)
(***************************************************************************)
EXTENDS Workflow, TLC

CONSTANTS a, p, x, y, e, k, r1, r2, w1, w2, v1, in1

MCNodes == {a, p, x, y, e}
MCKind == a :> "conditional" @@ p :> "parallel" @@ x :> "end" @@ y :> "end" @@ e :> "end"
MCTargets == a :> {p, e} @@ p :> {} @@ x :> {} @@ y :> {} @@ e :> {}
MCBranches == a :> << >> @@ p :> <<x, y>> @@ x :> << >> @@ y :> << >> @@ e :> << >>
MCUpdates == a :> {{}} @@ p :> {{}} @@ x :> {{k}} @@ y :> {{}, {k}} @@ e :> {{}}
MCRank == a :> 3 @@ p :> 2 @@ x :> 1 @@ y :> 1 @@ e :> 0
MCVersion == r1 :> v1 @@ r2 :> v1
MCStarters == r1 :> {w1} @@ r2 :> {}

\* User code of the run that may be stopped may cancel it of its own.
MCRogue == r1 :> {"cancelled"} @@ r2 :> {}
=============================================================================
