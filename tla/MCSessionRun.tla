---------------------------- MODULE MCSessionRun ----------------------------
(***************************************************************************)
(* Two callers, each on either of two application objects that share one   *)
(* session.  The model answers the first with calls that repeat an ID or a *)
(* meaning, within one completion or across completions.                   *)
(***************************************************************************)
EXTENDS SessionRun, TLC

CONSTANTS c1, c2, i1, i2, k1, k2

Look == [id |-> i1, key |-> k1]
LookAgain == [id |-> i2, key |-> k1]
Other == [id |-> i1, key |-> k2]

Says == [text |-> TRUE, calls |-> << >>]
Asks(calls) == [text |-> FALSE, calls |-> calls]

MCCompletions ==
    c1 :> {Says, Asks(<<Look>>), Asks(<<LookAgain>>), Asks(<<Look, LookAgain>>),
           [text |-> TRUE, calls |-> <<Other>>], Asks(<<Look, Look>>)}
    @@ c2 :> {Says}
=============================================================================
