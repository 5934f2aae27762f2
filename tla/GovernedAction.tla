---------------------------- MODULE GovernedAction ----------------------------
(***************************************************************************)
(* The governed path of one tool call (tools.py, ActionTool.execute_       *)
(* detailed, with tool_governance.py): prepare, hard guards, policy,       *)
(* reservation, approval or revalidation, pre-hooks, the effect boundary,  *)
(* one execution attempt, post-hooks, the stored record, and the handler   *)
(* of cancellation and deadline.  A run makes several calls one after the  *)
(* other and keeps their records in one run-scoped collector.              *)
(*                                                                         *)
(* Outside the path, between any two steps, the world the guards look at   *)
(* may drift and the run may be stopped.  The providers, hooks, executors  *)
(* and guard-context factories are the caller's code: each may answer      *)
(* anything their protocol allows, or raise.                               *)
(***************************************************************************)
EXTENDS Naturals, Sequences, FiniteSets

CONSTANTS
    Scopes,            \* the workspace scopes a factory may bind (one ID)
    Versions,          \* the contents a precondition digest tells apart
    Capabilities,      \* isolation capabilities of the backend
    PreHooks,          \* the modes of the configured pre-hooks, in order
    PostHooks,         \* how many post-hooks are configured
    MaxGovernedCalls,  \* capacity of the collector
    MaxCalls,          \* bound: governed calls the model makes in a run
    MaxDrifts          \* bound: changes of the world in a run

ASSUME GovernedAssumption ==
    /\ Scopes # {} /\ Versions # {}
    /\ "none" \notin Scopes    \* an identity is never None
    /\ IsFiniteSet(Capabilities)
    /\ PreHooks \in Seq({"required", "optional"})
    /\ PostHooks \in Nat
    /\ MaxGovernedCalls \in Nat \ {0}
    /\ MaxCalls \in Nat
    /\ MaxDrifts \in Nat

VARIABLES
    world,      \* what a guard context observes: scope, content, capabilities
    drifts,     \* how often the world has changed
    stopped,    \* the run is cancelled or past its deadline
    collector,  \* reservations and records of the run
    call,       \* the locals of execute_detailed, or NoCall
    history,    \* how each finished call ended
    reported    \* the records the application got by closing the collector

vars == <<world, drifts, stopped, collector, call, history, reported>>

None == "none"            \* a local still None, and EffectState.NONE
NoToken == 0              \* no reservation; the collector's tokens start at 1
GuardNames ==
    {"max_governed_calls", "workspace_identity", "current_containment",
     "protected_secret", "limits", "preconditions", "capabilities"}
EffectStates == {None, "partial", "complete", "unknown"}
Outcomes == {"ok", "error", "control", "exception"}

Worlds == [scope : Scopes, contained : BOOLEAN, content : Versions,
           offers : SUBSET Capabilities]
\* A prepared action: the content it was prepared against (None: it has no
\* preconditions), the capabilities it requires, and which of the guards that
\* depend on nothing but the action and the configuration it breaks.
Actions == [sees : Versions \cup {None}, needs : SUBSET Capabilities,
            breaks : SUBSET {"protected_secret", "limits"}]
\* A GuardContext: the world when the factory ran, and the governed calls so
\* far.  Containment is not in it: the guard resolves the path when it runs.
Contexts == [scope : Scopes, content : Versions,
             offers : SUBSET Capabilities, count : Nat]
\* ApprovalOutcome, None before an approval; "unavailable" stands for every
\* answer that is no decision.
Approvals ==
    {None, "approve", "reject", "unavailable", "identity_mismatch", "drift"}
Records == [token : Nat \ {0}, guards : GuardNames \cup {"passed"},
            policy : {"allow", "deny", "require_approval"},
            approval : Approvals, pre : Seq(BOOLEAN), attempts : 0..1,
            effect : EffectStates]

NoCall == [phase |-> "idle"]
Idle == call.phase = "idle"

-----------------------------------------------------------------------------
(***************************************************************************)
(* The hard guards, in their fixed order.                                  *)
(***************************************************************************)

GuardOrder ==
    <<"max_governed_calls", "workspace_identity", "current_containment",
      "protected_secret", "limits", "preconditions", "capabilities">>

\* The guard context a factory builds now; a reserved call does not count
\* its own reservation.
GuardContext(excluding) ==
    [scope |-> world.scope, content |-> world.content, offers |-> world.offers,
     count |-> Cardinality(DOMAIN collector.reserved)
               - (IF excluding = NoToken THEN 0 ELSE 1)]

GuardHolds(a, g, expected) ==
    [max_governed_calls  |-> g.count < MaxGovernedCalls,
     workspace_identity  |-> expected = None \/ g.scope = expected,
     current_containment |-> world.contained,
     protected_secret    |-> "protected_secret" \notin a.breaks,
     limits              |-> "limits" \notin a.breaks,
     preconditions       |-> a.sees = None \/ a.sees = g.content,
     capabilities        |-> a.needs \subseteq g.offers]

\* "passed", or the first guard of the order that fails.
EvaluateGuards(a, g, expected) ==
    LET holds  == GuardHolds(a, g, expected)
        failed == {i \in DOMAIN GuardOrder : ~holds[GuardOrder[i]]}
    IN  IF failed = {} THEN "passed"
        ELSE GuardOrder[CHOOSE i \in failed : \A j \in failed : i <= j]

-----------------------------------------------------------------------------
(***************************************************************************)
(* The run-scoped collector.  A custom collector may refuse an append; the *)
(* run then knows that its records are incomplete.                         *)
(***************************************************************************)

\* The token of a reservation: they are numbered, also those without a record.
NewToken == Cardinality(DOMAIN collector.reserved) + 1

Reserve(token) ==
    [collector EXCEPT !.reserved =
        [t \in DOMAIN @ \cup {token} |-> IF t = token THEN FALSE ELSE @[t]]]

Stored(record) ==
    [collector EXCEPT !.reserved[record.token] = TRUE,
                      !.records = Append(@, record)]

Unstored == [collector EXCEPT !.complete = FALSE]

\* The evidence of a call as it stands, with the effect it claims.
Record(c, effect) ==
    [token |-> c.token, guards |-> c.guards, policy |-> c.policy,
     approval |-> c.approval, pre |-> c.pre, attempts |-> c.attempts,
     effect |-> effect]

-----------------------------------------------------------------------------
(***************************************************************************)
(* How a call ends.                                                        *)
(***************************************************************************)

End(c, outcome) ==
    /\ history' = Append(history,
                    [outcome |-> outcome, token |-> c.token,
                     attempts |-> c.attempts, changed |-> c.changed,
                     blank |-> c.blank])
    /\ call' = NoCall

\* The call ends and nothing is stored.
EndBare(c, outcome) == End(c, outcome) /\ UNCHANGED collector

\* _store_record, then the result: an append that fails turns any result
\* into an observation failure.  A call without reservation stores nothing.
StoreAndEnd(c, effect, outcome) ==
    IF c.token = NoToken THEN EndBare(c, outcome)
    ELSE \/ collector' = Stored(Record(c, effect)) /\ End(c, outcome)
         \/ collector' = Unstored /\ End(c, "error")

\* A refusal before the effect: recorded, and answered with an error.
FinishRecordedError(c) == StoreAndEnd(c, None, "error")

\* Mutant: the handler reports the effect state the path had reached.
EffectReached(c) == c.effect

\* The effect a control error leaves in the record: once the executor was
\* called nobody can tell what it did.
ControlEffect(c) == IF c.attempts = 1 THEN "unknown" ELSE None

\* The except branch for cancellation and deadline.  Building the record may
\* itself fail (a blank diagnostic); that is logged and the control error
\* still propagates.
ControlError(c) ==
    IF c.guards = None \/ c.token = NoToken \/ c.blank
    THEN EndBare(c, "control")
    ELSE /\ \/ collector' = Stored(Record(c, ControlEffect(c)))
            \/ collector' = Unstored
         /\ End(c, "control")

Surroundings == <<world, drifts, stopped, reported>>

-----------------------------------------------------------------------------
Init ==
    /\ world \in {w \in Worlds : w.contained /\ w.offers = Capabilities}
    /\ drifts = 0
    /\ stopped = FALSE
    /\ collector = [reserved |-> <<>>, records |-> <<>>, complete |-> TRUE,
                    closed |-> FALSE]
    /\ call = NoCall
    /\ history = <<>>
    /\ reported = <<>>

\* The run goes on unless the last call raised out of the registry.
Continues ==
    \A i \in DOMAIN history : history[i].outcome \in {"ok", "error"}

\* The call passes the parser, the schema and prepare.
Begin ==
    /\ Idle /\ ~collector.closed /\ ~stopped
    /\ Continues /\ Len(history) < MaxCalls
    /\ \E sees \in {world.content, None}, needs \in SUBSET Capabilities,
          breaks \in {{}, {"protected_secret"}, {"limits"}} :
         call' = [phase |-> "prepared",
                  action |-> [sees |-> sees, needs |-> needs,
                              breaks |-> breaks],
                  expected |-> None, shown |-> None, context |-> None,
                  token |-> NoToken, guards |-> None, policy |-> None,
                  approval |-> None, pre |-> <<>>,
                  post |-> 0, attempts |-> 0, effect |-> None,
                  changed |-> FALSE, blank |-> FALSE, failed |-> FALSE]
    /\ UNCHANGED <<collector, history, Surroundings>>

\* Arguments that do not parse or do not fit the schema, or a preparer that
\* raises: an error result and no record; or the preparer sees the stop.
RejectArguments ==
    /\ Idle /\ ~collector.closed /\ ~stopped
    /\ Continues /\ Len(history) < MaxCalls
    /\ history' = Append(history, [outcome |-> "error", token |-> NoToken,
                                   attempts |-> 0, changed |-> FALSE,
                                   blank |-> FALSE])
    /\ UNCHANGED <<collector, call, Surroundings>>

\* The first guard context and, when every guard holds, the policy; then the
\* reservation, which only an exhausted capacity keeps the call from.
Evaluate ==
    /\ call.phase = "prepared"
    /\ LET g      == GuardContext(NoToken)
           guards == EvaluateGuards(call.action, g, None)
       IN \E policy \in IF guards = "passed"
                        THEN {"allow", "deny", "require_approval"}
                        ELSE {"deny"} :
            LET reserves == guards # "max_governed_calls" IN
            /\ call' = [call EXCEPT
                          !.phase = "evaluated", !.guards = guards,
                          !.policy = policy, !.expected = g.scope,
                          !.shown = g, !.context = g,
                          !.token = IF reserves THEN NewToken ELSE NoToken]
            /\ collector' = IF reserves THEN Reserve(NewToken) ELSE collector
    /\ UNCHANGED <<history, Surroundings>>

\* A guard context that cannot be built for the first evaluation is a
\* governance or an observation failure: an error result, no record.
EvaluateFails ==
    /\ call.phase = "prepared"
    /\ EndBare(call, "error")
    /\ UNCHANGED Surroundings

\* Guards failed, or the policy denies.
Deny ==
    /\ call.phase = "evaluated"
    /\ call.policy = "deny"
    /\ FinishRecordedError(call)
    /\ UNCHANGED Surroundings

-----------------------------------------------------------------------------
(***************************************************************************)
(* Approval, for a decision that requires it.                              *)
(***************************************************************************)

\* The fresh guard context of the approval is built before the provider is
\* asked.  A scope that already differs is refused without asking.
RequestApproval ==
    /\ call.phase = "evaluated"
    /\ call.policy = "require_approval"
    /\ LET g == GuardContext(call.token) IN
       \/ /\ ~stopped
          /\ g.scope = call.shown.scope
          /\ call' = [call EXCEPT !.phase = "asking", !.context = g]
          /\ UNCHANGED <<collector, history>>
       \/ /\ ~stopped
          /\ g.scope # call.shown.scope
          /\ FinishRecordedError([call EXCEPT !.approval = "drift"])
    /\ UNCHANGED Surroundings

\* What a provider answers, once its decision is sanitized: an approval of this
\* very action or of another one, a refusal, or no decision at all.
Answers == {"approve", "approve_another", "reject", "unavailable"}

\* What an answer of the provider is worth.  Approving this very action is
\* believed only while the fresh context still offers what the operator was
\* shown and passes every guard.
ApprovalOutcome(answer) ==
    CASE answer = "approve" ->
            IF /\ call.context.offers = call.shown.offers
               /\ EvaluateGuards(call.action, call.context, None) = "passed"
            THEN "approve" ELSE "drift"
      [] answer = "approve_another" -> "identity_mismatch"
      [] OTHER -> answer

\* The provider answers; a stop that came while it was asked wins over any
\* answer.
ApprovalAnswered ==
    /\ call.phase = "asking"
    /\ ~stopped
    /\ \E answer \in Answers :
         LET c == [call EXCEPT !.approval = ApprovalOutcome(answer)]
         IN  IF c.approval = "approve"
             THEN /\ call' = [c EXCEPT !.phase = "pre_hooks"]
                  /\ UNCHANGED <<collector, history>>
             ELSE FinishRecordedError(c)
    /\ UNCHANGED Surroundings

\* An allowed action needs no approval, and is guarded again instead.
Revalidate ==
    /\ call.phase = "evaluated"
    /\ call.policy = "allow"
    /\ LET g      == GuardContext(call.token)
           guards == EvaluateGuards(call.action, g, call.expected)
       IN  IF guards = "passed"
           THEN /\ call' = [call EXCEPT !.phase = "pre_hooks", !.context = g]
                /\ UNCHANGED <<collector, history>>
           ELSE FinishRecordedError([call EXCEPT !.guards = guards,
                                                 !.policy = "deny"])
    /\ UNCHANGED Surroundings

-----------------------------------------------------------------------------
(***************************************************************************)
(* Hooks and the effect.                                                   *)
(***************************************************************************)

\* Did a hook succeed?  One that raises, or returns no valid result, failed.
HookOutcomes == BOOLEAN

\* Mutant: a failed required pre-hook is recorded like an optional one.
PreHookOptional ==
    /\ call.phase = "pre_hooks"
    /\ Len(call.pre) < Len(PreHooks)
    /\ ~stopped
    /\ \E ok \in HookOutcomes : call' = [call EXCEPT !.pre = Append(@, ok)]
    /\ UNCHANGED <<collector, history, Surroundings>>

\* The next pre-hook.  A required one that fails blocks the action.
PreHook ==
    /\ call.phase = "pre_hooks"
    /\ Len(call.pre) < Len(PreHooks)
    /\ ~stopped
    /\ \E ok \in HookOutcomes :
         LET c == [call EXCEPT !.pre = Append(@, ok)] IN
         IF ~ok /\ PreHooks[Len(c.pre)] = "required"
         THEN FinishRecordedError(c)
         ELSE call' = c /\ UNCHANGED <<collector, history>>
    /\ UNCHANGED Surroundings

\* Mutant: the effect boundary trusts the context of the revalidation.
BoundaryOnOldContext ==
    /\ call.phase = "pre_hooks"
    /\ Len(call.pre) = Len(PreHooks)
    /\ LET guards == EvaluateGuards(call.action, call.context, call.expected)
       IN  IF guards = "passed"
           THEN /\ call' = [call EXCEPT !.phase = "admitted"]
                /\ UNCHANGED <<collector, history>>
           ELSE FinishRecordedError([call EXCEPT !.guards = guards,
                                                 !.policy = "deny"])
    /\ UNCHANGED Surroundings

\* The guards hold once more, on a context built now, right before the effect.
EffectBoundary ==
    /\ call.phase = "pre_hooks"
    /\ Len(call.pre) = Len(PreHooks)
    /\ LET g      == GuardContext(call.token)
           guards == EvaluateGuards(call.action, g, call.expected)
       IN  IF guards = "passed"
           THEN /\ call' = [call EXCEPT !.phase = "admitted", !.context = g]
                /\ UNCHANGED <<collector, history>>
           ELSE FinishRecordedError([call EXCEPT !.guards = guards,
                                                 !.policy = "deny"])
    /\ UNCHANGED Surroundings

\* After the reservation, building a guard context may fail: a collector
\* error is an observation failure and anything else escapes; in both cases
\* the reservation stays without a record.
ContextFails ==
    /\ \/ call.phase = "evaluated" /\ call.policy # "deny"
       \/ call.phase = "pre_hooks" /\ Len(call.pre) = Len(PreHooks)
    /\ \E outcome \in {"error", "exception"} : EndBare(call, outcome)
    /\ UNCHANGED Surroundings

\* Mutant: an executor that failed is tried again.
StartOnFailure ==
    /\ \/ call.phase = "admitted"
       \/ call.phase = "post_hooks" /\ call.failed
    /\ ~stopped
    /\ call' = [call EXCEPT !.phase = "executing", !.attempts = @ + 1]
    /\ UNCHANGED <<collector, history, Surroundings>>

\* The last check of the run, and the one call of the executor.
StartExecutor ==
    /\ call.phase = "admitted"
    /\ ~stopped
    /\ call' = [call EXCEPT !.phase = "executing", !.attempts = 1]
    /\ UNCHANGED <<collector, history, Surroundings>>

\* The executor returns a result, or raises.  A typed error says what its
\* effect was; of any other exception nobody knows.  What it says is taken to
\* be true: no effect claimed, nothing changed.  Its diagnostics may be blank.
ExecutorReturns ==
    /\ call.phase = "executing"
    /\ \E kind \in {"result", "typed_error", "error"}, changed, blank \in BOOLEAN :
         \E effect \in IF kind = "error" THEN {"unknown"} ELSE EffectStates :
            LET c == [call EXCEPT !.effect = effect, !.changed = changed,
                                  !.blank = blank,
                                  !.failed = kind # "result"]
            IN  /\ effect = None => ~changed
                /\ IF kind = "result" /\ stopped
                   THEN ControlError(c)
                   ELSE /\ call' = [c EXCEPT !.phase = "post_hooks"]
                        /\ UNCHANGED <<collector, history>>
    /\ UNCHANGED Surroundings

\* The executor notices the stop itself.
ExecutorStopped ==
    /\ call.phase = "executing"
    /\ stopped
    /\ \E changed \in BOOLEAN : ControlError([call EXCEPT !.changed = changed])
    /\ UNCHANGED Surroundings

\* The next post-hook.  Whether it succeeds is data of the record and changes
\* nothing else.
PostHook ==
    /\ call.phase = "post_hooks"
    /\ call.post < PostHooks
    /\ ~stopped
    /\ call' = [call EXCEPT !.post = @ + 1]
    /\ UNCHANGED <<collector, history, Surroundings>>

\* The record of the attempt, then the result: an error when the executor
\* raised or its output could not be sanitized.  A diagnostic that is blank is
\* no valid text of a record: building it raises, out of the registry.
Observe ==
    /\ call.phase = "post_hooks"
    /\ call.post = PostHooks
    /\ IF call.blank
       THEN EndBare(call, "exception")
       ELSE \E outcome \in {"error"} \cup IF call.failed THEN {} ELSE {"ok"} :
               StoreAndEnd(call, call.effect, outcome)
    /\ UNCHANGED Surroundings

\* A stop noticed where the path checks for it, or by the code it calls.
Interrupt ==
    /\ stopped
    /\ \/ call.phase = "prepared"
       \/ call.phase = "evaluated" /\ call.policy # "deny"
       \/ call.phase \in {"asking", "pre_hooks", "admitted"}
       \/ call.phase = "post_hooks" /\ call.post < PostHooks
    \* what run_pre_hooks had gathered is lost when it raises
    /\ \E pre \in IF call.phase # "pre_hooks" THEN {call.pre}
                 ELSE IF Len(call.pre) < Len(PreHooks) THEN {<<>>}
                 ELSE {<<>>, call.pre} :
         ControlError([call EXCEPT !.pre = pre])
    /\ UNCHANGED Surroundings

-----------------------------------------------------------------------------
(***************************************************************************)
(* Around the path.                                                        *)
(***************************************************************************)

\* The run ends between two calls, or because the last one raised: the
\* application closes the collector and keeps its records.
CloseRecords ==
    /\ Idle /\ ~collector.closed
    /\ reported' = collector.records
    /\ collector' = [collector EXCEPT !.reserved = <<>>, !.records = <<>>,
                                      !.closed = TRUE]
    /\ UNCHANGED <<world, drifts, stopped, call, history>>

\* A stop between two calls is met before the next one starts: that run closes.
Stop ==
    /\ ~stopped /\ ~Idle
    /\ stopped' = TRUE
    /\ UNCHANGED <<world, drifts, collector, call, history, reported>>

\* While a call is in flight another process edits the workspace, or the
\* composition rebinds it.
Drift ==
    /\ drifts < MaxDrifts /\ ~Idle
    /\ drifts' = drifts + 1
    /\ \/ \E s \in Scopes \ {world.scope} : world' = [world EXCEPT !.scope = s]
       \/ world' = [world EXCEPT !.contained = ~@]
       \/ \E v \in Versions \ {world.content} :
             world' = [world EXCEPT !.content = v]
       \/ \E C \in SUBSET Capabilities :
             C # world.offers /\ world' = [world EXCEPT !.offers = C]
    /\ UNCHANGED <<stopped, collector, call, history, reported>>

Next ==
    \/ Begin \/ RejectArguments \/ Evaluate \/ EvaluateFails \/ Deny
    \/ RequestApproval \/ ApprovalAnswered \/ Revalidate
    \/ PreHook \/ EffectBoundary \/ ContextFails
    \/ StartExecutor \/ ExecutorReturns \/ ExecutorStopped
    \/ PostHook \/ Observe \/ Interrupt
    \/ CloseRecords \/ Stop \/ Drift

Spec == Init /\ [][Next]_vars

-----------------------------------------------------------------------------
(***************************************************************************)
(* Correctness.                                                            *)
(***************************************************************************)

\* The evidence of the run: in the collector, then with the application.
Evidence == {collector.records[i] : i \in DOMAIN collector.records}
            \cup {reported[i] : i \in DOMAIN reported}

\* Type invariant of the calls, the collector and the world of a run.
TypeOK ==
    /\ world \in Worlds /\ drifts \in 0..MaxDrifts /\ stopped \in BOOLEAN
    /\ \A i \in DOMAIN collector.records : collector.records[i] \in Records
    /\ \A t \in DOMAIN collector.reserved : collector.reserved[t] \in BOOLEAN
    /\ collector.complete \in BOOLEAN /\ collector.closed \in BOOLEAN
    /\ ~Idle => /\ call.action \in Actions
                /\ call.attempts \in 0..1 /\ call.effect \in EffectStates
                /\ call.phase # "prepared" => call.context \in Contexts
                /\ call.phase \in {"prepared", "evaluated", "asking", "pre_hooks",
                                   "admitted", "executing", "post_hooks"}
    /\ \A i \in DOMAIN history : history[i].outcome \in Outcomes

\* No effect is concealed: a call that changed something has left a record of
\* one attempt with an effect, under a reservation no other call shares, or the
\* run knows its records are incomplete.  The model sees success only from an
\* attempt that is recorded.  Calls with a blank diagnostic are the subject of
\* AttemptsLeaveEvidence.
EffectsAccounted ==
    \A i \in DOMAIN history :
        LET recorded == {r \in Evidence : r.token = history[i].token /\ r.attempts = 1} IN
        /\ history[i].changed /\ ~history[i].blank =>
              ~collector.complete \/ \E r \in recorded : r.effect # None
        /\ history[i].outcome = "ok" => recorded # {}
        /\ history[i].token # NoToken =>
              \A j \in DOMAIN history \ {i} : history[j].token # history[i].token

\* Every record of an attempt shows the authority for it: all guards passed,
\* the policy allowed the action or its operator approved it, every pre-hook
\* ran and no required one failed.  A record without an attempt belongs to a
\* call that changed nothing.  A run attempts no more effects than its capacity
\* admits, and refuses for capacity no call that has its reservation.
AuthorisedEffects ==
    /\ \A r \in Evidence :
        /\ r.attempts = 1 =>
              /\ r.guards = "passed"
              /\ \/ r.policy = "allow"
                 \/ r.policy = "require_approval" /\ r.approval = "approve"
              /\ Len(r.pre) = Len(PreHooks)
              /\ \A h \in DOMAIN PreHooks : PreHooks[h] = "required" => r.pre[h]
        /\ r.attempts = 0 =>
              \A i \in DOMAIN history :
                 history[i].token = r.token => ~history[i].changed
        /\ r.guards # "max_governed_calls"
    /\ Cardinality({i \in DOMAIN history : history[i].attempts = 1}) <= MaxGovernedCalls

\* At the effect boundary the live world still admits the action: the scope
\* and content it was guarded and approved for, the path contained, every
\* required capability offered, whatever happened while the operator thought
\* and the hooks ran.
NoStaleEffect ==
    [][call'.phase = "admitted" /\ call.phase # "admitted" =>
          /\ world.scope = call.shown.scope
          /\ world.contained
          /\ call.action.sees \in {None, world.content}
          /\ call.action.needs \subseteq world.offers]_vars

\* What the boundary promises of every attempt, whatever the executor raised:
\* a record of it, or records known to be incomplete.
AttemptsLeaveEvidence ==
    \A i \in DOMAIN history :
        history[i].attempts = 1 =>
            \/ ~collector.complete
            \/ \E r \in Evidence : r.token = history[i].token /\ r.attempts = 1
=============================================================================
