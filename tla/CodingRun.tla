----------------------------- MODULE CodingRun -----------------------------
(***************************************************************************)
(* CodingAgentApplication.run (src/dqagent/coding.py): one coding request  *)
(* through RunCoordinator.execute, from the baseline snapshot through the  *)
(* agent's governed calls and the final snapshot to the configured         *)
(* validators (validators.py) and the task verdict derived from them.      *)
(*                                                                         *)
(*  idle -> targets -> baseline -> repository -> context -> agent          *)
(*       -> final -> validate (once per definition) -> verdict -> finish   *)
(*                                                                         *)
(* A failure while the agent runs goes through "salvage", which keeps the  *)
(* records and tries a last snapshot; every failure ends in "failing".     *)
(* The application's lock admits one run at a time.  The workspace is open *)
(* to others all along, and what somebody changed somebody may change      *)
(* back.  Of its content the model keeps one value for each scope that the *)
(* verdict asks about, of a snapshot the scopes it has no blind spot in.   *)
(* How a governed call is authorised and recorded is GovernedAction, how a *)
(* snapshot walks the files is Observer, how a validator's process is run  *)
(* is Subprocess.                                                          *)
(***************************************************************************)
EXTENDS Naturals, Sequences, FiniteSets, SequencesExt

CONSTANTS Suites,          \* the configurable validators: sequences of their ids
          Configured,      \* the application's own observation limitations
          MaxLimitations,  \* _MAX_EVIDENCE_LIMITATIONS
          MaxCalls,        \* max_governed_calls
          Contents,        \* what the files of a scope may hold, as a whole
          Original,        \* what they hold when the run begins
          Clears,          \* bound: the scopes each snapshot may see without a blind spot
          None

Scopes == {"target", "forbidden"}
States == [Scopes -> Contents]
Snapshots == UNION {[clear -> Contents] : clear \in SUBSET Scopes}

\* What the constructor of the application accepts.  _normalize_validators
\* takes any definitions, also two of one ID.
CodingAssumption ==
    /\ Suites \subseteq Seq(STRING)
    /\ Original \in Contents
    /\ Configured \in Seq(STRING)         \* _normalize_limitations
    /\ MaxLimitations \in Nat /\ Len(Configured) <= MaxLimitations
    /\ MaxCalls \in Nat \ {0}
    /\ Clears \in [{"baseline", "final"} -> SUBSET SUBSET Scopes]
    /\ None \notin Snapshots

ASSUME CodingAssumption

VARIABLES
    pc,
    stop,           \* what check_active raises: a cancellation outranks the deadline
    definitions,    \* the validators of the application, by their ids
    world,          \* what the workspace holds, scope by scope
    since,          \* history: who has written since the final snapshot
    touched,        \* history: has a governed call changed the workspace?
    attempts,       \* history: the kinds of governed calls that reached an executor,
                    \* and whether the run has their records
    collected,      \* the effects recorded in the collector, then in action_records
    toolComplete,   \* ToolExecutionContext.action_record_collection_complete
    complete,       \* _CodingRunState.action_record_collection_complete
    limitations,    \* _CodingRunState.observation_limitations
    baseline, final, diff,
    raw,            \* raw_validator_results, and the process each is of
    ran,            \* history: the validator processes, and whether each was
                    \* started on what the diff shows
    results, verdict,
    err,            \* the error on its way to the coordinator
    escaped,        \* an error that left the registry without any record
    terminal, answer

workspace == <<world, since, touched>>
evidence == <<collected, toolComplete, complete, limitations>>
snapshots == <<baseline, final, diff>>
validation == <<raw, ran, results, verdict>>
outcome == <<err, terminal, answer>>
vars == <<pc, stop, definitions, workspace, attempts, escaped,
          evidence, snapshots, validation, outcome>>

Editors == {"call", "other"}
Effects == {"none", "complete", "unknown"}       \* "partial" is as known as "complete"
\* Six statuses say nothing of the code under test: unusable is CANCELLED,
\* TIMED_OUT, UNAVAILABLE, CAPABILITY_MISSING and ERROR.
NotPassed == {"unusable", "not_run"}
Statuses == NotPassed \cup {"passed", "failed"}
Errors == {"cancelled", "deadline", "failed"}
Answers == [id : STRING, status : Statuses, process : Nat]
Processes == [id : STRING, shown : BOOLEAN, clean : BOOLEAN]
RecordsMissing == "action_record_collection_unavailable"
Limitations == Range(Configured) \cup
    {RecordsMissing, "failure_final_observation_unavailable", "rendered_diff_incomplete"}

TypeOK ==
    /\ pc \in {"idle", "targets", "baseline", "repository", "context", "agent",
               "salvage", "final", "validate", "verdict", "finish", "failing", "ended"}
    /\ stop \in {None, "cancelled", "deadline"}
    /\ definitions \in Suites
    /\ world \in States /\ since \subseteq Editors /\ touched \in BOOLEAN
    /\ attempts \subseteq [effect : Effects, recorded : BOOLEAN]
    /\ collected \subseteq Effects
    /\ toolComplete \in BOOLEAN /\ complete \in BOOLEAN /\ escaped \in BOOLEAN
    /\ limitations \in Seq(Limitations) /\ Len(limitations) <= MaxLimitations
    /\ {baseline, final} \subseteq Snapshots \cup {None}
    /\ diff # None => diff.changes \subseteq diff.clear /\ diff.clear \subseteq Scopes
    /\ raw \in Seq(Answers) /\ ran \in Seq(Processes)
    /\ results # None => results \in [DOMAIN definitions -> Statuses]
    /\ verdict \in {None, "passed", "failed", "indeterminate", "not_validated"}
    /\ err \in Errors \cup {None}
    /\ terminal \in {"none", "completed", "cancelled", "timed_out", "failed"}
    /\ answer \in {"none", "result", "error", "bare"}

Init ==
    /\ pc = "idle"
    /\ stop = None
    /\ definitions \in Suites
    /\ world = [scope \in Scopes |-> Original] /\ since = {} /\ touched = FALSE
    /\ attempts = {} /\ escaped = FALSE
    /\ collected = {} /\ toolComplete = TRUE /\ complete = TRUE
    /\ limitations = << >>
    /\ baseline = None /\ final = None /\ diff = None
    /\ raw = << >> /\ ran = << >> /\ results = None /\ verdict = None
    /\ err = None /\ terminal = "none" /\ answer = "none"

----------------------------------------------------------------------------
(* Helpers *)

Stopped == stop # None

Goto(to) == pc' = to
\* An exception on its way out of _execute.
Raise(error) == Goto("failing") /\ err' = error

\* tuple(dict.fromkeys(values)): the first occurrence of each value, in order.
Distinct(values) ==
    LET first == {i \in DOMAIN values : \A j \in 1 .. i - 1 : values[j] # values[i]}
        Place(i) == Cardinality({j \in first : j <= i})
    IN [n \in 1 .. Cardinality(first) |-> values[CHOOSE i \in first : Place(i) = n]]

\* _append_limitation, and _execute on the way to the verdict: at most the bound.
Bounded(values) ==
    LET kept == Distinct(values)
    IN SubSeq(kept, 1, IF Len(kept) < MaxLimitations THEN Len(kept) ELSE MaxLimitations)

\* Somebody leaves the workspace other than it was, perhaps as it once was.
Write(who) ==
    /\ world' \in States \ {world}
    /\ since' = IF final = None THEN since ELSE since \cup {who}

\* A snapshot sees the workspace as it is; what it could not read, or was
\* stopped before, is a blind spot in any of the scopes, and what it shows of
\* such a scope is left out.
TakenNow(phase) == {Restrict(world, clear) : clear \in Clears[phase]}

\* WorkspaceObserver.diff: a scope is clear if it is so in both snapshots.
Diff(before, after) ==
    LET clear == DOMAIN before \cap DOMAIN after
    IN [changes |-> {scope \in clear : before[scope] # after[scope]}, clear |-> clear]

\* _normalize_validator_results: one slot for each definition, in order.
Normalise(returned) ==
    LET Matches(id) == {k \in DOMAIN returned : returned[k].id = id}
    IN [i \in DOMAIN definitions |->
          IF Cardinality(Matches(definitions[i])) = 1
          THEN returned[CHOOSE k \in Matches(definitions[i]) : TRUE].status
          ELSE "not_run"]

\* Mutant of DeriveVerdict: validators that all passed are asked for first.
OptimisticVerdict(statuses, observed, effectUnknown) ==
    LET all == Range(statuses)
    IN IF "failed" \in all THEN "failed"
       ELSE IF all = {"passed"} THEN "passed"
       ELSE IF ~observed \/ effectUnknown \/ all # {} THEN "indeterminate"
       ELSE "not_validated"

\* derive_task_verdict: a failure outweighs what is not known.
DeriveVerdict(statuses, observed, effectUnknown) ==
    LET all == Range(statuses)
    IN IF "failed" \in all THEN "failed"
       ELSE IF ~observed \/ effectUnknown \/ all \cap NotPassed # {}
            THEN "indeterminate"
       ELSE IF all = {} THEN "not_validated" ELSE "passed"

----------------------------------------------------------------------------
(* run, up to the agent *)

\* run: a child of the caller's context, or the stopped context itself, so
\* that the coordinator reports the stop.  The deadline may pass while the
\* child is made: its ValueError reaches the caller without any event.
Begin ==
    /\ pc = "idle"
    /\ \/ /\ IF Stopped THEN Raise(stop) ELSE Goto("targets") /\ UNCHANGED err
          /\ UNCHANGED answer
       \/ /\ stop = "deadline"
          /\ answer' = "bare" /\ Goto("ended") /\ UNCHANGED err
    /\ UNCHANGED <<stop, definitions, workspace, attempts, escaped, terminal,
                   evidence, snapshots, validation>>

\* _validate_request_targets: a target outside the workspace is refused.
ValidateTargets ==
    /\ pc = "targets"
    /\ \/ Goto("baseline") /\ UNCHANGED err
       \/ Raise("failed")
    /\ UNCHANGED <<stop, definitions, workspace, attempts, escaped, terminal,
                   answer, evidence, snapshots, validation>>

\* _capture_snapshot does not raise for a stop, only for a broken observer.
CaptureBaseline ==
    /\ pc = "baseline"
    /\ \/ baseline' \in TakenNow("baseline") /\ Goto("repository") /\ UNCHANGED err
       \/ Raise("failed") /\ UNCHANGED baseline
    /\ UNCHANGED <<stop, definitions, workspace, attempts, escaped, terminal,
                   answer, evidence, final, diff, validation>>

\* RepositoryContextLoader.load with mandatory=False.
LoadRepository ==
    /\ pc = "repository"
    /\ \/ Goto("context") /\ UNCHANGED err
       \/ Raise("failed")
    /\ UNCHANGED <<stop, definitions, workspace, attempts, escaped, terminal,
                   answer, evidence, snapshots, validation>>

\* ContextBuilder.build checks the context and may find no room.
BuildContext ==
    /\ pc = "context"
    /\ \/ Stopped /\ Raise(stop)
       \/ ~Stopped /\ Raise("failed")
       \/ ~Stopped /\ Goto("agent") /\ UNCHANGED err
    /\ UNCHANGED <<stop, definitions, workspace, attempts, escaped, terminal,
                   answer, evidence, snapshots, validation>>

----------------------------------------------------------------------------
(* The agent's governed calls *)

\* What a governed call may have done, and what it says it did: only "none"
\* says how it left the workspace.  A command is complete with exit code 0,
\* whatever it did.
Attempts == {a \in [effect : Effects, touches : BOOLEAN] :
               a.effect = "none" => ~a.touches}

\* A call reaches its executor and its record the collector; if it cannot be
\* stored, append_action_record clears its context's flag.  A record that
\* cannot even be built leaves by a ValueError, and no flag is cleared.
ToolCall ==
    /\ pc = "agent" /\ ~Stopped /\ ~escaped
    /\ Cardinality(attempts) < MaxCalls
    /\ \E a \in Attempts, fate \in {"stored", "refused", "unbuilt"} :
         /\ attempts' = attempts \cup {[effect |-> a.effect, recorded |-> fate = "stored"]}
         /\ touched' = (touched \/ a.touches)
         /\ IF a.touches THEN Write("call") ELSE UNCHANGED <<world, since>>
         /\ collected' = IF fate = "stored" THEN collected \cup {a.effect} ELSE collected
         /\ toolComplete' = (toolComplete /\ fate # "refused")
         /\ escaped' = (fate = "unbuilt")
    /\ UNCHANGED <<pc, stop, definitions, complete, limitations,
                   snapshots, validation, outcome>>

\* Mutant of MergeCollection: only the verdict's flag is merged.
MergeFlagOnly ==
    /\ complete' = (complete /\ toolComplete)
    /\ UNCHANGED <<limitations, collected, toolComplete, attempts>>

\* _merge_action_record_collection_state and _close_records.  A collector that
\* does not close hands over nothing.  (The one the run makes for itself is
\* closed once and so always does; the code provides for others.)
MergeCollection ==
    \E closes \in BOOLEAN :
      /\ complete' = (complete /\ toolComplete /\ closes)
      /\ limitations' = IF toolComplete /\ closes THEN limitations
                        ELSE Bounded(Append(limitations, RecordsMissing))
      /\ collected' = IF closes THEN collected ELSE {}
      /\ attempts' = IF closes THEN attempts
                     ELSE {[a EXCEPT !.recorded = FALSE] : a \in attempts}
      /\ UNCHANGED toolComplete

AgentAnswers ==
    /\ pc = "agent" /\ ~Stopped /\ ~escaped
    /\ MergeCollection
    /\ Goto("final")
    /\ UNCHANGED <<stop, definitions, workspace, escaped, err, terminal,
                   answer, snapshots, validation>>

\* The loop runs out of iterations, the context is stopped, or the client
\* fails, with an error of its own that may also say "cancelled".
AgentFails ==
    /\ pc = "agent"
    /\ MergeCollection
    /\ err' \in Errors
    /\ Goto("salvage")
    /\ UNCHANGED <<stop, definitions, workspace, escaped, terminal,
                   answer, snapshots, validation>>

\* _attempt_failure_observation: only for a run that is active and has
\* targets; whatever goes wrong in it becomes a limitation.
Salvage ==
    /\ pc = "salvage"
    /\ \/ UNCHANGED <<final, diff, limitations>>     \* no targets, or stopped
       \/ /\ ~Stopped
          /\ \/ /\ final' \in TakenNow("final")
                /\ diff' = Diff(baseline, final')
                /\ UNCHANGED limitations
             \/ /\ \/ final' \in TakenNow("final")
                   \/ UNCHANGED final
                /\ limitations' = Bounded(Append(limitations,
                                     "failure_final_observation_unavailable"))
                /\ UNCHANGED diff
    /\ Goto("failing")
    /\ UNCHANGED <<stop, definitions, workspace, attempts, escaped, err, terminal,
                   answer, baseline, collected, toolComplete, complete, validation>>

----------------------------------------------------------------------------
(* The final snapshot, the validators and the verdict *)

CaptureFinal ==
    /\ pc = "final"
    /\ \/ /\ final' \in TakenNow("final")
          /\ diff' = Diff(baseline, final')
          /\ since' = {}
          /\ Goto("validate") /\ UNCHANGED err
       \/ Raise("failed") /\ UNCHANGED <<final, diff, since>>
    /\ UNCHANGED <<stop, definitions, world, touched, attempts, escaped, terminal,
                   answer, baseline, evidence, validation>>

\* Which statuses a subprocess result may end in: ValidatorRunner
\* ._from_subprocess.  Only a process that ended by itself with an accepted
\* code, and was cleaned up after, has passed.
FromSubprocess(exited, accepted, cleaned) ==
    IF exited THEN IF accepted /\ cleaned THEN {"passed"} ELSE {"failed"}
    ELSE {"unusable"}

\* No governed call has come after the final snapshot, and unless an editor or
\* a validator has, the workspace is the baseline with the changes of the diff.
AsShown ==
    /\ "call" \notin since
    /\ since = {} => \A scope \in diff.clear :
                       world[scope] # baseline[scope] <=> scope \in diff.changes

\* run and run_one: the context is checked, an artifact path, a capability
\* or the directory may be missing, then the process is run.
Validate ==
    /\ pc = "validate" /\ Len(raw) < Len(definitions)
    /\ LET id == definitions[Len(raw) + 1]
           Answered(status, process) ==
             raw' = Append(raw, [id |-> id, status |-> status, process |-> process])
       IN \/ Answered("unusable", 0) /\ UNCHANGED <<world, since, ran>>
          \/ /\ ~Stopped
             /\ \E exited, accepted, cleaned \in BOOLEAN :
                  /\ \E status \in FromSubprocess(exited, accepted, cleaned) :
                       Answered(status, Len(ran) + 1)
                  /\ ran' = Append(ran, [id |-> id, shown |-> AsShown,
                                clean |-> exited /\ accepted /\ cleaned])
             /\ Write("other") \/ UNCHANGED <<world, since>>
    /\ UNCHANGED <<pc, stop, definitions, touched, attempts, escaped, evidence,
                   snapshots, results, verdict, outcome>>

\* ValidatorRunner answers every definition in order; another configured runner
\* may return fewer results, or more.
Returned == {SubSeq(raw, 1, n) : n \in 0 .. Len(raw)}
                \cup {Append(raw, again) : again \in Range(raw)}

ValidatorsDone ==
    /\ pc = "validate" /\ Len(raw) = Len(definitions)
    /\ \/ /\ raw' \in Returned
          /\ results' = Normalise(raw')
          /\ Goto("verdict") /\ UNCHANGED err
       \/ /\ \E error \in Errors : Raise(error)
          /\ UNCHANGED <<raw, results>>
    /\ UNCHANGED <<stop, definitions, workspace, attempts, escaped, terminal, answer,
                   evidence, snapshots, ran, verdict>>

Observed == Scopes \subseteq diff.clear /\ complete

Decide ==
    /\ pc = "verdict"
    /\ \E cut \in {<< >>, <<"rendered_diff_incomplete">>} :
         limitations' = Bounded(Configured \o limitations \o cut)
    /\ verdict' = DeriveVerdict(results, Observed, "unknown" \in collected)
    /\ Goto("finish")
    /\ UNCHANGED <<stop, definitions, workspace, attempts, escaped, collected,
                   toolComplete, complete, snapshots, raw, ran, results, outcome>>

----------------------------------------------------------------------------
(* The coordinator's two ends *)

\* execute checks the context once more: a result is not returned after it.
Finish ==
    /\ pc = "finish"
    /\ IF Stopped
       THEN Raise(stop) /\ UNCHANGED <<terminal, answer>>
       ELSE /\ terminal' = "completed" /\ answer' = "result"
            /\ Goto("ended") /\ UNCHANGED err
    /\ UNCHANGED <<stop, definitions, workspace, attempts, escaped, evidence,
                   snapshots, validation>>

\* The control errors keep their kind; run attaches the state's evidence.
ReportFailure ==
    /\ pc = "failing"
    /\ terminal' = CASE err = "cancelled" -> "cancelled"
                     [] err = "deadline" -> "timed_out"
                     [] OTHER -> "failed"
    /\ answer' = "error"
    /\ Goto("ended")
    /\ UNCHANGED <<stop, definitions, workspace, attempts, escaped, err, evidence,
                   snapshots, validation>>

Run == \/ Begin \/ ValidateTargets \/ CaptureBaseline \/ LoadRepository \/ BuildContext
       \/ ToolCall \/ AgentAnswers \/ AgentFails \/ Salvage
       \/ CaptureFinal \/ Validate \/ ValidatorsDone \/ Decide
       \/ Finish \/ ReportFailure

----------------------------------------------------------------------------
(* The environment *)

\* What happens after the run has failed is seen by nothing in it.
Observable == pc \notin {"failing", "ended"}
Others == UNCHANGED <<pc, definitions, touched, attempts, escaped, evidence,
                      snapshots, validation, outcome>>

Cancel ==
    /\ Observable /\ stop # "cancelled"
    /\ stop' = "cancelled"
    /\ UNCHANGED <<world, since>> /\ Others
Expire ==
    /\ Observable /\ stop = None
    /\ stop' = "deadline"
    /\ UNCHANGED <<world, since>> /\ Others

\* Another process, or another application, changes the workspace, or undoes
\* what was changed: between the baseline, of which an earlier edit would be
\* part, and the last validator.
OutsideEdit ==
    /\ pc \in {"repository", "context", "agent", "salvage", "final", "validate"}
    /\ Write("other")
    /\ UNCHANGED stop /\ Others

Done == pc = "ended" /\ UNCHANGED vars

Next == Run \/ Cancel \/ Expire \/ OutsideEdit \/ Done

Spec == Init /\ [][Next]_vars
----------------------------------------------------------------------------
(* Properties *)

\* A verdict "passed" that reached the caller was earned: something was
\* validated, the one answer for each ID is that of a process that ended
\* accepted and clean, and no definition was without a process of its own; only
\* where two share an ID, and a runner that is not ValidatorRunner answered
\* fewer than it was asked, does one answer stand for both.  No governed call
\* came between the final snapshot and a validator, and unless somebody else
\* wrote, the validator was started on just what the diff shows.  Nothing is
\* known to be unknown: the scopes were seen, every call was recorded, and no
\* record leaves its effect open (docs/architecture.md on task verdicts;
\* derive_task_verdict and _normalize_validator_results).
EachPassed ==
    /\ definitions # << >>
    /\ \A id \in Range(definitions) :
         \E k \in DOMAIN raw :
            /\ \A j \in DOMAIN raw : raw[j].id = id <=> j = k
            /\ raw[k].process \in DOMAIN ran
            /\ ran[raw[k].process].id = id /\ ran[raw[k].process].clean
    /\ IF IsInjective(definitions) THEN IsInjective([p \in DOMAIN ran |-> ran[p].id])
                                   ELSE Len(raw) < Len(definitions)
    /\ \A process \in Range(ran) : process.shown

NothingOpen ==
    /\ Scopes \subseteq DOMAIN baseline \cap DOMAIN final
    /\ \A a \in attempts : a.recorded /\ a.effect # "unknown"

PassedIsEarned == answer = "result" /\ verdict = "passed" => EachPassed /\ NothingOpen

\* What a run leaves behind, with its result or on its error, hides no call:
\* every call that reached an executor has its record in it or the limitations
\* say that records are missing, and where they do not and no record claims an
\* effect, no call has changed anything.  The limitation itself needs room in
\* the bounded list, and an error that escapes the registry is the finding of
\* GovernedAction.
Disclosed ==
    (\E a \in attempts : ~a.recorded)
        => RecordsMissing \in Range(limitations)

EffectsAdmitted ==
    touched => collected \ {"none"} # {} \/ RecordsMissing \in Range(limitations)

EvidenceIsHonest ==
    answer \in {"result", "error"} /\ ~escaped /\ Len(Configured) < MaxLimitations
        => Disclosed /\ EffectsAdmitted
=============================================================================
