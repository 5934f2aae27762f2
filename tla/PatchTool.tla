----------------------------- MODULE PatchTool ------------------------------
(***************************************************************************)
(* One call of the workspace patch tool (src/dqagent/coding_tools.py), for *)
(* one target: prepare the action, compare the preconditions once more     *)
(* when the guards run, then execute it.  Each file system operation is a  *)
(* step, and others change the files between any two of them.              *)
(*                                                                         *)
(* The elapsed budget of the call, or a stop of the run, may end it at     *)
(* every budget.check; an error carries the effect state the code claims.  *)
(***************************************************************************)
EXTENDS WorkspaceFiles

CONSTANTS Target,      \* the path the call names
          Temp,        \* where mkstemp puts the temporary file: the same directory
          Operations,  \* the operations a call may ask for
          Requests,    \* the digests (contents) a call may expect
          Patched,     \* Patched[c]: c after the replacements, or None
          Created,     \* the content a create writes
          Empty,       \* the content of a file just opened for writing
          MaxPatchBytes

ASSUME PatchToolAssumption ==
    /\ {Target, Temp} \subseteq Paths \ {Root} /\ Parent[Temp] = Parent[Target]
    /\ Temp # Target /\ Temp \notin Editable             \* the name is a fresh one
    /\ \A f \in InitialFiles : f[Temp].kind = "missing"
    /\ Operations \subseteq {"create", "update", "delete"}
    /\ Requests \subseteq Contents /\ {Created, Empty} \subseteq Contents
    /\ Patched \in [Contents -> Contents \cup {None}]
    /\ MaxPatchBytes \in Nat

VARIABLE call

\* EffectState; an error of the run itself is raised and carries none.
EffectStates == {"none", "partial", "complete", "unknown", "raised"}

NoCall == [step |-> "none", stage |-> "none", operation |-> "none", expected |-> None,
           resolved |-> None, raw |-> None, handle |-> None, effect |-> None,
           did |-> "nothing", wrote |-> None, lost |-> None, left |-> FALSE,
           checkedAt |-> 0]

PatchInit == call = NoCall

Calls ==
    [step : {"none", "resolve", "read", "confirm", "guard", "recheck", "temp", "write",
             "replace", "open", "fill", "remove", "returned"},
     stage : {"none", "prepare", "execute"},
     operation : Operations \cup {"none"},
     expected : Contents \cup {None}, raw : Contents \cup {None},
     resolved : Signature \cup {None}, handle : Nat \cup {None},
     effect : EffectStates \cup {None},
     did : {"nothing", "opened", "created", "replaced", "removed"},
     wrote : Contents \cup {None}, lost : Node \cup {None}, left : BOOLEAN,
     checkedAt : Nat]

Goto(step) == call' = [call EXCEPT !.step = step]

\* The call is over, with the effect state its result or error carries; a
\* control error of the run is raised and carries none.
Outcome(c, effect) == call' = [c EXCEPT !.step = "returned", !.effect = effect,
                                        !.resolved = None, !.raw = None, !.handle = None]
Ends(effect) == Outcome(call, effect)

\* budget.check(effect_state=...).
OutOfTime(effect) == Ends(effect) \/ Ends("raised")

Unchanged == UNCHANGED files

TooLarge(c) == Size[c] > MaxPatchBytes

-----------------------------------------------------------------------------
(* _prepare_patch and the first half of _execute_patch_*: the same steps,  *)
(* with the same errors, none of which has had an effect.                  *)

Ask == /\ call.step = "none"
       /\ \E operation \in Operations, expected \in Requests :
            call' = [NoCall EXCEPT !.step = "resolve", !.stage = "prepare",
                                   !.operation = operation,
                                   !.expected = IF operation = "create" THEN None ELSE expected]
       /\ Unchanged

\* _resolve_patch_target.
Suits == Resolves(Target) /\ (Present(Target) <=> call.operation # "create")

ResolveTarget ==
    /\ call.step = "resolve"
    /\ \/ OutOfTime("none")
       \/ ~Suits /\ Ends("none")
       \/ /\ Suits
          /\ call' = [call EXCEPT !.resolved = Resolved(Target),
                        !.step = IF call.operation = "create" THEN "confirm" ELSE "read"]
    /\ Unchanged

\* _read_patch_bytes: opens the resolved path, whatever it is by now.
ReadTarget(fault) ==
    /\ call.step = "read"
    /\ \/ OutOfTime("none")
       \/ (fault \/ fs[Target].kind # "regular") /\ Ends("none")
       \/ /\ fs[Target].kind = "regular" /\ ~fault
          /\ IF TooLarge(fs[Target].content) THEN Ends("none")
             ELSE call' = [call EXCEPT !.raw = fs[Target].content, !.step = "confirm"]
    /\ Unchanged

\* What the patch makes of the bytes read: None when a replacement does not
\* occur as often as it should, or the result is too large.
Produces == CASE call.operation = "create" -> Created
              [] call.operation = "update" -> Patched[call.raw]
              [] OTHER -> Empty
Applies == Produces # None /\ ~TooLarge(Produces)

\* Revalidate, compare the digest of what was read, apply the replacements.
Confirm ==
    /\ call.step = "confirm"
    /\ LET ok == /\ StillResolves(Target, call.resolved)
                 /\ call.raw = call.expected /\ Applies
       IN  \/ OutOfTime("none")
           \/ ~ok /\ Ends("none")
           \/ /\ ok
              /\ IF call.stage = "prepare"
                 THEN call' = [call EXCEPT !.step = "guard", !.resolved = None, !.raw = None]
                 ELSE call' = [call EXCEPT !.checkedAt = clock,
                                 !.step = IF call.operation = "create" THEN "open" ELSE "recheck"]
    /\ Unchanged

\* _patch_current_preconditions, when the guards evaluate the prepared action:
\* the digest of the target is read again and must be the one prepared.
Guard ==
    /\ call.step = "guard"
    /\ LET same == /\ Suits
                   /\ call.expected = fs[Target].content
       IN  \/ ~same /\ Ends("none")
           \/ OutOfTime("none")
           \/ same /\ call' = [call EXCEPT !.step = "resolve", !.stage = "execute"]
    /\ Unchanged

\* Mutant of Recheck: no second revalidation after the bytes were taken.
RecheckNothing ==
    /\ call.step = "recheck"
    /\ call' = [call EXCEPT !.checkedAt = clock,
                            !.step = IF call.operation = "update" THEN "temp" ELSE "remove"]
    /\ Unchanged

\* The revalidation immediately before the effect.
Recheck ==
    /\ call.step = "recheck"
    /\ \/ OutOfTime("none")
       \/ ~StillResolves(Target, call.resolved) /\ Ends("none")
       \/ /\ StillResolves(Target, call.resolved)
          /\ call' = [call EXCEPT !.checkedAt = clock,
                        !.step = IF call.operation = "update" THEN "temp" ELSE "remove"]
    /\ Unchanged

-----------------------------------------------------------------------------
(* _write_patch_temp_and_replace.                                          *)

RemoveTemp == IF Present(Temp) THEN Put(Temp, Gone(clock + 1)) ELSE UNCHANGED <<fs, clock>>

\* Mutant of FailsWithTemp: a temporary file left behind is not reported.
FailsWithTempSilently(effect, cleaned) ==
    /\ Outcome([call EXCEPT !.left = ~cleaned], effect)
    /\ IF cleaned THEN RemoveTemp ELSE UNCHANGED <<fs, clock>>
    /\ UNCHANGED edits
\* cleanup_once, and an error whose effect is partial when a file stays behind.
FailsWithTemp(effect, cleaned) ==
    /\ Outcome([call EXCEPT !.left = ~cleaned],
               IF effect = "none" /\ ~cleaned THEN "partial" ELSE effect)
    /\ IF cleaned THEN RemoveTemp ELSE UNCHANGED <<fs, clock>>
    /\ UNCHANGED edits

\* The unlink of a file that exists may fail.
Cleanable == IF Present(Temp) THEN BOOLEAN ELSE {TRUE}

\* Any control error in here is an update that failed, with unknown effect.
MakeTemp(fault) ==
    /\ call.step = "temp"
    /\ \/ (Ends("none") \/ Ends("unknown")) /\ Unchanged
       \/ (fault \/ fs[Parent[Temp]].kind # "directory") /\ Ends("none") /\ Unchanged
       \/ /\ fs[Parent[Temp]].kind = "directory" /\ ~fault
          /\ Put(Temp, File(clock + 1, Empty)) /\ UNCHANGED edits
          /\ call' = [call EXCEPT !.handle = clock + 1, !.step = "write"]

\* fdopen, write and close; each is preceded by a check of the budget.
WriteTemp(cleaned) ==
    /\ call.step = "write"
    /\ \/ cleaned \in Cleanable /\ \E effect \in {"none", "unknown"} : FailsWithTemp(effect, cleaned)
       \/ /\ cleaned /\ Goto("replace")
          /\ IF fs[Temp].stamp = call.handle
             THEN fs' = [fs EXCEPT ![Temp].content = Produces] ELSE UNCHANGED fs
          /\ UNCHANGED <<clock, edits>>

\* os.replace, and the checks after it, which no longer know what to claim.
Replace(fault, cleaned) ==
    /\ call.step = "replace"
    /\ LET can == Present(Temp) /\ fs[Target].kind # "directory"
           gone == [call EXCEPT !.did = "replaced", !.wrote = fs[Temp].content,
                                !.lost = fs[Target]]
       IN  \/ \E effect \in {"none", "unknown"} :   \* budget.check before it
                cleaned \in Cleanable /\ ~fault /\ FailsWithTemp(effect, cleaned)
           \/ /\ (fault \/ ~can) /\ cleaned \in Cleanable
              /\ FailsWithTemp("unknown", cleaned)
           \/ /\ can /\ ~fault /\ cleaned
              /\ fs' = [fs EXCEPT ![Target] = File(clock + 1, fs[Temp].content),
                                  ![Temp] = Gone(clock + 1)]
              /\ clock' = clock + 1 /\ UNCHANGED edits
              /\ \E effect \in {"complete", "unknown", "raised"} : Outcome(gone, effect)

-----------------------------------------------------------------------------
(* The effects of a create and of a delete.                                *)

\* os.open with O_EXCL: from here on the file exists.
OpenNew(fault) ==
    /\ call.step = "open"
    /\ LET can == ~Present(Target) /\ fs[Parent[Target]].kind = "directory"
       IN  \/ (OutOfTime("none") \/ ((fault \/ ~can) /\ Ends("none"))) /\ Unchanged
           \/ /\ can /\ ~fault
              /\ Put(Target, File(clock + 1, Empty)) /\ UNCHANGED edits
              /\ call' = [call EXCEPT !.step = "fill", !.handle = clock + 1, !.did = "opened",
                                      !.wrote = Empty]

\* Write and close; a failure leaves the file, empty or whole, and says partial.
FillNew ==
    /\ call.step = "fill"
    /\ \/ (\E effect \in {"partial", "raised"} : Ends(effect)) /\ Unchanged
       \/ /\ IF fs[Target].stamp = call.handle
             THEN fs' = [fs EXCEPT ![Target].content = Created] ELSE UNCHANGED fs
          /\ UNCHANGED <<clock, edits>>
          /\ \E effect \in {"complete", "partial", "unknown", "raised"} :
                Outcome([call EXCEPT !.did = "created", !.wrote = Created], effect)

\* os.remove of whatever the path is by now.
RemoveTarget(fault) ==
    /\ call.step = "remove"
    /\ LET can == fs[Target].kind \in {"regular", "link"}
       IN  \/ (fault \/ ~can) /\ Ends("unknown") /\ Unchanged
           \/ /\ can /\ ~fault
              /\ Put(Target, Gone(clock + 1)) /\ UNCHANGED edits
              /\ \E effect \in {"complete", "unknown", "raised"} :
                    Outcome([call EXCEPT !.did = "removed", !.lost = fs[Target]], effect)

\* A step of the call; at most the operations flagged fail.
PatchStep(fault, cleaned) ==
    \/ /\ cleaned
       /\ \/ ~fault /\ (Ask \/ ResolveTarget \/ Confirm \/ Guard \/ Recheck \/ FillNew)
          \/ ReadTarget(fault) \/ MakeTemp(fault) \/ OpenNew(fault) \/ RemoveTarget(fault)
    \/ ~fault /\ WriteTemp(cleaned)
    \/ Replace(fault, cleaned)
=============================================================================
