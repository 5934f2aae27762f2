----------------------------- MODULE Workspace ------------------------------
(***************************************************************************)
(* The workspace of one coding run, in the order CodingApplication.run     *)
(* (src/dqagent/coding.py) uses it: a baseline capture, a patch, a final   *)
(* capture, and the diff of the two; an outside editor changes files at    *)
(* any moment.                                                             *)
(***************************************************************************)
EXTENDS Observer, PatchTool

VARIABLES phase,     \* baseline, patch, final or compared
          snapshots  \* the snapshots taken, by phase

vars == <<files, limits, faults, capture, call, phase, snapshots>>

NoSnapshot == [entries |-> <<>>, start |-> <<>>, disturbed |-> {}, bytes |-> 0, blind |-> {}]

Init ==
    /\ FilesInit /\ CaptureInit /\ PatchInit
    /\ phase = "begin"
    /\ snapshots = [baseline |-> NoSnapshot, final |-> NoSnapshot]

Capturing == phase \in {"baseline", "final"}

Begin ==
    /\ phase = "begin" /\ phase' = "baseline"
    /\ BeginCapture
    /\ UNCHANGED <<files, call, snapshots>>

WalkOn ==
    /\ Capturing /\ Walk
    /\ UNCHANGED <<files, call, phase, snapshots>>

\* The walk is over.  The state of the capture is dropped with the call.
FinishCapture ==
    /\ Capturing /\ stack = Idle
    /\ \E why \in {stopped} \cup MayStop :
         /\ IF why = stopped THEN NoFault ELSE Fault
         /\ snapshots' = [snapshots EXCEPT ![phase] = Snapshot(why)]
    /\ phase' = IF phase = "baseline" THEN "patch" ELSE "compared"
    /\ entries' = <<>> /\ blind' = {} /\ observed' = 0 /\ stopped' = None
    /\ disturbed' = {} /\ start' = [p \in Paths |-> View(p)]
    /\ UNCHANGED <<files, limits, stack, reading, call>>

Patch ==
    /\ phase = "patch"
    /\ \E fault, cleaned \in BOOLEAN :
         /\ faults' = faults + Cardinality({x \in {"fault", "cleanup"} :
                                   IF x = "fault" THEN fault ELSE ~cleaned})
         /\ faults' <= MaxFaults
         /\ PatchStep(fault, cleaned)
    /\ UNCHANGED <<limits, capture, phase, snapshots>>

\* The agent has its answer; the final capture follows.
BeginFinal ==
    /\ phase = "patch" /\ call.step = "returned"
    /\ phase' = "final" /\ call' = NoCall
    /\ BeginCapture
    /\ UNCHANGED <<files, snapshots>>

Edit ==
    /\ phase \in {"baseline", "patch", "final"}
    /\ \E p \in Editable :
         /\ Change(p)
         /\ disturbed' = IF Capturing THEN disturbed \cup Disturbed(p) ELSE {}
    /\ UNCHANGED <<limits, faults, stack, entries, blind, observed, stopped, reading, start,
                   call, phase, snapshots>>

Done == phase = "compared" /\ UNCHANGED vars

Next == Begin \/ WalkOn \/ FinishCapture \/ Patch \/ BeginFinal \/ Edit \/ Done

Spec == Init /\ [][Next]_vars

-----------------------------------------------------------------------------
\* The types of the state; and a capture keeps to its limits on entries and on
\* bytes whatever the files do meanwhile (WorkspaceLimits).
TypeOK ==
    /\ fs \in [Paths -> Node] /\ clock \in Nat /\ edits \in 0 .. MaxEdits
    /\ limits \in LimitChoices /\ faults \in 0 .. MaxFaults
    /\ \A i \in 1 .. Len(stack) : stack[i].dir \in Paths /\ stack[i].listed \in BOOLEAN
    /\ DOMAIN entries \subseteq Paths
    /\ Cardinality(DOMAIN entries) <= limits.entries /\ observed <= limits.total
    /\ \A s \in blind : s.path \in Paths /\ {s.subtree, s.aggregate} \subseteq BOOLEAN
    /\ stopped \in Stops \cup {None} /\ disturbed \subseteq Paths
    /\ call \in Calls
    /\ phase \in {"begin", "baseline", "patch", "final", "compared"}

\* The effect state of a finished call is true of the files: none means that
\* the call left nothing, neither in the target nor a temporary file; complete
\* means that exactly the requested change was made; partial is not said when
\* nothing was left behind (ActionExecutionError and ActionExecutionResult of
\* the patch tool's executors).
EffectIsTrue ==
    call.step = "returned" =>
      /\ call.effect = "none" => call.did = "nothing" /\ ~call.left /\ ~Present(Temp)
      /\ call.effect = "partial" => call.did # "nothing" \/ call.left
      /\ call.effect = "complete" =>
           /\ ~Present(Temp)
           /\ CASE call.operation = "create" -> call.did = "created" /\ call.wrote = Created
                [] call.operation = "update" ->
                     call.did = "replaced" /\ call.wrote = Patched[call.expected]
                [] OTHER -> call.did = "removed"

\* What an update or a delete destroyed is the content whose digest the call
\* named, or a change made after the last revalidation: nobody's work from
\* before that point is lost (_execute_patch_update, _execute_patch_delete).
StaleNotReplaced ==
    call.lost # None =>
      \/ call.lost.kind = "regular" /\ call.lost.content = call.expected
      \/ call.lost.stamp > call.checkedAt

-----------------------------------------------------------------------------
\* A path no one changed while either capture was being taken.
Settled(p) ==
    p \notin snapshots.baseline.disturbed \cup snapshots.final.disturbed

\* What happened to p between the captures.
TrueChange(p) ==
    LET before == snapshots.baseline.start[p]
        after == snapshots.final.start[p]
    IN  IF before = after THEN "none"
        ELSE IF before.kind = "missing" THEN "create"
        ELSE IF after.kind = "missing" THEN "delete"
        ELSE IF before.kind # after.kind THEN "type_change"
        ELSE "modify"

\* The diff is exact where it claims to be: a change it lists of a path that
\* was left alone during the captures did happen, with that kind; and when no
\* blind spot touches the scope of such a path, a change that happened is
\* listed (WorkspaceObserver.diff and the target_complete it reports).
DiffIsExact ==
    phase = "compared" =>
      LET b == snapshots.baseline
          f == snapshots.final
          changes == Changes(b, f)
      IN  \A p \in {q \in Paths \ {Root} : Settled(q)} :
            /\ \A change \in changes : change.path = p => change.kind = TrueChange(p)
            /\ TargetComplete(b, f, {p}) /\ TrueChange(p) # "none" =>
                 \E change \in changes : change.path = p
=============================================================================
