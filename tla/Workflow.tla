------------------------------ MODULE Workflow ------------------------------
(***************************************************************************)
(* WorkflowRunner (src/dqagent/workflow.py) over a CheckpointStore         *)
(* (src/dqagent/checkpoint.py), with the RunContext of every run           *)
(* (src/dqagent/execution.py).                                             *)
(*                                                                         *)
(* Each element of Runs is one call of start, resume or replay, in a       *)
(* thread or a process of its own; the runs share only `store`.  A run     *)
(* moves through pc:                                                       *)
(*                                                                         *)
(*   idle -> opening -> loop -> spawn -> handler -> transition -> save     *)
(*              |         ^                            |  ^        |       *)
(*              |         +----------------------------+--+--------+       *)
(*              |             fork -> wait -> join ----+                   *)
(*              v              +-> drain -+                                *)
(*          unwinding <------------- failing       refused / raised /      *)
(*                                                 returned / crashed      *)
(*                                                                         *)
(* Between any two steps another run may write the store, the caller may   *)
(* cancel the run, its deadline may pass, or its process may die.          *)
(* Handlers and selectors are supplied by users of the library: they       *)
(* return, raise (the errors of a stopped run too: of a run they made      *)
(* themselves, or of their own context, which they may cancel), or run     *)
(* until their context is no longer active.                                *)
(***************************************************************************)
EXTENDS WorkflowGraph

CONSTANTS Runs, Workflows, NoRun,
          Version,          \* Version[r]: the version of the definition r runs
          MaxParallelism,   \* WorkflowRunner(max_parallelism)
          Control,          \* bound: the runs that may be cancelled or expire
          Mortal,           \* bound: the runs whose process may die
          Starters,         \* bound: Starters[r]: the workflow IDs r may call start with
          Rogue             \* bound: Rogue[r]: the control errors that user code of r may raise

ASSUME RunsAssumption ==
    /\ NoRun \notin Runs
    /\ Workflows # {}
    /\ Version \in [Runs -> Versions]
    /\ MaxParallelism \in Nat \ {0}
    /\ Control \subseteq Runs
    /\ Mortal \subseteq Runs
    /\ Starters \in [Runs -> SUBSET Workflows]
    /\ Rogue \in [Runs -> SUBSET {"cancelled", "timed_out"}]

VARIABLES
    store, owner,   \* the checkpoint store; owner is history
    pc, wf,         \* where run r is; the workflow it runs
    cur,            \* `current`: the checkpoint r last loaded or saved
    draft,          \* the state, next node and flags r is about to save
    branch,         \* branch[r][b]: the future of branch b and its result
    siblings,       \* r cancelled the contexts of its branches
    cancelled, expired,   \* r's RunContext
    foreign,        \* history: the control errors r's handlers raised of their own
    err,            \* the class of the exception r is handling
    terminal        \* the terminal events r has emitted, in order

disk == <<store, owner>>
locals == <<draft, branch, siblings>>
context == <<cancelled, expired, foreign>>
vars == <<disk, pc, wf, cur, locals, context, err, terminal>>

----------------------------------------------------------------------------
NoDraft == [state |-> [k \in Keys |-> NoNode], next |-> NoNode,
            recorded |-> << >>, interrupted |-> FALSE]

NotForked == [status |-> "idle", keys |-> {}]

NoBranches == [b \in AllBranches |-> NotForked]

Errors == {"none", "cancelled", "timed_out", "failed", "unexpected"}

\* What user code may raise: an error, or a control error of its own, which
\* the runner cannot tell from one of the run.
ControlErrors == {"cancelled", "timed_out"}
OwnErrors(r) == Rogue[r] \union {"failed"}

Ended == {"refused", "raised", "returned", "crashed"}

Init ==
    /\ store = [w \in Workflows |-> NoCheckpoint]
    /\ owner = [w \in Workflows |-> NoRun]
    /\ pc = [r \in Runs |-> "idle"]
    /\ wf = [r \in Runs |-> CHOOSE w \in Workflows : TRUE]
    /\ cur = [r \in Runs |-> NoCheckpoint]
    /\ draft = [r \in Runs |-> NoDraft]
    /\ branch = [r \in Runs |-> NoBranches]
    /\ siblings = [r \in Runs |-> FALSE]
    /\ cancelled = [r \in Runs |-> FALSE]
    /\ expired = [r \in Runs |-> FALSE]
    /\ foreign = [r \in Runs |-> {}]
    /\ err = [r \in Runs |-> "none"]
    /\ terminal = [r \in Runs |-> << >>]

----------------------------------------------------------------------------
(* RunContext *)

Running(r) == pc[r] \notin {"idle"} \union Ended

\* RunContext.check_active: "none", or the control error it raises.  The
\* parent is asked first; a child has its parent's deadline, and only branch
\* contexts are cancelled on their own (BranchActive).
CheckActive(r) == IF cancelled[r] THEN "cancelled"
                  ELSE IF expired[r] THEN "timed_out"
                  ELSE "none"

\* A branch context that does not ask its parent.
OwnCancellation(r) == IF siblings[r] THEN "cancelled" ELSE "none"

BranchActive(r) == IF CheckActive(r) # "none" THEN CheckActive(r)
                   ELSE IF siblings[r] THEN "cancelled"
                   ELSE "none"

\* RunContext.child: check_active, then remaining_seconds is read again for
\* the child's timeout.  A deadline that passes in between leaves 0.0, which
\* RunContext.__init__ rejects with a ValueError ("unexpected").  Every caller
\* found the context active in the step before, so the check may have passed.
Child(r) == {CheckActive(r)} \union (IF expired[r] THEN {"unexpected"} ELSE {"none"})

Cancel(r) ==
    /\ r \in Control /\ Running(r) /\ ~cancelled[r]
    /\ cancelled' = [cancelled EXCEPT ![r] = TRUE]
    /\ UNCHANGED <<disk, pc, wf, cur, locals, expired, foreign, err, terminal>>

Expire(r) ==
    /\ r \in Control /\ Running(r) /\ ~expired[r]
    /\ expired' = [expired EXCEPT ![r] = TRUE]
    /\ UNCHANGED <<disk, pc, wf, cur, locals, cancelled, foreign, err, terminal>>

----------------------------------------------------------------------------
(* The store *)

LastWriterWins(cp, revision) == TRUE

\* _next_checkpoint: the revision the store holds is the expected one.
RevisionMatches(cp, revision) == cp.revision = revision

\* CheckpointStore.save of cp by r, which expects the revision of cur[r].
Saves(r, cp) ==
    LET w == wf[r]
        saved == [cp EXCEPT !.revision = store[w].revision + 1] IN
    /\ RevisionMatches(store[w], cur[r].revision)
    /\ store' = [store EXCEPT ![w] = saved]
    /\ owner' = [owner EXCEPT ![w] = r]
    /\ cur' = [cur EXCEPT ![r] = saved]

\* CheckpointStore.save raises: a revision conflict, or the store cannot be
\* read or written (before the file is replaced, nothing has changed).
SaveRaises(r) == UNCHANGED <<disk, cur>>

Emit(r, event) == terminal' = [terminal EXCEPT ![r] = Append(@, event)]

Goto(r, label) == pc' = [pc EXCEPT ![r] = label]

\* The locals of one iteration of the loop in _execute go out of scope.
Forget(r) ==
    /\ draft' = [draft EXCEPT ![r] = NoDraft]
    /\ branch' = [branch EXCEPT ![r] = NoBranches]
    /\ siblings' = [siblings EXCEPT ![r] = FALSE]

\* An exception of class e reaches the except clauses of _execute.
Raise(r, e) ==
    /\ Goto(r, "failing")
    /\ err' = [err EXCEPT ![r] = e]
    /\ Forget(r)

\* User code of r raises e of its own.
Note(r, e) == foreign' = [foreign EXCEPT ![r] = @ \union ({e} \intersect ControlErrors)]

\* Control goes on at label, or an exception is raised: e says which.
GotoOrRaise(r, label, e) ==
    IF e = "none" THEN Goto(r, label) /\ UNCHANGED <<err, locals>> ELSE Raise(r, e)

----------------------------------------------------------------------------
(* start, replay, resume *)

Begin(r, w, cp) ==
    /\ pc[r] = "idle"
    /\ Goto(r, "opening")
    /\ wf' = [wf EXCEPT ![r] = w]
    /\ cur' = [cur EXCEPT ![r] = cp]
    /\ UNCHANGED <<disk, locals, context, err, terminal>>

Start(r, w, i) ==
    /\ w \in Starters[r]
    /\ Begin(r, w, FirstCheckpoint(Version[r], i))

\* _validate_compatibility: the checkpoint is of this definition and version.
Compatible(r, w) == store[w] # NoCheckpoint /\ store[w].version = Version[r]

\* A replay that starts over from the source's state, not from its input.
ReplayState(cp) == [FirstCheckpoint(cp.version, cp.initial) EXCEPT !.state = cp.state]

ReplayInput(cp) == FirstCheckpoint(cp.version, cp.initial)

Replay(r, source, w) ==
    /\ Compatible(r, source)
    /\ w # source
    /\ Begin(r, w, ReplayInput(store[source]))

Resume(r, w) ==
    /\ Compatible(r, w)
    /\ store[w].status # "COMPLETED"
    /\ Begin(r, w, store[w])

\* resume or replay raises before the run has started: there is no such
\* workflow, it is of another version, it has completed, or cannot be read.
Refuse(r) ==
    /\ pc[r] = "idle"
    /\ Goto(r, "refused")
    /\ UNCHANGED <<disk, wf, cur, locals, context, err, terminal>>

\* The first save: the new workflow, or the claim of the one to resume.
Open(r) ==
    /\ pc[r] = "opening"
    /\ Saves(r, [cur[r] EXCEPT !.status = "RUNNING"])
    /\ Goto(r, "loop")
    /\ UNCHANGED <<wf, locals, context, err, terminal>>

OpenRaises(r) ==
    /\ pc[r] = "opening"
    /\ SaveRaises(r)
    /\ Goto(r, "unwinding")
    /\ UNCHANGED <<wf, locals, context, err, terminal>>

----------------------------------------------------------------------------
(* _execute and _execute_node *)

LoopEnds(r) ==
    /\ pc[r] = "loop"
    /\ cur[r].node = NoNode
    /\ Emit(r, "COMPLETED")
    /\ Goto(r, "returned")
    /\ UNCHANGED <<disk, wf, cur, locals, context, err>>

\* The check at the head of the loop; _execute_node announces the node.
LoopChecks(r) ==
    /\ pc[r] = "loop"
    /\ cur[r].node # NoNode
    /\ GotoOrRaise(r, "spawn", CheckActive(r))
    /\ UNCHANGED <<disk, wf, cur, context, terminal>>

Spawn(r) ==
    /\ pc[r] = "spawn"
    /\ \E e \in Child(r) : GotoOrRaise(r, "handler", e)
    /\ UNCHANGED <<disk, wf, cur, context, terminal>>

\* The handler returns a NodeResult and its context is still active.
NodeReturns(r, ks, interrupt) ==
    LET n == cur[r].node IN
    /\ pc[r] = "handler"
    /\ CheckActive(r) = "none"
    /\ ks \in Updates[n]
    /\ draft' = [draft EXCEPT ![r] = [state |-> Merge(cur[r].state, n, ks),
                                      next |-> NoNode,
                                      recorded |-> <<n>>,
                                      interrupted |-> interrupt]]
    /\ Goto(r, "transition")
    /\ UNCHANGED <<disk, wf, cur, branch, siblings, context, err, terminal>>

\* The handler raises an error of its own, returns something else, or has
\* cancelled its context.
NodeRaises(r, e) ==
    /\ pc[r] = "handler"
    /\ Raise(r, e)
    /\ Note(r, e)
    /\ UNCHANGED <<disk, wf, cur, cancelled, expired, terminal>>

\* The handler notices that its context is not active, or the check after it.
NodeStops(r) ==
    /\ pc[r] = "handler"
    /\ CheckActive(r) # "none"
    /\ Raise(r, CheckActive(r))
    /\ UNCHANGED <<disk, wf, cur, context, terminal>>

----------------------------------------------------------------------------
(* _select_next *)

Chooses(r, m) ==
    /\ draft' = [draft EXCEPT ![r].next = m]
    /\ Goto(r, "save")
    /\ UNCHANGED <<disk, wf, cur, branch, siblings, context, err, terminal>>

SelectNext(r) ==
    LET n == cur[r].node IN
    /\ pc[r] = "transition"
    /\ Kind[n] \in {"end", "next"}
    /\ \E m \in Successors(n) : Chooses(r, m)

\* The selector runs in a child context.
CallSelector(r) ==
    /\ pc[r] = "transition"
    /\ Kind[cur[r].node] = "conditional"
    /\ \E e \in Child(r) : GotoOrRaise(r, "selector", e)
    /\ UNCHANGED <<disk, wf, cur, context, terminal>>

\* The selector's route is known; its context is not checked afterwards.
SelectorReturns(r) ==
    /\ pc[r] = "selector"
    /\ \E m \in Targets[cur[r].node] : Chooses(r, m)

\* It raises an error of its own, or its route is unknown.
SelectorRaises(r, e) ==
    /\ pc[r] = "selector"
    /\ Raise(r, e)
    /\ Note(r, e)
    /\ UNCHANGED <<disk, wf, cur, cancelled, expired, terminal>>

SelectorStops(r) ==
    /\ pc[r] = "selector"
    /\ CheckActive(r) # "none"
    /\ Raise(r, CheckActive(r))
    /\ UNCHANGED <<disk, wf, cur, context, terminal>>

----------------------------------------------------------------------------
(* _execute_parallel *)

\* A coordinator may not interrupt, nor fork more branches than configured.
Fork(r) ==
    LET n == cur[r].node IN
    /\ pc[r] = "transition"
    /\ Kind[n] = "parallel"
    /\ GotoOrRaise(r, "fork",
          IF draft[r].interrupted \/ Len(Branches[n]) > MaxParallelism
          THEN "failed" ELSE "none")
    /\ UNCHANGED <<disk, wf, cur, context, terminal>>

Forked(r) == {b \in BranchSet(cur[r].node) : branch[r][b].status # "idle"}
Pending(r) == {b \in BranchSet(cur[r].node) : branch[r][b].status = "running"}
Raised(r) == {b \in BranchSet(cur[r].node) :
                branch[r][b].status \in {"failed", "cancelled", "timed_out"}}

\* One branch is submitted, in declaration order, with a child context; when
\* the context cannot be made the branches already running are waited for.
Submit(r) ==
    LET bs == Branches[cur[r].node]
        i == Cardinality(Forked(r)) + 1 IN
    /\ pc[r] = "fork"
    /\ \E e \in Child(r) :
          IF e = "none"
          THEN /\ branch' = [branch EXCEPT ![r][bs[i]].status = "running"]
               /\ Goto(r, IF i = Len(bs) THEN "wait" ELSE "fork")
               /\ UNCHANGED err
          ELSE /\ Goto(r, "drain")
               /\ err' = [err EXCEPT ![r] = e]
               /\ UNCHANGED branch
    /\ UNCHANGED <<disk, wf, cur, draft, siblings, context, terminal>>

\* Worker threads of the executor live until the group is collected.
BranchEnds(r, b, result) ==
    /\ pc[r] \in {"fork", "wait", "join", "drain"}
    /\ b \in Pending(r)
    /\ branch' = [branch EXCEPT ![r][b] = result]
    /\ UNCHANGED <<disk, pc, wf, cur, draft, siblings, cancelled, expired, err, terminal>>

\* The branch's handler returns; its context is checked only by
\* _execute_parallel, which counts one that its handler has cancelled
\* ("abandoned") as a cancellation, but cancels no siblings for it.  The
\* updates of a result that fails the group are not used.
BranchReturns(r, b) ==
    \E ks \in Updates[b], status \in {"returned", "interrupt", "abandoned"} :
       /\ status = "abandoned" => "cancelled" \in Rogue[r]
       /\ BranchEnds(r, b, [status |-> status, keys |-> IF status = "returned" THEN ks ELSE {}])
       /\ Note(r, IF status = "abandoned" THEN "cancelled" ELSE "none")

BranchRaises(r, b, e) ==
    /\ BranchEnds(r, b, [status |-> e, keys |-> {}])
    /\ Note(r, e)

BranchStops(r, b) ==
    /\ BranchActive(r) # "none"
    /\ BranchEnds(r, b, [status |-> BranchActive(r), keys |-> {}])
    /\ UNCHANGED foreign

\* executor.shutdown(wait=True) on the way out of the fork.
Drain(r) ==
    /\ pc[r] = "drain"
    /\ Pending(r) = {}
    /\ Raise(r, err[r])
    /\ UNCHANGED <<disk, wf, cur, context, terminal>>

\* The siblings of a failed branch run on.
LeaveSiblings(r) == FALSE

\* Whether the branch contexts are cancelled after the first wait.
CancelSiblings(r) == Raised(r) # {}

\* wait(FIRST_EXCEPTION), then the siblings of a failed branch are cancelled.
FirstException(r) ==
    /\ pc[r] = "wait"
    /\ Pending(r) = {} \/ Raised(r) # {}
    /\ siblings' = [siblings EXCEPT ![r] = CancelSiblings(r)]
    /\ Goto(r, "join")
    /\ UNCHANGED <<disk, wf, cur, draft, branch, context, err, terminal>>

\* How branch b counts when results are collected: its exception, its
\* context (a branch that returned before a sibling failed counts as
\* cancelled, as does one that cancelled itself), an interrupt that a branch may not ask for.
BranchError(r, b) ==
    LET s == branch[r][b].status IN
    IF s \in {"failed", "cancelled", "timed_out"} THEN s
    ELSE IF BranchActive(r) # "none" THEN BranchActive(r)
    ELSE IF s = "abandoned" THEN "cancelled"
    ELSE IF s = "interrupt" THEN "failed"
    ELSE "none"

\* The first error in declaration order, whatever it is.
FirstError(es) == {i \in DOMAIN es : es[i] # "none" /\ \A j \in 1..(i - 1) : es[j] = "none"}

\* `primary`: the first that is not a cancellation, if there is one.
PrimaryError(es) ==
    LET hard == {i \in DOMAIN es : es[i] \notin {"none", "cancelled"}} IN
    IF hard = {} THEN FirstError(es) ELSE {i \in hard : \A j \in hard : i <= j}

\* Two branches that write one key fail the group.
DisjointUpdates(n, written) ==
    \A b, c \in BranchSet(n) : b # c => written[b] \intersect written[c] = {}

\* The branches' updates over the coordinator's.
MergeAll(state, n, written) ==
    [k \in Keys |-> IF \E b \in BranchSet(n) : k \in written[b]
                    THEN CHOOSE b \in BranchSet(n) : k \in written[b]
                    ELSE state[k]]

\* Results are collected in declaration order once every future is done.
Collect(r) ==
    LET n == cur[r].node
        written == [b \in BranchSet(n) |-> branch[r][b].keys]
        errors == [i \in DOMAIN Branches[n] |-> BranchError(r, Branches[n][i])]
        clean == \A i \in DOMAIN errors : errors[i] = "none" IN
    /\ pc[r] = "join"
    /\ Pending(r) = {}
    /\ \/ \E i \in PrimaryError(errors) : Raise(r, errors[i])
       \/ clean /\ ~DisjointUpdates(n, written) /\ Raise(r, "failed")
       \/ /\ clean
          /\ DisjointUpdates(n, written)
          /\ \E m \in Successors(n) :
                draft' = [draft EXCEPT ![r].state = MergeAll(@, n, written),
                                       ![r].recorded = @ \o Branches[n],
                                       ![r].next = m]
          /\ Goto(r, "save")
          /\ UNCHANGED <<err, branch, siblings>>
    /\ UNCHANGED <<disk, wf, cur, context, terminal>>

----------------------------------------------------------------------------
(* The checkpoint after a node, and the except clauses of _execute *)

StatusOf(d) == IF d.interrupted THEN "INTERRUPTED"
               ELSE IF d.next = NoNode THEN "COMPLETED" ELSE "RUNNING"

SaveAnyway(d) == TRUE

\* A terminal node may not interrupt.
MaySave(d) == ~(d.interrupted /\ d.next = NoNode)

SaveRefused(r) ==
    /\ pc[r] = "save"
    /\ ~MaySave(draft[r])
    /\ Raise(r, "failed")
    /\ UNCHANGED <<disk, wf, cur, context, terminal>>

SaveNode(r) ==
    LET d == draft[r] IN
    /\ pc[r] = "save"
    /\ MaySave(d)
    /\ Saves(r, [cur[r] EXCEPT !.state = d.state,
                               !.node = d.next,
                               !.completed = @ \o d.recorded,
                               !.status = StatusOf(d)])
    /\ IF d.interrupted THEN Emit(r, "INTERRUPTED") /\ Goto(r, "returned")
                        ELSE Goto(r, "loop") /\ UNCHANGED terminal
    /\ Forget(r)
    /\ UNCHANGED <<wf, context, err>>

\* A CheckpointError fails the run without another save.
SaveNodeRaises(r) ==
    /\ pc[r] = "save"
    /\ MaySave(draft[r])
    /\ SaveRaises(r)
    /\ Emit(r, "FAILED")
    /\ Goto(r, "unwinding")
    /\ Forget(r)
    /\ UNCHANGED <<wf, context, err>>

\* The terminal status of an exception of class e.
FailureStatus(e) == CASE e = "cancelled" -> "CANCELLED"
                      [] e = "timed_out" -> "TIMED_OUT"
                      [] OTHER -> "FAILED"

\* _save_terminal_failure, then the terminal event.
SaveFailure(r) ==
    LET status == FailureStatus(err[r]) IN
    /\ pc[r] = "failing"
    /\ Saves(r, [cur[r] EXCEPT !.status = status])
    /\ Emit(r, status)
    /\ Goto(r, "unwinding")
    /\ UNCHANGED <<wf, locals, context, err>>

\* A run whose failure cannot be stored is announced as failed.
UnsavedEvent(e) == "FAILED"

SaveFailureRaises(r) ==
    /\ pc[r] = "failing"
    /\ SaveRaises(r)
    /\ Emit(r, UnsavedEvent(err[r]))
    /\ Goto(r, "unwinding")
    /\ UNCHANGED <<wf, locals, context, err>>

\* A start failure announced whether or not one has been.
AnnounceAlways(events) == TRUE

\* _emit_start_failure stays silent when a terminal failure was emitted.
AnnounceFailure(events) == ToSet(events) \intersect {"FAILED", "CANCELLED", "TIMED_OUT"} = {}

\* The except clause of start and resume.
Unwind(r) ==
    /\ pc[r] = "unwinding"
    /\ IF AnnounceFailure(terminal[r]) THEN Emit(r, "FAILED") ELSE UNCHANGED terminal
    /\ Goto(r, "raised")
    /\ UNCHANGED <<disk, wf, cur, locals, context, err>>

\* The process of r dies; only the store survives.
Crash(r) ==
    /\ r \in Mortal /\ Running(r)
    /\ Goto(r, "crashed")
    /\ Forget(r)
    /\ cur' = [cur EXCEPT ![r] = NoCheckpoint]
    /\ err' = [err EXCEPT ![r] = "none"]
    /\ terminal' = [terminal EXCEPT ![r] = << >>]
    /\ cancelled' = [cancelled EXCEPT ![r] = FALSE]
    /\ expired' = [expired EXCEPT ![r] = FALSE]
    /\ foreign' = [foreign EXCEPT ![r] = {}]
    /\ UNCHANGED <<disk, wf>>

----------------------------------------------------------------------------
Call(r) == \/ \E w \in Workflows, i \in Inputs : Start(r, w, i)
           \/ \E w, source \in Workflows : Replay(r, source, w)
           \/ \E w \in Workflows : Resume(r, w)
           \/ Refuse(r)

Handler(r) == \/ \E ks \in SUBSET Keys, i \in BOOLEAN : NodeReturns(r, ks, i)
              \/ \E e \in OwnErrors(r) : NodeRaises(r, e) \/ SelectorRaises(r, e)
              \/ SelectorReturns(r)
              \/ \E b \in AllBranches : \/ BranchReturns(r, b)
                                         \/ \E e \in OwnErrors(r) : BranchRaises(r, b, e)

\* What the runner's own code does next, and the handlers that notice their
\* context has ended.
Step(r) == \/ Open(r) \/ OpenRaises(r)
           \/ LoopEnds(r) \/ LoopChecks(r) \/ Spawn(r)
           \/ SelectNext(r) \/ CallSelector(r)
           \/ Fork(r) \/ Submit(r) \/ Drain(r)
           \/ FirstException(r) \/ Collect(r)
           \/ SaveRefused(r) \/ SaveNode(r) \/ SaveNodeRaises(r)
           \/ SaveFailure(r) \/ SaveFailureRaises(r) \/ Unwind(r)

Progress(r) == \/ Step(r) \/ NodeStops(r) \/ SelectorStops(r)
               \/ \E b \in AllBranches : BranchStops(r, b)

Done == (\A r \in Runs : pc[r] \in Ended) /\ UNCHANGED vars

Next == \/ \E r \in Runs : Call(r) \/ Progress(r) \/ Handler(r) \/ Cancel(r) \/ Expire(r) \/ Crash(r)
        \/ Done

Spec == Init /\ [][Next]_vars

\* The interpreter keeps executing a run that can go on, and a handler that
\* waits on its context returns once the context has ended; nothing else is
\* promised of handlers, callers or time.
Fairness == \A r \in Runs : WF_vars(Progress(r))

FairSpec == Spec /\ Fairness
----------------------------------------------------------------------------
(* Properties *)

Result == [status : {"idle", "running", "returned", "interrupt", "abandoned",
                     "failed", "cancelled", "timed_out"},
           keys : SUBSET Keys]

Draft == [state : [Keys -> Inputs \union Nodes \union {NoNode}],
          next : Nodes \union {NoNode}, recorded : Seq(Nodes), interrupted : BOOLEAN]

Labels == {"idle", "opening", "loop", "spawn", "handler", "transition", "selector", "fork",
           "wait", "join", "drain", "save", "failing", "unwinding"} \union Ended

\* The type of every variable.
TypeOK ==
    /\ store \in [Workflows -> Checkpoint \union {NoCheckpoint}]
    /\ owner \in [Workflows -> Runs \union {NoRun}]
    /\ pc \in [Runs -> Labels]
    /\ wf \in [Runs -> Workflows]
    /\ cur \in [Runs -> Checkpoint \union {NoCheckpoint}]
    /\ draft \in [Runs -> Draft]
    /\ branch \in [Runs -> [AllBranches -> Result]]
    /\ siblings \in [Runs -> BOOLEAN]
    /\ cancelled \in [Runs -> BOOLEAN]
    /\ expired \in [Runs -> BOOLEAN]
    /\ foreign \in [Runs -> SUBSET ControlErrors]
    /\ err \in [Runs -> Errors]
    /\ terminal \in [Runs -> Seq(Statuses)]

\* A run that its caller hears from has emitted exactly one terminal event,
\* whichever of the two layers that announce failures (_execute and the except
\* clause of start and resume) saw the exception, and no run emits two.
OneTerminalEvent ==
    \A r \in Runs : /\ Len(terminal[r]) <= 1
                    /\ pc[r] \in {"raised", "returned"} => Len(terminal[r]) = 1

\* r's caller, or a handler of r of its own, made it look cancelled, or late.
WasCancelled(r) == cancelled[r] \/ "cancelled" \in foreign[r]
WasLate(r) == expired[r] \/ "timed_out" \in foreign[r]

\* What a run announces has happened.  It ends CANCELLED only when its caller
\* cancelled it or its own handlers did, and TIMED_OUT only when its deadline
\* passed or a handler said so of its own: cancelling the siblings of a failed
\* branch does not make the run look cancelled (the choice of `primary`,
\* workflow.py 702; the control errors of user code pass through 568 to 574,
\* 704 and 751 as if they were the run's).  Any end but a failure is stored: the
\* checkpoint last saved has that status, and the store still has it or has
\* moved on from it.
OutcomeIsTrue ==
    \A r \in Runs :
       /\ "CANCELLED" \in ToSet(terminal[r]) => WasCancelled(r)
       /\ "TIMED_OUT" \in ToSet(terminal[r]) => WasLate(r)
       /\ \A e \in ToSet(terminal[r]) \ {"FAILED"} :
            /\ cur[r].status = e
            /\ store[wf[r]].revision >= cur[r].revision
            /\ store[wf[r]].revision = cur[r].revision => store[wf[r]] = cur[r]

\* A coordinator and its branches are checkpointed together or not at all, and
\* every value in a checkpoint's state is the input's or a recorded node's.
AllOrNothing ==
    \A w \in Workflows : store[w] # NoCheckpoint =>
       LET done == ToSet(store[w].completed) IN
       /\ \A n \in Nodes : \A b \in BranchSet(n) : (n \in done) <=> (b \in done)
       /\ \A k \in Keys : store[w].state[k] \in done \union {store[w].initial}

\* A deadline that passes is reported as a timeout, never as an unexpected
\* failure (docs/architecture.md 336 and 337).
DeadlineNeverUnexpected == \A r \in Runs : err[r] # "unexpected"

\* The store, run by any number of such runs, is a linear, fenced history.
Durable == INSTANCE DurableWorkflow
RefinesDurable == Durable!DSpec

\* A completed workflow is never written again, whatever stale or resumed run
\* still wants to save it.
CompletedIsFinal == Durable!CompletedIsFinal

\* A run that is cancelled or out of time ends, though no handler need return
\* until it notices.  (A run stays stopped and an ended run stays ended, so
\* this is stopped ~> ended.)
StoppedRunsEnd == \A r \in Runs : []<>(cancelled[r] \/ expired[r] => pc[r] \in Ended)

\* An exception is on its way in run r: it is of a branch, of the fork, or has
\* reached an except clause.  Only the end of the run leads out of this.
Failing(r) == \/ pc[r] \in {"drain", "failing", "unwinding"}
              \/ pc[r] \in {"fork", "wait", "join"} /\ Raised(r) # {}

\* A run with a failed branch ends, though its other branches would run until
\* they are cancelled: no run stays in a group of which a branch has failed.
FailedBranchReleasesRun == \A r \in Runs : []<>~Failing(r)
=============================================================================
