# DQAgent: a verification project

TLA+ models of the agent runtime in `src/dqagent`, model-checked with TLC, and proofs about them
checked by TLAPS. Line numbers refer to the files of `src/dqagent` unless a path is given.
`PROJECT.json` lists every component, run, property, mutant, hazard and theorem, and maps each
definition to the lines it models.

## 1. The system

DQAgent is a Python library and a set of command lines for agents that talk to a language model,
call tools, keep durable sessions and memories, run checkpointed workflows and edit a repository
under governance. It is synchronous and threaded: there is no event loop. Concurrency comes from
callers' threads, from separate processes that share files, from the worker threads of parallel
workflow nodes, of tools and of subprocess readers, and from the environment (deadlines,
cancellation, a workspace other programs edit).

| Component | State it keeps | Operations | Interacts with |
|---|---|---|---|
| workflow (`workflow.py`, `execution.py`) | current checkpoint, the draft of the next, futures of a parallel group | `start`, `resume`, `replay`; cancel and deadline of a `RunContext` | checkpoint store, users' handlers and selectors |
| checkpoint store (`checkpoint.py`) | one checkpoint per workflow ID, with a revision | `load`, `save(expected_revision)` | files replaced atomically, one lock per store object |
| session application (`application.py`, `session.py`, `transcript.py`, `lifecycle.py`) | lock per application object, a session snapshot with a revision | `run` a turn; start, terminal and stage events | retriever, memory service, context builder, runtime, session store |
| agent runtime (`runtime.py`) | items of the turn, calls seen, iteration, attempt | model request with retries, tool loop | model client, tool registry |
| governed actions (`tools.py`, `tool_governance.py`) | locals of one call; the run's collector of reservations and records | prepare, guard, policy, reserve, approve, hooks, execute once, record | policy, operator, hooks, executors, guard-context factory |
| plain tools (`tools.py`) | a worker thread per call | schema check, handler with a timeout | handlers |
| memory store (`memory_store.py`, `memory.py`) | per scope: records, tombstones, revision | `load`, `apply(change_set, expected_revision)`; in memory or SQLite | memory service |
| memory service (`memory_service.py`, `memory_policy.py`, `memory_consolidation.py`) | none of its own | propose, confirm, correct, forget, list, show, recall; list and show write the expiry they find due | memory store, extraction, recall |
| memory extraction, recall (`memory_extraction.py`, `memory_recall.py`) | none | propose candidates from a committed turn; rank records | model client; embeddings |
| coding application (`coding.py`) | state of one coding run, evidence on failure | one run from baseline to verdict | workspace, runtime, governed tools, validators |
| validators (`validators.py`) | none | run definitions, derive the verdict | subprocess runner |
| subprocesses (`subprocesses.py`) | process, reader threads, bounded output | spawn, poll, terminate, kill, reap | operating system |
| workspace (`workspace.py`) | scope, metadata of roots | resolve a path, snapshot, diff, sanitize | file system |
| coding tools (`coding_tools.py`) | budget of one action | read, search, patch, command | workspace, subprocesses |
| context builder, repository context, retrieval | none, or an index file | assemble a bounded prompt; load instructions; index and search | session, memory, files |
| providers, command lines, evaluation harnesses | none a run depends on | HTTP adapters, argument parsing, scripted experiments | all of the above |

How they fit: an application opens a run with `RunCoordinator`, which gives it a `RunContext`
(cancellation and deadline) and an event log with exactly one terminal event. The application
assembles a context, `AgentRuntime` alternates between model and tools, and the application then
commits: a session turn by compare-and-swap, or a coding verdict from records, diff and
validators. Workflows are a second, independent way to run things, with their own checkpoints.

### What is hard, and what has to be right

* **Workflow.** Two processes resume the same workflow; a run is displaced while a handler works;
  it crashes between the effect of a node and its checkpoint; a branch fails, collides, interrupts
  or is cancelled. Right means: one linear history, no write by a displaced run, groups all or
  nothing, one terminal event that tells the truth, and stopped runs end.
* **Session.** Callers race for one session through different application objects; a stop arrives
  at any stage; a model repeats calls. Right means: a turn is stored exactly when its caller was
  answered, a stopped run does not commit, nothing is run twice, and the lock is released.
* **Governed actions.** The operator takes minutes, hooks run, the workspace drifts, the executor
  half-succeeds, the collector refuses a record. Right means: no effect without authority, none on
  a stale world, none concealed, and at most one attempt per reservation.
* **Memory.** Clients share a store; the clock is read before the snapshot and may be set back; list
  and show write; a forgotten record must stay forgotten; a correction must not leave a topic with
  none or two active records, and whatever is decided must be acceptable to the store.
* **Coding run and its tools.** A replace that may or may not have happened, a process that
  outlives its cancellation, a snapshot that saw only part: none may end in "passed".

`PROJECT.json` "hazards" lists these at the lines where they bite, with the properties that cover
them, or the reason why none does.

## 2. The modules

| Module | Models |
|---|---|
| `WorkflowGraph` | a workflow definition, its validation as `GraphAssumption`, and checkpoints |
| `DurableWorkflow` | the abstract promise of a store and its runners: a fenced, linear history |
| `Workflow` | `WorkflowRunner` over a `CheckpointStore`, step by step, with failures |
| `SessionRun` | one turn of `SessionAgentApplication.run` with coordinator, stages, runtime and store |
| `GovernedAction` | `ActionTool.execute_detailed` and the run's record collector |
| `MemoryLifecycle` | the abstract promise of long-term memory: the life of a proposition |
| `Memory` | `MemoryService`, its policy and consolidation, over a `MemoryStore` |
| `CodingRun` | one run of `CodingAgentApplication`, from baseline to verdict, with its validators |
| `Subprocess` | `LocalSubprocessRunner.run`, its reader threads, the child and its descendant |
| `CommandTool` | the command tool around `Subprocess`: preparation, execution, reported effect |
| `WorkspaceFiles` | the files, resolved paths and their revalidation, and an editor outside the run |
| `Observer` | `WorkspaceObserver`: a bounded capture entry by entry, and the diff of two |
| `PatchTool` | one call of the patch tool, one file operation per step |
| `Workspace` | composes the two: capture, patch, capture, diff, with the editor in between |
| `RepositoryLoader` | `RepositoryContextLoader.load`: instructions, skill catalog, skill body |
| `ContextBuilder` | the operators of `ContextBuilder` and `MemorySelector`, over lengths and sets of places |
| `ContextRun` | composes the two: load, recall, project, summarize, assemble |
| `WorkflowProofs`, `SessionRunProofs`, `GovernedActionProofs`, `MemoryProofs`, `CodingRunProofs`, `CommandToolProofs`, `WorkspaceProofs`, `ContextRunProofs` | the theorems about the module of that name |
| `MC...` | the instances TLC checks |

`RepositoryLoader`, `Observer` and `PatchTool` all EXTEND `WorkspaceFiles`, so that a path is resolved
and revalidated in one place, as in the code. `CodingRun` takes from the other modules only what
their properties promise: a governed call has an effect and a record or not (`GovernedAction`), a
validator's process ended in one of the statuses of `Subprocess`.

A few operators stand next to the one the actions use and are a wrong version of it (for example
`LastWriterWins` beside `RevisionMatches`). They are the mutants of `PROJECT.json`: putting one in
place of the other must break the property named there.

### Workflow

A run is one call of `start`, `resume` or `replay`; `pc` is its place in `_execute`. `cur` is the
Python variable `current`, `draft` what `_execute_node` and `_select_next` have computed so far,
`branch` the futures of a group, `siblings` the cancellation of the branch contexts, `err` the
exception being handled, `terminal` the terminal events it has emitted. `store` is the one thing
runs share; `owner` is a history variable. A value of the workflow's state mapping is abstracted
to its origin: the input, or the node whose update it is. Handlers and selectors are users' code:
they return, raise, or run until they notice their context has ended. They may also raise a
cancellation or a timeout of their own, of a run they made themselves or because they cancelled the
context they were given. The engine re-raises both as they are (`workflow.py:568-574`, `688-707`,
`751-752`), so the run then ends CANCELLED or TIMED_OUT although nobody stopped it. `Rogue` says whose
user code does which, and the history variable `foreign` that it did: `OutcomeIsTrue` admits these
ends, and no others. A branch whose handler cancels its context and returns (`abandoned`) counts as
cancelled when the group is collected, and cancels no siblings. Every save may fail and leave the
store as it was. `Crash` takes a run's memory away at any point. `Child` includes the
`ValueError` of `RunContext.child`, when the deadline passes between its two readings of the clock.

`RefinesDurable` shows that the detailed module implements `DurableWorkflow`: only a resume changes
the owner, only the owner advances, one node (a coordinator with all its branches) at a time, and a
completed workflow stays as it is.

### SessionRun

A caller is a thread, `app` the application object it calls, `lock` the lock of that object. Two
objects share the session but no lock. `base` is the revision the turn was computed from, `items`
what it will append. The coordinator's checks (`Begin`, `Finish`), stage events (`open`), retry
with backoff, the two repetition rules of tool calls (same ID, same canonical call), the iteration
bound, transcript validation of the candidate and the compare-and-swap are actions. Text, prompts
and retrieval results are data and left out; a tool call is one step that answers or raises. The
fallback of a failed memory recall (`application.py:412`) is one end of its stage: that the stage is
closed and that a stopped run stores nothing is checked (`AnsweredIsStored`, `StopIsHonoured`), that
the fallback is not announced after a stop is not.

### GovernedAction

`call` holds the locals of `execute_detailed`; the actions follow its order: `Begin`, `Evaluate`
(guards, policy, reservation), `Deny`, `RequestApproval` and `ApprovalAnswered` or `Revalidate`,
`PreHook`, `EffectBoundary`, `StartExecutor`, `ExecutorReturns`, `PostHook`, `Observe`; `Interrupt`
and `ExecutorStopped` are the `except` clause for cancellation and deadline, `ContextFails` the
factory that raises. `collector` has reservations (token to recorded), records, and whether the
run knows of a missing record. `world` is what a guard-context factory observes, and drifts.

Abstractions: a digest is the content it stands for; the identity of the backend is part of the
capabilities it offers; the two guards that read only the action and the configuration fail by a
property of the action; hooks keep their mode and their outcome; a failed sanitizing or an invalid
observation is an error outcome. A static `guard_context` is a world that never drifts. Two branches
of the code cannot be reached in this composition and are left out: the collector's own capacity
error (its reservations are what the guard counts) and a workspace drift found only when the
post-hooks' input is built.

### Memory

`store` is the committed snapshot of one scope, `op[p]` the operation a client is in. An operation
has the three steps of the code: read the clock and assess the candidate (`Begin...`), load the
snapshot and decide on a change set (`Load...`, with the operators `ConfirmChanges`,
`CorrectChanges`, `ForgetChanges`, `InspectChanges`), apply it (`Apply`). Other clients and the
clock move in between. `ChangeAllowed` and its parts are the checks of `_apply_changes`, branch by
branch; `ApplyTo` and `ValidSnapshot` are what it constructs, and a change set that fails any check
is rolled back. `Abandon` is a crash or any failing dependency. The ID factory may give any ID, one
in use or forgotten too. What a recall may return is the operator `Recallable`.

`ImplementsLifecycle` maps the snapshot to `MemoryLifecycle` (`Ledger`): a topic has one active
proposition at most, which only an explicit correction of that very one, expiry or forgetting ends;
an ID is never used for a second proposition.

Abstractions: scopes share nothing, so there is one; a topic is the pair of kind and topic; content
is what admission and consolidation tell apart, with `Sensitive` for all that admission denies by
content or sensitivity; a refusal (digest, policy, scope) and an error both end the operation with
no effect; the time of extraction is left out. A change set is a set because its changes claim
distinct IDs and so commute. `propose`, `recall` and `show` without expiry write nothing.

### CodingRun

`pc` follows `_execute`: targets, baseline, repository, context, agent, final, one `Validate` per
definition, verdict, finish; a failure of the agent goes through `Salvage`
(`_attempt_failure_observation`), every failure through `ReportFailure`. The workspace is one content
for each scope that the verdict asks about (`world`), and a snapshot is a function on the scopes in
which it has no blind spot. Whoever writes may put back what was there: a governed call, a validator
or somebody else may undo a change, before or after the final snapshot. `since` is history: who has
written since that snapshot. `attempts`, `touched` and `ran` are history too: what governed calls and
validators really did. A call whose effect is complete need not have changed anything (a command that
exits with code 0 is complete whatever it did, `coding_tools.py:2499`); one that says "none" has not.
`collected`, `toolComplete`, `complete` and `limitations` are what the application knows of it.

`_normalize_validators` checks the type and the number of definitions only, so `definitions` may have
an ID twice. `ValidatorRunner` then answers both, the ID has two results, and both slots become
`not_run`: such a run is indeterminate. A runner of one's own may answer less (the tests have one,
`IncompleteValidatorRunner`), and then one result fills both slots. `Returned` has these answers, and
`PassedIsEarned` says what is left then: the one answer for each ID is earned, and no definition was
without a process of its own unless that is just what happened.

The collector of a run is closed once, so the failing branch of `_close_records` cannot be reached
with it. The model has the branch anyway, as a choice in `MergeCollection`.

### Subprocess and CommandTool

The caller's loop (`CheckControl`, `Poll`, `LateControl`, `CheckClock`), the bounded cleanup
(`Terminate`, `Grace`, `Kill`, `LastReap`, `Join`) and `Render` are steps of one thread. Each stream
has a pipe with a capacity, a reader thread and a bounded collector; the child writes, forks a
descendant that inherits the pipes, exits, or ignores a terminate. `BufferedReader.read(n)` returns a
whole chunk or the end of the stream, so `held` bytes of an unfinished chunk are in no collector yet:
that is how output can be lost when the readers are not joined in time. A prepared command may find
its directory exchanged (`CwdChanges`). Left out: an error of `wait` itself, and which bytes they are.

### WorkspaceFiles, Observer, PatchTool and Workspace

A node has a kind, a content and a stamp. The stamp stands for device, inode, size and times, so a
`Signature` comparison is exact, as the code assumes it to be. A capture is the walk of the code: a
`stack` of directories, `List` scans one (with the entry limit, the excluded children and their
aggregate blind spots), `Visit` looks at one candidate, `ReadFile` reads what `Visit` found, each with
its stop check and its file system error. `Changes`, `ScopeIsClear` and `ExistenceIsClear` are the
comparison and the claims of `diff`.

`PatchTool` keeps the order of the code: prepare (`Ask`, `ResolveTarget`, `ReadTarget`, `Confirm`),
`Guard`, then the same again, `Recheck`, and the effect: `MakeTemp`, `WriteTemp`, `Replace` for an
update, `OpenNew`, `FillNew` for a create, `RemoveTarget` for a delete. Every `budget.check` may end
the call with the effect state written there. `Edit` is any other program, at any moment.

Left out: a path spelled in another way, names that are not UTF-8 (`PATH_UNREPRESENTABLE`), the
rendered diff. A directory is scanned, and a file read, in one step. A directory with something below
it is not exchanged for a link. The size of a directory is the number of its entries: a file that is
created or deleted makes `_compare_entries` report a MODIFY of the directory too, which
`DiffIsExact` accepts as a true change of that directory.

### RepositoryLoader, ContextBuilder and ContextRun

The loader reads instructions along the chain of the targets, then the catalog, then at most one body.
Each read is `Open` (resolve again, compare), `Take`, `Admit` (compare again), with the limits and
omissions of its kind; what is too large by its size is omitted in `Take`, before the second
comparison, as in the code. An error leaves no context at all. `aggregate` and `listed` are the running
totals of the two loaders. `ContextRun` then builds a window. `Project` is `build` up to the call of
the summarizer: the prefix (`Prefixed`: prompt, resources, recalled records), then the turns beside it
(`Trimmed`). `Summarize` is what follows: `Answered` takes the draft or refuses it, and `Assemble` makes
the last check. There are two callers: the coding application has a repository context and no history,
the session a transcript and what it recalls and no repository context. Both use the same operators,
in the order of the code.

A text is its length. A turn has the cost of its messages and the lines of its JSONL record; a recalled
record has the `size` of its content, which `select` counts, and the `rendered` size it has in the
memory message, where it is escaped and wrapped. `Total` adds lengths by counting characters. What a
loop keeps of a list is a set of places, because every one of these loops keeps the order of its list:
`Kept` is the set whose members are just those that fit beside the ones kept before them. There is
exactly one such set (the lemmas `KeptIs` and `KeptIsTheOnly` in the proofs), so this is the result of the loop and not a
choice among several. `Header` is what a summary message costs without its content.

Left out: the characters themselves, external skill roots (they compare signatures to the same end),
the grammar of skill metadata, and transcripts that are not complete (`SessionRun` stores no such).

## 3. The runs

| Run | Instance | Shows |
|---|---|---|
| `workflow` | conditional, then a group of two that may collide, or an end; one run starts and may be cancelled, expire, crash or cancel itself, a second resumes it meanwhile or replays it under a second ID | types; one terminal event that is true and durable; groups are all or nothing; completed is final; refinement of `DurableWorkflow` (and so no lost update); under fairness stopped runs and runs with a failed branch end |
| `workflow_deadline` | as `workflow` | finding: a deadline may end a run as FAILED with a `ValueError` |
| `session` | two callers, two application objects, one session; two iterations, two attempts; six kinds of completions | a turn is stored exactly when its caller got an answer, with all stages closed before the terminal event; nothing is executed twice, append-only, stops are honoured, locks released |
| `session_completed` | as `session` | finding: a completed run may end in a bare exception with nothing committed |
| `governed` | three calls, capacity two, one drift, a required and an optional pre-hook | effects are authorised, fresh at the boundary, accounted for, and once per reservation |
| `governed_blank` | one call, no drift | finding: an attempt may leave no evidence at all |
| `memory` | two clients, three IDs, one topic; a clock of three values that is set back once | no decision is found corrupt, list is never blocked, recall is unambiguous, expiry is invisible, refinement of `MemoryLifecycle` |
| `coding` | two validators, of two IDs or of one, two governed calls, two contents, room for one more limitation than configured | `PassedIsEarned`: "passed" needs clear scopes, recorded calls with known effects, and one clean process behind the one answer for each ID, started on what the diff shows unless somebody else wrote. `EvidenceIsHonest`: neither a result nor an error hides a call, and where no record claims an effect there was none |
| `command` | two streams, pipes of one byte, chunks of two, limits of one and none | `HonestResult` and `OutputIsWhole`; under fairness the call returns (`CommandReturns`) and a full pipe is drained or its reader failed (`NeverBlocked`) |
| `workspace` | seven paths, two of them excluded, three choices of limits; one edit, one fault | `EffectIsTrue`: none, partial and complete are true of the files. `StaleNotReplaced`: what was lost was asked for, or newer than the last check. `DiffIsExact`: a change of a settled path that is listed happened, and in a clear scope none is missing |
| `context` | two instructions and two skills, one edit; transcripts of up to four turns, budgets around every edge, both summarizers | `LoadedAsIs`: what is loaded is what the files hold. `WindowFits`: it fits, drops nothing that fits, and names what it leaves out. `SummaryIsHonest`: a summary claims no more turns than it was given, and only a line separator in a record makes the structural one claim more whole turns than it holds |
| `context_records` | as `context`, without the edit | finding: the structural summary may repeat part of a record |

### Bounds, and why they are enough

* *Workflow*: two runs are enough for a displaced run and its displacer; `Control`, `Mortal`, `Rogue`
  and `Starters` limit who may be stopped, crash, cancel itself or start, so that the other run is the
  undisturbed witness. The graph uses every kind of transition once, and one branch may write the
  other's key. A third run adds no new pair. Two racing calls of `start`, and user code that raises a
  timeout of its own, are in no run: the theorems are for any `Starters` and any `Rogue`, any number
  of runs and any definition.
* *Session*: two callers on two objects reach lock contention and store contention (both choose
  their object in `Init`). Two iterations let the model repeat a call across completions, two
  attempts let one retry happen and one be refused. Only one caller is stopped: the other must not
  notice.
* *Governed*: the third call meets a capacity of two, used or leaked. One drift per run can fall
  between any two steps, which is what a stale context needs; a drift back is no new case as the
  boundary looks only at the world it sees. Nothing distinguishes scopes, or versions, and only
  safety is checked, so the symmetry is sound.
* *Memory*: two clients make every race of one load with another apply. Three revisions and three
  IDs let a topic be added, corrected and forgotten, or expire and be renewed, before the last
  operation; a second topic would share nothing but the revision with the first. Candidates never
  expire, expire at 2, or are valid from 2 to 3: with three clock values and one set-back each can be
  early, due and late. Clients and IDs are interchangeable, and only safety is checked.
  `MaxTime`, `MaxSetBacks` and `MaxRevision` are bounds of the run; the theorems need none of them.
* *Coding*: each governed call ends in one of the combinations of effect and record, so two show that
  a bad one is not hidden by a good one. Two validators show that one clean process is not taken for
  two, and two contents that a change may be undone. `MaxLimitations` is met with one limitation to
  spare and with none. Only the final snapshot may have a blind spot: a diff is clear where both are.
* *Command*: a pipe is full after one byte, a chunk is incomplete after one, a limit of one is exceeded
  and a limit of zero reached at once. Larger numbers only repeat these cases.
* *Workspace*: one edit and one fault fall between any two steps. The three choices of limits let a
  capture pass, end in the middle of a directory, and run out of bytes; the second excluded file is
  what turns a blind spot into an aggregate. Every patch is asked to expect `old`, and the editor
  writes `old` too, so a target may come back with the same content and another stamp.
* *Context*: contents are such that each loader limit is met by one choice of files; active budgets
  from 3 to 9 lie around the cost of a prompt, a request, a summary and a turn, so that each branch is
  taken with one unit to spare and one too few. One kind of turn has two lines.
* The other constants (`Callers`, `Keys`, `Inputs`, `Versions`) have the least size at which their
  members can be confused.

Deadlock is checked in every run but three (`Done` is the only way to stop). The two
`governed` runs stop when the records are closed, and the `memory` run when the clock and the
revision have reached their bounds, so their configurations say `CHECK_DEADLOCK FALSE`.

### Fairness

`Workflow!Fairness`, `SessionRun!Fairness` and `CommandTool!Fairness`: the interpreter keeps running a thread, so the
program's own steps are weakly fair for every run. A handler, model, retriever or tool that waits on
its context returns once that context has ended; the docs ask this of them and the bundled ones do
it by `RunContext.wait` and `check_active`. Nothing makes a handler, a model or a tool return
before, and nothing makes a deadline pass. A caller that waits for a lock is not assumed to get
it (`threading.Lock` promises no order), so the liveness properties are about the run that holds it.
In `CommandTool` the tool's thread, each reader thread and time are weakly fair: `CommandReturns` rests
on the two deadlines of the cleanup. Nothing is assumed of the child or its descendant, which may
ignore signals, never write and never end.

`StoppedRunsEnd` and `FailedBranchReleasesRun` are stated as `[]<>`: a run stays stopped and an ended
run stays ended, and a failing run leaves `Failing` only by its end, so this is the same as "leads to".

## 4. Findings

* `workflow_deadline` (`execution.py:146`): `RunContext.child` checks the context and then reads
  the clock again. If the deadline passes in between, the child gets a timeout of zero and its
  constructor raises `ValueError`. The workflow ends FAILED, where the docs say TIMED_OUT.
* `session_completed` (`application.py:308`): the run is announced as completed before the
  candidate snapshot is validated. If the model uses one call ID twice in a completion, the
  candidate is refused by a bare `ValueError`, after the COMPLETED event and with no turn stored.
* `context_records` (`context.py:257`): `str.splitlines()` also splits at U+2028, U+2029 and U+0085,
  which `json.dumps(ensure_ascii=False)` leaves in a record. The structural summary then keeps or drops
  each line of such a record by itself, and may end up with half of one, where
  `docs/architecture.md:572-588` promises atomic records and no prefix of one. Each line also counts
  as a turn, so that the build may fail with "context summarizer returned an invalid source turn
  count" although the transcript is valid; `SummaryIsHonest` shows that nothing else makes it fail so.
* `governed_blank` (`tools.py:1190`): an executor that raises with an empty message makes the
  record invalid. The `ValueError` leaves the registry, no record says that the executor was
  called, and the run still believes its records are complete.

One more observation, which no run refutes: the guard context of an approval is built before the
operator is asked, so what drifts while they think is not seen by that revalidation. It is seen at
the effect boundary, which is what `NoStaleEffect` and its mutant show.

More observations have no run of their own:

* A create that has written its whole file and then meets the budget is reported as partial; a
  stop while the temporary file is written is reported as an update that failed with unknown effect.
  Both claim less than is known, so `EffectIsTrue` allows them.
* A plain tool's poll catches `concurrent.futures.TimeoutError` (`tools.py:568`), which is the built-in
  `TimeoutError` since Python 3.11. A handler that raises one (a socket timeout, say) is taken for one
  that has not ended: the loop spins until the timeout of the tool and answers "timeout", where ADR
  0002 and the tests promise an execution error. A handler may also raise a control error that is not
  this run's, and so end it as CANCELLED or TIMED_OUT although nobody stopped it.
* A handler of a workflow, its selector or a branch may do the same: the runner cannot tell its
  cancellation or timeout from one of the run, and announces the run as CANCELLED or TIMED_OUT.
* Two validator definitions of one ID, and a runner that answers only one of them, give the verdict
  "passed" though one definition never ran (`coding.py:1091-1116`); `docs/phase-9-detailed-design.md:547`
  asks that "every configured validator passed". With `ValidatorRunner` such a run is indeterminate.
* After `Popen` an exception (a reader thread that cannot be started) leaves the child running and
  unreaped; the tool then reports an unknown effect, which is true.

## 5. What is proved

`WorkflowProofs` proves, for every acyclic definition, every set of runs and workflow IDs, every
parallelism and any choice of who may crash or be stopped:

* `TypeCorrect`: `Spec => []TypeOK`;
* `Refinement`: `Spec => RefinesDurable`, the store is a fenced linear history;
* `CompletedForever`: `Spec => CompletedIsFinal`;
* `Inductive`: `Spec => []IInv`, the invariant the others rest on.

The assumptions are `GraphAssumption` (what `WorkflowDefinition` validates) and `RunsAssumption`;
TLC evaluates both in the runs.

`TypeOK` and the revision test alone are not inductive. A save that passes the test has to be a
step of the abstract history, and that needs to know that equal revisions mean equal checkpoints.
`IInv` adds three facts. `Holds`: a run between its first save and its end has a copy the store
still has, and then it is the owner, or that the store has moved beyond. `Opens`: the same before
the first save, when the copy may also be a fresh one. `Drafts`: what a run is about to save follows
from its copy by one node, and by nothing but updates of that node and its branches. Each step of
one run preserves them for all runs, because a save raises the revision (`SaveStep`), and any other
step leaves the store alone (`QuietStep`).

`MemoryProofs` proves, for every set of clients, IDs, topics, contents and candidates, every clock
and any number of operations:

* `TypeCorrect`: `Spec => []TypeOK`;
* `DecisionsAreSound`: `Spec => []SoundDecisions`;
* `InspectionIsNeverBlocked`: `Spec => []InspectionNotBlocked`;
* `MemoryImplementsLifecycle`: `Spec => ImplementsLifecycle`;
* `Invariant`: `Spec => []IInv`, the invariant the others rest on.

The assumption is `MemoryAssumption`; what it says of `Candidates` is what the constructor of
`MemoryCandidate` accepts. `IInv` says of the store that a topic has one active record and that no
active record was updated at or after its expiry (`NotDueYet`); of a client that has begun, that its
candidate was admitted at the very clock value it will be confirmed with (`RequestInv`); and of a
client that has decided, that its change set applies as long as the revision is the one it was
decided on, has one of the shapes the service makes, and writes records that are not due
(`DecisionInv`). `NotDueYet` is the link: a record that is due was updated strictly before, so its
expiry passes the store's test that updates move forward, whatever the clock did. Apply moves the
revision, so it makes every other pending decision stale, and `StoreStep` shows that it keeps the
store's part. The refinement follows the shape of the applied change set: one change is
one step of the lifecycle (or a refresh, which is none), an expiry with an addition is a renewal, and
a set of expiries is an expiry.

No update is lost by the first refinement: `DurableWorkflow` lets only the owner advance a workflow.
Two more results are about what `IInv` does not say. `RecallNeverContradicts` (`RecallIsUnambiguous`)
adds `Corrections`: the target of a correction is out of use, and its ID is taken for ever, so the
corrected proposition never comes back beside the correction. `InspectionIsARead`
(`ExpiryIsInvisible`) adds `OneClock`: the expiries that one list or show writes carry one time.

Three more of `Workflow`: `OneEnd` (`OneTerminalEvent`), `OutcomesAreTrue` (`OutcomeIsTrue`) and
`GroupsAreAtomic` (`AllOrNothing`). The first two need `ReportInv`, which says for each place of a
run what it has emitted, what it is about to raise and what the store holds then. The third needs
`WholeInv`: in a stored checkpoint the branches of a group are completed with it, all of them or none,
and every value comes from a completed node. By the refinement the store changes only by steps of
`DurableWorkflow`, so it is enough that its `Advance` keeps a checkpoint whole.

The other modules follow the same plan: an `IInv` that is inductive, first checked by TLC as an
invariant of the run, then proved action by action; `Inductive` states it, the properties follow.

| Module | Theorems (property) | What the induction needs beyond the properties |
|---|---|---|
| `SessionRunProofs` | `TypeCorrect`, `AnsweredAreStored` (`AnsweredIsStored`), `NothingTwice` (`NoCallTwice`), `SessionGrows` (`AppendOnly`), `StopsAreHonoured` (`StopIsHonoured`) | what a caller has by the stage it is in: no answer before it has left, no terminal event before its end (`Outcome`), no open stage but the one it is in (`OpenStage`), what was executed was noted as seen, each another call (`Executions`), and a turn is stored exactly for a caller that was answered (`Stored`) |
| `GovernedActionProofs` | `TypeCorrect`, `EffectsAreAuthorised` (`AuthorisedEffects`), `EffectsAreAccounted` (`EffectsAccounted`), `EffectsAreFresh` (`NoStaleEffect`) | the authority a call has gathered by its phase (`Authority`), that tokens are handed out in order and each belongs to one call (`Tokens`, `Fresh`), that a record belongs to a call that has ended with as many attempts (`RecordsAreTrue`) |
| `CodingRunProofs` | `TypeCorrect`, `VerdictIsEarned` (`PassedIsEarned`), `NothingHidden` (`EvidenceIsHonest`) | nothing to show before the agent has run (`Untouched`), no governed call comes after the final snapshot, and until somebody else writes the workspace is what it shows (`Snapped`), each governed call is recorded with its effect, and each change claimed, or it has left its mark (`Calls`), missing records are named before any limitation that could push them out (`Told`), an answer "passed" is backed by a clean process of its ID, and the answers are complete or too few (`Validated`) |
| `CommandToolProofs` | `TypeCorrect`, `ResultIsHonest` (`HonestResult`), `OutputIsKept` (`OutputIsWhole`) | what has happened by the stage of the call (`Stages`, `CleanupIsTrue`), what status and code say of the child (`Exits`, `StatusIsTrue`), that a reader which has finished has read all there will ever be (`Finished`), and that every byte written is in the pipe, in an unfinished chunk or collected, or its stream is marked (`Conserved`) |
| `WorkspaceProofs` | `TypeCorrect`, `EffectsAreTrue` (`EffectIsTrue`), `NothingStaleIsLost` (`StaleNotReplaced`), `DiffsAreExact` (`DiffIsExact`) | below |
| `ContextRunProofs` | `TypeCorrect`, `LoadsAreTrue` (`LoadedAsIs`), `WindowsFit` (`WindowFits`), `SummariesAreHonest` (`SummaryIsHonest`) | no signature is younger than the clock, so what was read under one is still the content of the file with that stamp (`Holds`); a body is read from the path and under the signature of its entry (`FromCatalog`); while the summarizer runs, the prefix leaves room for the required turns and leaves out only what does not fit (`PrefixOK`), the turns kept so far fit beside it, and the source of the summary is made of the others (`Pending`) |

`WorkspaceProofs` is the largest. For a patch, `CallInv` says what of the target is known at each of
its steps: the file it read is the one it resolved, what it may destroy is what it expected or newer
than its last check, and what it holds open is its own. For a capture, `WalkInv` and `SnapshotsOK` rest
on `Covered`: at every moment of a walk, whatever was there when the capture began and has been left
alone since is an entry already, or hidden by a blind spot, or still to be visited by a frame of the
stack. Then a finished capture, whose stack is empty, has seen everything outside its blind spots,
and the comparison of two such captures is exact. That needs no induction over the tree: `Above`
is defined as a least set closed under `Parent`, and the lemmas about it follow from closure.

`ContextRunProofs` has one induction over time and a calculus for the rest, because a window is built in
two steps and most of what can go wrong is arithmetic. `KeptIs` shows that the greedy loop has its
result, whatever the order and the limits: an element of least rank on which two sets disagree
(`LeastOf`, `RankOf`) would be treated alike by both (`KeptIsTheOnly`), and the elements up to a rank
always have a set of their own. From it follow `ProjectRepositoryFits`, `SelectIsRight`, `ProjectMemoryFits` and `NewestFit`:
what is kept is within every limit, and what is not kept would break one, not only when the loop came
to it but still beside everything kept later, since costs only grow (`FitsBesideFewer`,
`MemoryAccounted`). `TotalAdd` and `TurnCostStep` say what one more text or turn costs; with them `MostTurnsFit` shows
that the next turn does not fit. `LinesOfWhole` and `DraftIsRight` are about the structural summary: a line
kept is a whole record, unless a record has a line separator in it.

TLC found each `IInv` invariant before it was proved: `SessionRun` in 147,680 states, `GovernedAction`
5,050,352, `CodingRun` 4,100,752, `CommandTool` 558,296, `Workspace` 2,058,502, `ContextRun` 199,612;
`Workflow` with `ReportInv` and `WholeInv` 141,416; `Corrections` and `OneClock` in the 215,971 of
`memory`. The first attempts were not inductive, and what was missing is what the last
column names.

The assumptions are those of the modules, and TLC evaluates them in the runs. They say what
constructors validate: a bounded list of limitations, a completion whose calls are a
sequence, limits that are positive, a tree whose paths all lead to the root. Four only name things
apart: `None` is no status and no effect of a command, no content and no snapshot of a coding run, and
`"none"` is no scope.
That the records of a memory have IDs of their own is what `_validate_records` of `memory_recall.py`
refuses otherwise.
The bounds of the runs (`MaxEdits`, `MaxDrifts`, `MaxCalls`, ...) are any number in the theorems.

Only model-checked:

* All liveness: `CommandReturns`, `NeverBlocked`, that stopped runs end and locks are released. Liveness
  under fairness, and ENABLED, are out of the prover's reach.
* The four violations of section 4, which are false.

## 6. What is not modelled

* Data: prompts, texts, digests, schemas, sanitizing, rendering, embeddings and scores.
* Store files as bytes. A save is atomic here, as `os.replace` is on a local file system. The
  revision check and the replace are protected by a lock of the store object. Two
  `JsonFileCheckpointStore` objects on one directory can both pass the check; the docs limit them to
  one process at a time. That hazard is listed and not modelled.
* Handlers' side effects. At-least-once execution of a node after a crash is by design; the model
  has it (a node runs again), the outside world has no state in it.
* The worker thread of a plain tool that goes on after its timeout (`tools.py:551`). That hazard is
  listed; `SessionRun` treats such a tool as one step, and takes from it only that it answers, fails
  or ends with the run. What a handler does after it was given up is nobody's state in the runtime.
* The read and search tools, `Workspace.walk`, the normalisation of path spellings, rendered diffs:
  they change nothing.
* `create` and `resume` of a session, the chat and stateless applications: the session run without its
  store, or single loads and saves.
* Retrieval and memory extraction: floating point and parsing. A candidate of `Memory` may be any.
* Providers, command lines, evaluation harnesses, configuration: I/O or data.

## 7. Plan

Order: what loses or corrupts a user's data first.

1. One abstract executor that `PatchTool` and `CommandTool` refine and `GovernedAction` calls. Today the
   link is by their properties: `ExecutorReturns` takes it that a call which claims no effect changed
   nothing, and `EffectsAreTrue` and `ResultIsHonest` prove it of the two tools.
2. Plain tools with their worker thread after a timeout.
