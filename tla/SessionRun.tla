----------------------------- MODULE SessionRun -----------------------------
(***************************************************************************)
(* SessionAgentApplication.run (src/dqagent/application.py): one user turn *)
(* on a durable session, through RunCoordinator.execute (lifecycle.py),    *)
(* retrieval, memory recall, context assembly and the bounded model/tool   *)
(* loop of AgentRuntime.execute (runtime.py), to the compare-and-swap of   *)
(* the session store (session.py).                                         *)
(*                                                                         *)
(* Callers are threads.  Each runs one turn through an application object; *)
(* an object's lock serialises its own callers, separate objects share     *)
(* only the session.  A turn moves through pc:                             *)
(*                                                                         *)
(*  idle -> waiting -> entering -> started -> retrieve -> recall ->        *)
(*  context -> request -> model -> tools <-> executing                     *)
(*                ^  v       |       |                                     *)
(*              backoff      |       +-> request (the next iteration)      *)
(*                           +-> finish -> commit -> ended                 *)
(*                                                                         *)
(* and any stage may fail, which goes straight to ended.  The model, the   *)
(* tools, the retriever and the memory service are outside: they answer    *)
(* anything, raise, or run until their context is no longer active.        *)
(***************************************************************************)
EXTENDS Naturals, Sequences, FiniteSets, SequencesExt

CONSTANTS Callers, Apps, Nobody,
          Completions,     \* Completions[c]: what the model may answer c's run
          MaxIterations,   \* AgentRuntime(max_iterations)
          MaxAttempts,     \* RetryPolicy.max_attempts
          HasRetriever, HasMemory,   \* what the applications are configured with
          Control          \* bound: the callers that may cancel or run out of time

ASSUME SessionAssumption ==
    /\ Nobody \notin Callers
    /\ Apps # {}
    /\ MaxIterations \in Nat \ {0}
    /\ MaxAttempts \in Nat \ {0}
    /\ HasRetriever \in BOOLEAN /\ HasMemory \in BOOLEAN
    /\ Control \subseteq Callers
    \* Completion.__post_init__: text or a tuple of calls; a call is an ID and
    \* the canonical name and arguments of _execution_key.
    /\ \A c \in Callers : \A m \in Completions[c] :
          m.calls \in Seq(ToSet(m.calls)) /\ (m.text \/ m.calls # << >>)

VARIABLES
    session,        \* the turns the store holds; its revision counts them
    lock,           \* lock[a]: the caller inside application a
    app,            \* the application c calls
    pc, base,       \* where c is; the revision of the snapshot it loaded
    items,          \* what c's turn adds to the transcript
    todo,           \* tool calls of the last completion not yet processed
    iteration, attempt,
    seen, executed, \* calls c has processed; executed is history
    open,           \* stages that announced a start and no end
    terminal,       \* c's terminal event
    answer,         \* what the caller got: its class
    cancelled, expired

loop == <<items, todo, iteration, attempt, seen, executed>>
context == <<cancelled, expired>>
vars == <<session, lock, app, pc, base, loop, open, terminal, answer, context>>

----------------------------------------------------------------------------
Init ==
    /\ session = << >>
    /\ lock = [a \in Apps |-> Nobody]
    /\ app \in [Callers -> Apps]
    /\ pc = [c \in Callers |-> "idle"]
    /\ base = [c \in Callers |-> 0]
    /\ items = [c \in Callers |-> << >>]
    /\ todo = [c \in Callers |-> << >>]
    /\ iteration = [c \in Callers |-> 0]
    /\ attempt = [c \in Callers |-> 0]
    /\ seen = [c \in Callers |-> {}]
    /\ executed = [c \in Callers |-> << >>]
    /\ open = [c \in Callers |-> {}]
    /\ terminal = [c \in Callers |-> "none"]
    /\ answer = [c \in Callers |-> "none"]
    /\ cancelled = [c \in Callers |-> FALSE]
    /\ expired = [c \in Callers |-> FALSE]

CheckActive(c) == IF cancelled[c] THEN "cancelled"
                  ELSE IF expired[c] THEN "timed_out"
                  ELSE "none"

Cancel(c) ==
    /\ c \in Control /\ ~cancelled[c] /\ pc[c] # "ended"
    /\ cancelled' = [cancelled EXCEPT ![c] = TRUE]
    /\ UNCHANGED <<session, lock, app, pc, base, loop, open, terminal, answer, expired>>

Expire(c) ==
    /\ c \in Control /\ ~expired[c] /\ pc[c] # "ended"
    /\ expired' = [expired EXCEPT ![c] = TRUE]
    /\ UNCHANGED <<session, lock, app, pc, base, loop, open, terminal, answer, cancelled>>

Goto(c, label) == pc' = [pc EXCEPT ![c] = label]

\* The lock is released, and the caller has its result or an exception.
Leave(c, result) ==
    /\ Goto(c, "ended")
    /\ lock' = [lock EXCEPT ![app[c]] = Nobody]
    /\ answer' = [answer EXCEPT ![c] = result]

\* A start or an end of a stage is announced.
Opens(c, stage) == open' = [open EXCEPT ![c] = @ \union {stage}]
Closes(c, stage) == open' = [open EXCEPT ![c] = @ \ {stage}]

\* RunCoordinator._fail for an error of class e: a control error keeps its
\* kind, anything else is a failure.  The error reaches the caller.
TerminalOf(e) == CASE e = "cancelled" -> "CANCELLED"
                   [] e = "timed_out" -> "TIMED_OUT"
                   [] OTHER -> "FAILED"

Fails(c, e) ==
    /\ terminal' = [terminal EXCEPT ![c] = TerminalOf(e)]
    /\ Leave(c, "run_error")

\* Control goes on at label, or the run fails with e.
GotoOrFail(c, label, e) ==
    IF e = "none" THEN Goto(c, label) /\ UNCHANGED <<lock, terminal, answer>> ELSE Fails(c, e)

----------------------------------------------------------------------------
(* SessionAgentApplication.run, up to the start of the run *)

Call(c) ==
    /\ pc[c] = "idle"
    /\ Goto(c, "waiting")
    /\ UNCHANGED <<session, lock, app, base, loop, open, terminal, answer, context>>

\* The application's lock, then the snapshot.
Enter(c) ==
    /\ pc[c] = "waiting"
    /\ lock[app[c]] = Nobody
    /\ lock' = [lock EXCEPT ![app[c]] = c]
    /\ base' = [base EXCEPT ![c] = Len(session)]
    /\ Goto(c, "entering")
    /\ UNCHANGED <<session, app, loop, open, terminal, answer, context>>

\* The session cannot be loaded.
EnterRaises(c) ==
    /\ pc[c] = "waiting"
    /\ lock[app[c]] = Nobody
    /\ Leave(c, "session_error")
    /\ UNCHANGED <<session, app, base, loop, open, terminal, context>>

\* RunContext.child, outside the coordinator: a control error, or the
\* ValueError of a deadline that passes between its two readings, reaches the
\* caller before the run has started.
Child(c) ==
    /\ pc[c] = "entering"
    /\ \/ /\ CheckActive(c) # "none"
          /\ Leave(c, "run_error")
       \/ /\ expired[c]
          /\ Leave(c, "bare_error")
       \/ /\ CheckActive(c) = "none"
          /\ Goto(c, "started")
          /\ UNCHANGED <<lock, answer>>
    /\ UNCHANGED <<session, app, base, loop, open, terminal, context>>

----------------------------------------------------------------------------
(* _execute_run_stages *)

\* The label of the first configured stage from s on.
FirstStage == IF HasRetriever THEN "retrieve" ELSE IF HasMemory THEN "recall" ELSE "context"
AfterRetrieval == IF HasMemory THEN "recall" ELSE "context"

\* What going on at label announces.
Announces(c, label) == IF label \in {"retrieve", "recall"} THEN {label} ELSE {}

\* The checks of RunCoordinator.execute and of the first stage.
Begin(c) ==
    /\ pc[c] = "started"
    /\ GotoOrFail(c, FirstStage, CheckActive(c))
    /\ open' = [open EXCEPT ![c] = IF CheckActive(c) = "none" THEN Announces(c, FirstStage) ELSE @]
    /\ UNCHANGED <<session, app, base, loop, context>>

\* A stage ends: its end or failure is announced, and the run goes on at label
\* or fails with e.
StageEnds(c, stage, label, e) ==
    /\ pc[c] = stage
    /\ GotoOrFail(c, label, e)
    /\ open' = [open EXCEPT ![c] = (@ \ {stage}) \union
                                     (IF e = "none" THEN Announces(c, label) ELSE {})]
    /\ UNCHANGED <<session, app, base, loop, context>>

RetrievalReturns(c) == StageEnds(c, "retrieve", AfterRetrieval, CheckActive(c))
RetrievalRaises(c) == StageEnds(c, "retrieve", AfterRetrieval, "failed")
RetrievalStops(c) == CheckActive(c) # "none" /\ RetrievalReturns(c)

\* The memory is recalled, or a DQMemoryError is announced as a fallback while
\* the run is still active, and the run goes on without memory.
RecallReturns(c) == StageEnds(c, "recall", "context", CheckActive(c))
RecallStops(c) == CheckActive(c) # "none" /\ RecallReturns(c)

\* Any other exception; a control error that has meanwhile won goes first.
RecallRaises(c) ==
    StageEnds(c, "recall", "context", IF CheckActive(c) = "none" THEN "failed" ELSE CheckActive(c))

\* The context window is built; AgentRuntime.execute checks the run.
ContextBuilt(c) ==
    /\ pc[c] = "context"
    /\ GotoOrFail(c, "request", CheckActive(c))
    /\ iteration' = [iteration EXCEPT ![c] = 1]
    /\ attempt' = [attempt EXCEPT ![c] = 1]
    /\ UNCHANGED <<session, app, base, items, todo, seen, executed, open, context>>

ContextRaises(c) ==
    /\ pc[c] = "context"
    /\ Fails(c, "failed")
    /\ UNCHANGED <<session, app, base, loop, open, context>>

----------------------------------------------------------------------------
(* AgentRuntime._complete_with_retry *)

Request(c) ==
    /\ pc[c] = "request"
    /\ GotoOrFail(c, "model", CheckActive(c))
    /\ IF CheckActive(c) = "none" THEN Opens(c, "model") ELSE UNCHANGED open
    /\ UNCHANGED <<session, app, base, loop, context>>

Item(kind, call) == [kind |-> kind, id |-> call.id]
Text == [kind |-> "text", id |-> Nobody]

\* The model answers in time: text alone ends the loop, calls are processed.
ModelReturns(c, m) ==
    /\ pc[c] = "model"
    /\ m \in Completions[c]
    /\ CheckActive(c) = "none"
    /\ Closes(c, "model")
    /\ items' = [items EXCEPT ![c] = @ \o (IF m.text THEN <<Text>> ELSE << >>)
                                       \o [i \in DOMAIN m.calls |-> Item("call", m.calls[i])]]
    /\ todo' = [todo EXCEPT ![c] = m.calls]
    /\ Goto(c, IF m.calls = << >> THEN "finish" ELSE "tools")
    /\ UNCHANGED <<session, lock, app, base, iteration, attempt, seen, executed,
                   terminal, answer, context>>

\* It raises something that is not retried.
ModelRaises(c) ==
    /\ pc[c] = "model"
    /\ Closes(c, "model")
    /\ Fails(c, "failed")
    /\ UNCHANGED <<session, app, base, loop, context>>

\* A model that is called without the context.
ModelWithoutContext(c) == FALSE

\* It answers, or notices, when the run is no longer active.
ModelStops(c) ==
    /\ pc[c] = "model"
    /\ CheckActive(c) # "none"
    /\ Closes(c, "model")
    /\ Fails(c, CheckActive(c))
    /\ UNCHANGED <<session, app, base, loop, context>>

\* A retryable LLMProviderError: another attempt after a delay, if any is left.
ModelRetries(c) ==
    /\ pc[c] = "model"
    /\ Closes(c, "model")
    /\ IF attempt[c] < MaxAttempts
       THEN /\ attempt' = [attempt EXCEPT ![c] = @ + 1]
            /\ Goto(c, "backoff")
            /\ UNCHANGED <<lock, terminal, answer>>
       ELSE Fails(c, "failed") /\ UNCHANGED attempt
    /\ UNCHANGED <<session, app, base, items, todo, iteration, seen, executed, context>>

\* RunContext.wait: the delay has passed, or the run has ended.
Backoff(c) ==
    /\ pc[c] = "backoff"
    /\ GotoOrFail(c, "request", CheckActive(c))
    /\ UNCHANGED <<session, app, base, loop, open, context>>

----------------------------------------------------------------------------
(* The tool calls of one completion *)

\* Only the call ID tells a repeated call.
SameId(c, call) == \E s \in seen[c] : s.id = call.id

Repeated(c, call) == \E s \in seen[c] : s.id = call.id \/ s.key = call.key

\* The check before each call; a repeated one is answered without being run.
TakeCall(c) ==
    LET call == Head(todo[c]) IN
    /\ pc[c] = "tools"
    /\ todo[c] # << >>
    /\ CheckActive(c) = "none"
    /\ IF Repeated(c, call)
       THEN /\ items' = [items EXCEPT ![c] = Append(@, Item("result", call))]
            /\ todo' = [todo EXCEPT ![c] = Tail(@)]
            /\ UNCHANGED <<pc, seen, executed, open>>
       ELSE /\ seen' = [seen EXCEPT ![c] = @ \union {call}]
            /\ executed' = [executed EXCEPT ![c] = Append(@, call)]
            /\ Opens(c, "tool")
            /\ Goto(c, "executing")
            /\ UNCHANGED <<items, todo>>
    /\ UNCHANGED <<session, lock, app, base, iteration, attempt, terminal, answer, context>>

CallsStop(c) ==
    /\ pc[c] = "tools"
    /\ todo[c] # << >>
    /\ CheckActive(c) # "none"
    /\ Fails(c, CheckActive(c))
    /\ UNCHANGED <<session, app, base, loop, open, context>>

\* A result, of success or failure: ToolRegistry.execute_detailed returned.
ToolReturns(c) ==
    /\ pc[c] = "executing"
    /\ items' = [items EXCEPT ![c] = Append(@, Item("result", Head(todo[c])))]
    /\ todo' = [todo EXCEPT ![c] = Tail(@)]
    /\ Closes(c, "tool")
    /\ Goto(c, "tools")
    /\ UNCHANGED <<session, lock, app, base, iteration, attempt, seen, executed,
                   terminal, answer, context>>

\* A control error, or an unexpected exception; its start stays open.
ToolRaises(c, e) ==
    /\ pc[c] = "executing"
    /\ e \in {CheckActive(c), "failed"} \ {"none"}
    /\ Fails(c, e)
    /\ UNCHANGED <<session, app, base, loop, open, context>>

\* The bound counts iterations from zero.
OneMore(c) == iteration[c] <= MaxIterations

MoreIterations(c) == iteration[c] < MaxIterations

\* The next model request, unless the iterations are used up (AgentLoopError).
NextIteration(c) ==
    /\ pc[c] = "tools"
    /\ todo[c] = << >>
    /\ IF MoreIterations(c)
       THEN /\ iteration' = [iteration EXCEPT ![c] = @ + 1]
            /\ attempt' = [attempt EXCEPT ![c] = 1]
            /\ Goto(c, "request")
            /\ UNCHANGED <<lock, terminal, answer>>
       ELSE Fails(c, "failed") /\ UNCHANGED <<iteration, attempt>>
    /\ UNCHANGED <<session, app, base, items, todo, seen, executed, open, context>>

----------------------------------------------------------------------------
(* The end of the run and the session transaction *)

\* A coordinator that trusts its operation.
NoCheck(c) == "none"

\* RunCoordinator.execute checks once more after the operation has returned.
FinalCheck(c) == CheckActive(c)

Finish(c) ==
    /\ pc[c] = "finish"
    /\ IF FinalCheck(c) = "none"
       THEN /\ terminal' = [terminal EXCEPT ![c] = "COMPLETED"]
            /\ Goto(c, "commit")
            /\ UNCHANGED <<lock, answer>>
       ELSE Fails(c, FinalCheck(c))
    /\ UNCHANGED <<session, app, base, loop, open, context>>

\* validate_complete_transcript: every call is answered before its ID is used
\* again, every result answers a call, and the turn ends with text.
Outstanding(s, i) ==
    {d \in {s[j].id : j \in DOMAIN s} :
       \E j \in 1..(i - 1) : /\ s[j] = [kind |-> "call", id |-> d]
                             /\ \A k \in (j + 1)..(i - 1) : s[k] # [kind |-> "result", id |-> d]}

ValidTurn(s) ==
    /\ \A i \in DOMAIN s : /\ s[i].kind = "call" => s[i].id \notin Outstanding(s, i)
                           /\ s[i].kind = "result" => s[i].id \in Outstanding(s, i)
    /\ Outstanding(s, Len(s) + 1) = {}
    /\ Last(s) = Text

\* The candidate snapshot cannot be built: a ValueError.
CandidateRefused(c) ==
    /\ pc[c] = "commit"
    /\ ~ValidTurn(items[c])
    /\ Leave(c, "bare_error")
    /\ UNCHANGED <<session, app, base, loop, open, terminal, context>>

LastWriterWins(c) == TRUE

\* _next_snapshot: the store still holds the revision the turn started from.
RevisionMatches(c) == Len(session) = base[c]

Commit(c) ==
    /\ pc[c] = "commit"
    /\ ValidTurn(items[c])
    /\ RevisionMatches(c)
    /\ session' = Append(SubSeq(session, 1, base[c]), [by |-> c, items |-> items[c]])
    /\ Leave(c, "returned")
    /\ UNCHANGED <<app, base, loop, open, terminal, context>>

\* SessionConflictError, or the store cannot be written.
CommitRaises(c) ==
    /\ pc[c] = "commit"
    /\ ValidTurn(items[c])
    /\ Leave(c, "session_error")
    /\ UNCHANGED <<session, app, base, loop, open, terminal, context>>

----------------------------------------------------------------------------
\* The program's own steps.
Step(c) == \/ Child(c) \/ Begin(c) \/ Request(c) \/ Backoff(c)
           \/ TakeCall(c) \/ CallsStop(c) \/ NextIteration(c)
           \/ Finish(c) \/ CandidateRefused(c) \/ Commit(c) \/ CommitRaises(c)

\* Collaborators that notice their context has ended.
Stops(c) == \/ RetrievalStops(c) \/ RecallStops(c) \/ ModelStops(c)
            \/ \E e \in {"cancelled", "timed_out"} : ToolRaises(c, e)

\* What collaborators may do besides.
Outside(c) == \/ RetrievalReturns(c) \/ RetrievalRaises(c)
              \/ RecallReturns(c) \/ RecallRaises(c)
              \/ ContextBuilt(c) \/ ContextRaises(c)
              \/ \E m \in Completions[c] : ModelReturns(c, m)
              \/ ModelRaises(c) \/ ModelRetries(c)
              \/ ToolReturns(c) \/ ToolRaises(c, "failed")

Done == (\A c \in Callers : pc[c] = "ended") /\ UNCHANGED vars

Next == \/ \E c \in Callers : \/ Call(c) \/ Enter(c) \/ EnterRaises(c)
                              \/ Step(c) \/ Stops(c) \/ Outside(c)
                              \/ Cancel(c) \/ Expire(c)
        \/ Done

Spec == Init /\ [][Next]_vars

\* Threads keep running; a collaborator that waits on its context, or builds
\* a context window, returns once that has ended.
Fairness == \A c \in Callers : WF_vars(Step(c)) /\ WF_vars(Stops(c))
                               /\ WF_vars(ContextBuilt(c) \/ ContextRaises(c))

FairSpec == Spec /\ Fairness

----------------------------------------------------------------------------
(* Properties *)

AllCalls == UNION {UNION {ToSet(m.calls) : m \in Completions[c]} : c \in Callers}

ItemType == [kind : {"text", "call", "result"}, id : {x.id : x \in AllCalls} \union {Nobody}]

\* The type of every variable.
TypeOK ==
    /\ session \in Seq([by : Callers, items : Seq(ItemType)])
    /\ lock \in [Apps -> Callers \union {Nobody}]
    /\ app \in [Callers -> Apps]
    /\ pc \in [Callers -> {"idle", "waiting", "entering", "started", "retrieve", "recall", "context",
                           "request", "model", "backoff", "tools", "executing", "finish", "commit",
                           "ended"}]
    /\ base \in [Callers -> Nat]
    /\ items \in [Callers -> Seq(ItemType)]
    /\ todo \in [Callers -> Seq(AllCalls)]
    /\ iteration \in [Callers -> 0..MaxIterations]
    /\ attempt \in [Callers -> 0..MaxAttempts]
    /\ seen \in [Callers -> SUBSET AllCalls]
    /\ executed \in [Callers -> Seq(AllCalls)]
    /\ open \in [Callers -> SUBSET {"retrieve", "recall", "model", "tool"}]
    /\ terminal \in [Callers -> {"none", "COMPLETED", "FAILED", "CANCELLED", "TIMED_OUT"}]
    /\ answer \in [Callers -> {"none", "run_error", "bare_error", "session_error", "returned"}]
    /\ cancelled \in [Callers -> BOOLEAN]
    /\ expired \in [Callers -> BOOLEAN]

\* A turn is in the session exactly when its caller got a result, after a run
\* that announced its completion: callers of separate applications that race
\* for one revision neither overwrite a turn that was answered nor leave one
\* behind that was refused.  Whichever way it ends, its terminal event comes
\* after every model request, retrieval and recall was closed by an end or a
\* failure (docs/architecture.md, line 394).
AnsweredIsStored ==
    \A c \in Callers :
       LET stored == \E i \in DOMAIN session : session[i].by = c IN
       /\ stored <=> (answer[c] = "returned")
       /\ stored => terminal[c] = "COMPLETED"
       /\ terminal[c] # "none" => open[c] \subseteq {"tool"}

\* The session only grows: no committed turn is ever lost or rewritten.
AppendOnly == [][IsPrefix(session, session')]_session

\* One run executes no tool call twice, by ID or by meaning, however often the
\* model repeats it and however many of its requests are retried.
NoCallTwice ==
    \A c \in Callers : \A i, j \in DOMAIN executed[c] :
       i # j => /\ executed[c][i].id # executed[c][j].id
                /\ executed[c][i].key # executed[c][j].key

\* A run that is cancelled or out of time while its stages run never completes
\* and never reaches the session (docs/architecture.md, lines 610
\* to 612), at whatever stage the signal arrives.
StopIsHonoured ==
    \A c \in Callers :
       [](CheckActive(c) # "none" /\ pc[c] \notin {"commit", "ended"} => [](terminal[c] # "COMPLETED"))

\* A run that is stopped lets go of the application: callers behind it go on.
StoppedRunReleases ==
    \A c \in Callers : (CheckActive(c) # "none" /\ lock[app[c]] = c) ~> (lock[app[c]] # c)

\* A run that announced its completion is committed, or its caller gets a
\* session error (docs/architecture.md 343 to 347, 405).
CompletedRunsCommit == \A c \in Callers : terminal[c] = "COMPLETED" => answer[c] # "bare_error"
=============================================================================
