-------------------------- MODULE SessionRunProofs --------------------------
(***************************************************************************)
(* Proofs about SessionRun for any number of callers and applications, any *)
(* completions of the model and any bounds on iterations and attempts.     *)
(*                                                                         *)
(* The induction needs what a caller has by the stage it is in (Outcome,   *)
(* Announced): no answer before it has left, no terminal event before its  *)
(* end, and no start of a stage other than the one it is in.               *)
(***************************************************************************)
EXTENDS SessionRun, SequenceTheorems, TLAPS

\* Before a run ends it has no answer, and no terminal event before it commits;
\* what is committed has announced its completion.
Outcome(c) ==
    /\ pc[c] # "ended" => answer[c] = "none"
    /\ pc[c] \notin {"commit", "ended"} => terminal[c] = "none"
    /\ pc[c] = "commit" => terminal[c] = "COMPLETED"
    /\ answer[c] = "returned" => terminal[c] = "COMPLETED"

\* The stage whose start has been announced and whose end has not.
Announced(label) == IF label \in {"executing", "ended"} THEN {"tool"} ELSE {label}

OpenStage(c) == open[c] \subseteq Announced(pc[c])

\* What was executed was noted, and every one of them is another call.
Executions(c) ==
    /\ \A i \in DOMAIN executed[c] : executed[c][i] \in seen[c]
    /\ \A i, j \in DOMAIN executed[c] :
          i # j => /\ executed[c][i].id # executed[c][j].id
                   /\ executed[c][i].key # executed[c][j].key

\* The call that is being executed is the first of those to be processed.
Executing(c) == pc[c] = "executing" => todo[c] # << >>

Stored(c) == (\E i \in DOMAIN session : session[i].by = c) <=> answer[c] = "returned"

\* A step of caller c.
Moves(c) == \/ Call(c) \/ Enter(c) \/ EnterRaises(c) \/ Step(c) \/ Stops(c) \/ Outside(c)
            \/ Cancel(c) \/ Expire(c)

IInv == /\ TypeOK
        /\ \A c \in Callers : 
         Outcome(c) /\ OpenStage(c) /\ Executions(c) /\ Executing(c) /\ Stored(c)

-----------------------------------------------------------------------------
(* Types *)

Labels == {"idle", "waiting", "entering", "started", "retrieve", "recall", "context",
           "request", "model", "backoff", "tools", "executing", "finish", "commit", "ended"}
Terminals == {"none", "COMPLETED", "FAILED", "CANCELLED", "TIMED_OUT"}
Answers == {"none", "run_error", "bare_error", "session_error", "returned"}
Stages == {"retrieve", "recall", "model", "tool"}

LEMMA CallTypes ==
    ASSUME NEW c \in Callers, NEW m \in Completions[c]
    PROVE  /\ m.calls \in Seq(AllCalls)
           /\ [i \in DOMAIN m.calls |-> Item("call", m.calls[i])] \in Seq(ItemType)
<1>1. m.calls \in Seq(ToSet(m.calls)) BY SessionAssumption DEF SessionAssumption
<1>2. ToSet(m.calls) \subseteq AllCalls BY DEF AllCalls
<1>3. m.calls \in Seq(AllCalls) BY <1>1, <1>2, SeqMonotonic
<1>4. /\ DOMAIN m.calls = 1..Len(m.calls) /\ Len(m.calls) \in Nat
      /\ m.calls \in [1..Len(m.calls) -> AllCalls]
  BY <1>3, LenProperties
<1> DEFINE n == Len(m.calls)
           f == [i \in DOMAIN m.calls |-> Item("call", m.calls[i])]
<1>5. \A x \in AllCalls : Item("call", x) \in ItemType BY DEF Item, ItemType
<1>6. f \in [1..n -> ItemType] BY <1>4, <1>5
<1> HIDE DEF f
<1>7. f \in Seq(ItemType) BY <1>4, <1>6, SeqDef
<1> QED BY <1>3, <1>7 DEF f

LEMMA ItemTypes ==
    /\ Text \in ItemType
    /\ \A x \in AllCalls : Item("result", x) \in ItemType
BY DEF Text, Item, ItemType

\* The ways a stage ends keep the types of what they change.
LEMMA EndTypes ==
    ASSUME TypeOK, NEW c \in Callers
    PROVE  /\ \A label \in Labels : Goto(c, label) => pc' \in [Callers -> Labels]
           /\ \A r \in Answers : Leave(c, r) =>
                 /\ pc' \in [Callers -> Labels] /\ answer' \in [Callers -> Answers]
                 /\ lock' \in [Apps -> Callers \union {Nobody}]
           /\ \A e : Fails(c, e) =>
                 /\ pc' \in [Callers -> Labels] /\ answer' \in [Callers -> Answers]
                 /\ lock' \in [Apps -> Callers \union {Nobody}]
                 /\ terminal' \in [Callers -> Terminals]
           /\ \A label \in Labels : \A e : GotoOrFail(c, label, e) =>
                 /\ pc' \in [Callers -> Labels] /\ answer' \in [Callers -> Answers]
                 /\ lock' \in [Apps -> Callers \union {Nobody}]
                 /\ terminal' \in [Callers -> Terminals]
<1>1. /\ pc \in [Callers -> Labels] /\ answer \in [Callers -> Answers]
      /\ lock \in [Apps -> Callers \union {Nobody}] /\ terminal \in [Callers -> Terminals]
  BY DEF TypeOK, Labels, Answers, Terminals
<1>2. \A label \in Labels : Goto(c, label) => pc' \in [Callers -> Labels]
  BY <1>1 DEF Goto
<1>3. \A r \in Answers : Leave(c, r) =>
         /\ pc' \in [Callers -> Labels] /\ answer' \in [Callers -> Answers]
         /\ lock' \in [Apps -> Callers \union {Nobody}]
  BY <1>1, <1>2 DEF Leave, Labels
<1>4. \A e : TerminalOf(e) \in Terminals BY DEF TerminalOf, Terminals
<1>5. \A e : Fails(c, e) =>
         /\ pc' \in [Callers -> Labels] /\ answer' \in [Callers -> Answers]
         /\ lock' \in [Apps -> Callers \union {Nobody}]
         /\ terminal' \in [Callers -> Terminals]
  BY <1>1, <1>3, <1>4 DEF Fails, Answers
<1>6. \A label \in Labels : \A e : GotoOrFail(c, label, e) =>
         /\ pc' \in [Callers -> Labels] /\ answer' \in [Callers -> Answers]
         /\ lock' \in [Apps -> Callers \union {Nobody}]
         /\ terminal' \in [Callers -> Terminals]
  BY <1>1, <1>2, <1>5 DEF GotoOrFail
<1> QED BY <1>2, <1>3, <1>5, <1>6

LEMMA OpenTypes ==
    ASSUME TypeOK, NEW c \in Callers
    PROVE  /\ \A s \in Stages : Opens(c, s) => open' \in [Callers -> SUBSET Stages]
           /\ \A s : Closes(c, s) => open' \in [Callers -> SUBSET Stages]
<1>1. open \in [Callers -> SUBSET Stages] BY DEF TypeOK, Stages
<1>2. open[c] \in SUBSET Stages BY <1>1
<1> QED BY <1>1, <1>2 DEF Opens, Closes

LEMMA TypeStep ==
    ASSUME TypeOK, NEW c \in Callers,
           Moves(c),
           Executing(c)
    PROVE  TypeOK'
<1> USE DEF Labels, Answers, Terminals, Stages
<1>1. CASE Call(c) BY <1>1, EndTypes DEF Call, TypeOK, loop, context
<1>2. CASE Enter(c)
  <2>1. Len(session) \in Nat BY LenProperties DEF TypeOK
  <2> QED BY <1>2, <2>1, EndTypes DEF Enter, TypeOK, loop, context
<1>3. CASE EnterRaises(c) BY <1>3, EndTypes DEF EnterRaises, TypeOK, loop, context
<1>4. CASE Child(c) BY <1>4, EndTypes DEF Child, TypeOK, loop, context
<1>5. CASE Begin(c)
  <2>1. FirstStage \in Labels /\ Announces(c, FirstStage) \subseteq Stages
    BY DEF FirstStage, Announces
  <2> QED BY <1>5, <2>1, EndTypes DEF Begin, TypeOK, loop, context
<1>6. ASSUME NEW stage, NEW label \in {"retrieve", "recall", "context"}, NEW e,
             StageEnds(c, stage, label, e)
      PROVE  TypeOK'
  <2>1. Announces(c, label) \subseteq Stages BY DEF Announces
  <2>2. open' \in [Callers -> SUBSET Stages]
    <3>1. open \in [Callers -> SUBSET Stages] BY DEF TypeOK
    <3>2. \E S \in SUBSET Stages : open' = [open EXCEPT ![c] = (@ \ {stage}) \union S]
      BY <1>6, <2>1 DEF StageEnds
    <3> HIDE DEF Stages
    <3> QED BY <3>1, <3>2
  <2>3. /\ pc' \in [Callers -> Labels] /\ answer' \in [Callers -> Answers]
        /\ lock' \in [Apps -> Callers \union {Nobody}]
        /\ terminal' \in [Callers -> Terminals]
    BY <1>6, EndTypes DEF StageEnds
  <2> QED BY <1>6, <2>2, <2>3 DEF StageEnds, TypeOK, loop, context
<1>7. CASE RetrievalReturns(c) \/ RetrievalRaises(c) \/ RetrievalStops(c)
           \/ RecallReturns(c) \/ RecallStops(c) \/ RecallRaises(c)
  <2>1. AfterRetrieval \in {"retrieve", "recall", "context"} BY DEF AfterRetrieval
  <2> QED BY <1>6, <1>7, <2>1 DEF RetrievalReturns, RetrievalRaises, RetrievalStops,
             RecallReturns, RecallStops, RecallRaises
<1>8. CASE ContextBuilt(c)
  <2>1. 1 \in 0..MaxIterations /\ 1 \in 0..MaxAttempts
    BY SessionAssumption DEF SessionAssumption
  <2> QED BY <1>8, <2>1, EndTypes DEF ContextBuilt, TypeOK, loop, context
<1>9. CASE ContextRaises(c) BY <1>9, EndTypes DEF ContextRaises, TypeOK, loop, context
<1>10. CASE Request(c)
  <2>1. open' \in [Callers -> SUBSET Stages] BY <1>10, OpenTypes DEF Request, TypeOK
  <2> QED BY <1>10, <2>1, EndTypes DEF Request, TypeOK, loop, context
<1>11. ASSUME NEW m \in Completions[c], ModelReturns(c, m) PROVE TypeOK'
  <2> DEFINE new == (IF m.text THEN <<Text>> ELSE << >>)
                    \o [i \in DOMAIN m.calls |-> Item("call", m.calls[i])]
             all == items[c] \o (IF m.text THEN <<Text>> ELSE << >>)
                    \o [i \in DOMAIN m.calls |-> Item("call", m.calls[i])]
  <2>1. (IF m.text THEN <<Text>> ELSE << >>) \in Seq(ItemType) BY ItemTypes
  <2>2. items[c] \in Seq(ItemType) BY DEF TypeOK
  <2>3. items[c] \o (IF m.text THEN <<Text>> ELSE << >>) \in Seq(ItemType)
    BY <2>1, <2>2, ConcatProperties
  <2>4. all \in Seq(ItemType) BY <2>3, CallTypes, ConcatProperties
  <2>5. items' = [items EXCEPT ![c] = all] BY <1>11 DEF ModelReturns
  <2> HIDE DEF all
  <2>6. items' \in [Callers -> Seq(ItemType)] BY <2>4, <2>5 DEF TypeOK
  <2>7. todo' \in [Callers -> Seq(AllCalls)] BY <1>11, CallTypes DEF TypeOK, ModelReturns
  <2> QED BY <1>11, <2>6, <2>7, EndTypes DEF ModelReturns, Closes, TypeOK, context
<1>12. CASE ModelRaises(c) \/ ModelStops(c)
  <2>1. open' \in [Callers -> SUBSET Stages] BY <1>12, OpenTypes DEF ModelRaises, ModelStops
  <2> QED BY <1>12, <2>1, EndTypes DEF ModelRaises, ModelStops, TypeOK, loop, context
<1>13. CASE ModelRetries(c)
  <2>1. attempt' \in [Callers -> 0..MaxAttempts]
    <3>1. attempt[c] \in Nat /\ MaxAttempts \in Nat /\ attempt \in [Callers -> 0..MaxAttempts]
      BY SessionAssumption DEF SessionAssumption, TypeOK
    <3>2. attempt[c] < MaxAttempts => attempt[c] + 1 \in 0..MaxAttempts BY <3>1
    <3> QED BY <1>13, <3>1, <3>2 DEF ModelRetries
  <2>2. open' \in [Callers -> SUBSET Stages] BY <1>13, OpenTypes DEF ModelRetries
  <2> QED BY <1>13, <2>1, <2>2, EndTypes DEF ModelRetries, TypeOK, context
<1>14. CASE Backoff(c) BY <1>14, EndTypes DEF Backoff, TypeOK, loop, context
<1>15. CASE TakeCall(c)
  <2> DEFINE call == Head(todo[c])
  <2>1. call \in AllCalls /\ Tail(todo[c]) \in Seq(AllCalls)
    BY <1>15, HeadTailProperties DEF TakeCall, TypeOK
  <2> HIDE DEF call
  <2>2. CASE Repeated(c, call)
    <3>1. Append(items[c], Item("result", call)) \in Seq(ItemType)
      BY <2>1, ItemTypes, AppendProperties DEF TypeOK
    <3>2. /\ items' = [items EXCEPT ![c] = Append(items[c], Item("result", call))]
          /\ todo' = [todo EXCEPT ![c] = Tail(todo[c])]
      BY <1>15, <2>2 DEF TakeCall, call
    <3>3. items' \in [Callers -> Seq(ItemType)] /\ todo' \in [Callers -> Seq(AllCalls)]
      BY <2>1, <3>1, <3>2 DEF TypeOK
    <3> QED BY <1>15, <2>2, <3>3 DEF TakeCall, TypeOK, context, call
  <2>3. CASE ~Repeated(c, call)
    <3>1. Append(executed[c], call) \in Seq(AllCalls)
      BY <2>1, AppendProperties DEF TypeOK
    <3>2. /\ executed' = [executed EXCEPT ![c] = Append(executed[c], call)]
          /\ seen' = [seen EXCEPT ![c] = seen[c] \union {call}]
      BY <1>15, <2>3 DEF TakeCall, call
    <3>3. executed' \in [Callers -> Seq(AllCalls)] /\ seen' \in [Callers -> SUBSET AllCalls]
      BY <2>1, <3>1, <3>2 DEF TypeOK
    <3>4. open' \in [Callers -> SUBSET Stages] BY <1>15, <2>3, OpenTypes DEF TakeCall, call
    <3> QED BY <1>15, <2>3, <3>3, <3>4, EndTypes DEF TakeCall, TypeOK, context, call
  <2> QED BY <2>2, <2>3
<1>16. CASE CallsStop(c) BY <1>16, EndTypes DEF CallsStop, TypeOK, loop, context
<1>17. CASE ToolReturns(c)
  <2>1. Item("result", Head(todo[c])) \in ItemType /\ Tail(todo[c]) \in Seq(AllCalls)
    BY <1>17, ItemTypes, HeadTailProperties DEF ToolReturns, Executing, TypeOK
  <2>2. Append(items[c], Item("result", Head(todo[c]))) \in Seq(ItemType)
    BY <2>1, AppendProperties DEF TypeOK
  <2>3. items' \in [Callers -> Seq(ItemType)] /\ todo' \in [Callers -> Seq(AllCalls)]
    BY <1>17, <2>1, <2>2 DEF ToolReturns, TypeOK
  <2>4. open' \in [Callers -> SUBSET Stages] BY <1>17, OpenTypes DEF ToolReturns
  <2> QED BY <1>17, <2>3, <2>4, EndTypes DEF ToolReturns, TypeOK, context
<1>18. ASSUME NEW e, ToolRaises(c, e) PROVE TypeOK'
  BY <1>18, EndTypes DEF ToolRaises, TypeOK, loop, context
<1>19. CASE NextIteration(c)
  <2>1. iteration' \in [Callers -> 0..MaxIterations] /\ attempt' \in [Callers -> 0..MaxAttempts]
    <3>1. /\ iteration[c] \in Nat /\ MaxIterations \in Nat /\ 1 \in 0..MaxAttempts
          /\ iteration \in [Callers -> 0..MaxIterations]
          /\ attempt \in [Callers -> 0..MaxAttempts]
      BY SessionAssumption DEF SessionAssumption, TypeOK
    <3>2. iteration[c] < MaxIterations => iteration[c] + 1 \in 0..MaxIterations BY <3>1
    <3> QED BY <1>19, <3>1, <3>2 DEF NextIteration, MoreIterations
  <2> QED BY <1>19, <2>1, EndTypes DEF NextIteration, TypeOK, context
<1>20. CASE Finish(c) BY <1>20, EndTypes DEF Finish, TypeOK, loop, context
<1>21. CASE CandidateRefused(c) \/ CommitRaises(c)
  BY <1>21, EndTypes DEF CandidateRefused, CommitRaises, TypeOK, loop, context
<1>22. CASE Commit(c)
  <2> DEFINE turn == [by |-> c, items |-> items[c]]
             Turn == [by : Callers, items : Seq(ItemType)]
  <2>1. session \in Seq(Turn) /\ turn \in Turn BY DEF TypeOK
  <2>2. SubSeq(session, 1, base[c]) = session
    BY <1>22, <2>1, SubSeqFull DEF Commit, RevisionMatches
  <2>3. session' = Append(session, turn) BY <1>22, <2>2 DEF Commit
  <2>4. session' \in Seq(Turn) BY <2>1, <2>3, AppendProperties
  <2> HIDE DEF turn
  <2> QED BY <1>22, <2>4, EndTypes DEF Commit, TypeOK, loop, context
<1>23. CASE Cancel(c) \/ Expire(c)
  BY <1>23 DEF Cancel, Expire, TypeOK, loop
<1> QED BY <1>1, <1>2, <1>3, <1>4, <1>5, <1>7, <1>8, <1>9, <1>10, <1>11, <1>12, <1>13, <1>14,
           <1>15, <1>16, <1>17, <1>18, <1>19, <1>20, <1>21, <1>22, <1>23 DEF Moves, Step, Stops, Outside

-----------------------------------------------------------------------------
(* What the step of one caller does to that caller. *)

LEMMA OutcomeStep ==
    ASSUME IInv, NEW c \in Callers,
           Moves(c)
    PROVE  /\ Outcome(c)' /\ Executing(c)'
           /\ answer'[c] = "returned" => answer[c] = "returned" \/ Commit(c)
<1> USE DEF Labels, Answers, Terminals
<1>1. /\ Outcome(c) /\ Executing(c)
      /\ pc \in [Callers -> Labels] /\ answer \in [Callers -> Answers]
      /\ terminal \in [Callers -> Terminals]
      /\ todo \in [Callers -> Seq(AllCalls)]
  BY DEF IInv, TypeOK
<1>2. \A e : TerminalOf(e) \notin {"none", "COMPLETED"} BY DEF TerminalOf
<1> DEFINE Kept == /\ Outcome(c)' /\ Executing(c)'
                   /\ answer'[c] = "returned" => answer[c] = "returned"
\* how a run fails, ends without a terminal event, or goes on
<1>3. ASSUME NEW e, Fails(c, e), pc[c] # "ended" PROVE Kept
  BY <1>1, <1>2, <1>3 DEF Fails, Leave, Goto, Outcome, Executing
<1>4. ASSUME NEW r \in Answers \ {"returned"}, Leave(c, r), UNCHANGED terminal,
             pc[c] # "ended"
      PROVE  Kept
  BY <1>1, <1>4 DEF Leave, Goto, Outcome, Executing
<1>5. ASSUME NEW label \in Labels \ {"executing", "commit", "ended"}, Goto(c, label),
             UNCHANGED <<terminal, answer>>, pc[c] \notin {"commit", "ended"}
      PROVE  Kept
  BY <1>1, <1>5 DEF Goto, Outcome, Executing
<1>6. ASSUME NEW e, NEW label \in Labels \ {"executing", "commit", "ended"},
             GotoOrFail(c, label, e), pc[c] \notin {"commit", "ended"}
      PROVE  Kept
  BY <1>3, <1>5, <1>6 DEF GotoOrFail
<1>7. CASE Call(c) \/ Enter(c) BY <1>5, <1>7 DEF Call, Enter
<1>8. CASE EnterRaises(c) BY <1>4, <1>8 DEF EnterRaises
<1>9. CASE Child(c) BY <1>4, <1>5, <1>9 DEF Child
<1>10. CASE Begin(c)
  <2>1. FirstStage \in Labels \ {"executing", "commit", "ended"} BY DEF FirstStage
  <2> QED BY <1>6, <1>10, <2>1 DEF Begin
<1>11. CASE RetrievalReturns(c) \/ RetrievalRaises(c) \/ RetrievalStops(c)
            \/ RecallReturns(c) \/ RecallStops(c) \/ RecallRaises(c)
  <2>1. AfterRetrieval \in Labels \ {"executing", "commit", "ended"} BY DEF AfterRetrieval
  <2> QED BY <1>6, <1>11, <2>1 DEF RetrievalReturns, RetrievalRaises, RetrievalStops,
             RecallReturns, RecallStops, RecallRaises, StageEnds
<1>12. CASE ContextBuilt(c) \/ Request(c) \/ Backoff(c)
  BY <1>6, <1>12 DEF ContextBuilt, Request, Backoff
<1>13. CASE ContextRaises(c) \/ ModelRaises(c) \/ ModelStops(c) \/ CallsStop(c)
            \/ \E e \in {"cancelled", "timed_out", "failed"} : ToolRaises(c, e)
  BY <1>3, <1>13 DEF ContextRaises, ModelRaises, ModelStops, CallsStop, ToolRaises
<1>14. ASSUME NEW m \in Completions[c], ModelReturns(c, m) PROVE Kept
  BY <1>5, <1>14 DEF ModelReturns
<1>15. CASE ModelRetries(c) \/ NextIteration(c)
  BY <1>3, <1>5, <1>15 DEF ModelRetries, NextIteration
<1>16. CASE TakeCall(c)
  BY <1>1, <1>16 DEF TakeCall, Goto, Outcome, Executing
<1>17. CASE ToolReturns(c) BY <1>5, <1>17 DEF ToolReturns
<1>18. CASE Finish(c)
  <2>1. CASE FinalCheck(c) # "none" BY <1>3, <1>18, <2>1 DEF Finish
  <2>2. CASE FinalCheck(c) = "none"
    BY <1>1, <1>18, <2>2 DEF Finish, Goto, Outcome, Executing
  <2> QED BY <2>1, <2>2
<1>19. CASE CandidateRefused(c) \/ CommitRaises(c)
  BY <1>4, <1>19 DEF CandidateRefused, CommitRaises
<1>20. CASE Commit(c)
  BY <1>1, <1>20 DEF Commit, Leave, Goto, Outcome, Executing
<1>21. CASE Cancel(c) \/ Expire(c)
  BY <1>1, <1>21 DEF Cancel, Expire, Outcome, Executing, loop
<1> QED BY <1>7, <1>8, <1>9, <1>10, <1>11, <1>12, <1>13, <1>14, <1>15, <1>16, <1>17, <1>18,
           <1>19, <1>20, <1>21 DEF Moves, Step, Stops, Outside

LEMMA OpenStep ==
    ASSUME IInv, NEW c \in Callers,
           Moves(c)
    PROVE  OpenStage(c)'
<1>1. /\ OpenStage(c) /\ pc \in [Callers -> Labels] /\ open \in [Callers -> SUBSET Stages]
  BY DEF IInv, TypeOK, Labels, Stages
<1>2. \A label \in Labels : Goto(c, label) => pc'[c] = label
  BY <1>1 DEF Goto
<1>3. \A e : Fails(c, e) => pc'[c] = "ended" BY <1>1 DEF Fails, Leave, Goto
<1>4. \A e, label : GotoOrFail(c, label, e) =>
         IF e = "none" THEN pc'[c] = label ELSE pc'[c] = "ended"
  BY <1>1, <1>3 DEF GotoOrFail, Goto
<1>5. \A r : Leave(c, r) => pc'[c] = "ended" BY <1>1 DEF Leave, Goto
<1>6. \A s : /\ Opens(c, s) => open'[c] = open[c] \union {s}
             /\ Closes(c, s) => open'[c] = open[c] \ {s}
  BY <1>1 DEF Opens, Closes
<1>7. pc[c] \notin {"retrieve", "recall", "model", "executing", "ended"} => open[c] = {}
  BY <1>1 DEF OpenStage, Announced, Stages, Labels
<1> USE DEF OpenStage, Announced
<1>8. ASSUME UNCHANGED open, pc[c] \notin {"retrieve", "recall", "model", "executing", "ended"}
      PROVE  OpenStage(c)'
  BY <1>7, <1>8
<1>9. CASE Call(c) \/ Enter(c) \/ EnterRaises(c) \/ Child(c) \/ ContextBuilt(c)
           \/ ContextRaises(c) \/ Backoff(c) \/ CallsStop(c) \/ NextIteration(c)
           \/ Finish(c) \/ CandidateRefused(c) \/ Commit(c) \/ CommitRaises(c)
  BY <1>8, <1>9 DEF Call, Enter, EnterRaises, Child, ContextBuilt, ContextRaises, Backoff,
     CallsStop, NextIteration, Finish, CandidateRefused, Commit, CommitRaises, loop
<1>10. CASE Begin(c)
  BY <1>1, <1>4, <1>7, <1>10 DEF Begin, Announces
<1>11. ASSUME NEW stage \in {"retrieve", "recall"}, NEW label, NEW e,
              StageEnds(c, stage, label, e)
       PROVE  OpenStage(c)'
  BY <1>1, <1>4, <1>11 DEF StageEnds, Announces
<1>12. CASE RetrievalReturns(c) \/ RetrievalRaises(c) \/ RetrievalStops(c)
            \/ RecallReturns(c) \/ RecallStops(c) \/ RecallRaises(c)
  BY <1>11, <1>12 DEF RetrievalReturns, RetrievalRaises, RetrievalStops,
             RecallReturns, RecallStops, RecallRaises
<1>13. CASE Request(c)
  BY <1>4, <1>6, <1>7, <1>13 DEF Request
<1>14. CASE ModelRaises(c) \/ ModelStops(c) \/ ModelRetries(c)
            \/ \E m \in Completions[c] : ModelReturns(c, m)
  <2>1. open'[c] = {}
    BY <1>1, <1>6, <1>14 DEF ModelRaises, ModelStops, ModelRetries, ModelReturns
  <2> QED BY <2>1
<1>15. CASE TakeCall(c)
  BY <1>2, <1>6, <1>7, <1>15 DEF TakeCall, Labels
<1>16. CASE ToolReturns(c)
  <2>1. open'[c] = {} BY <1>1, <1>6, <1>16 DEF ToolReturns
  <2> QED BY <2>1
<1>17. CASE \E e \in {"cancelled", "timed_out", "failed"} : ToolRaises(c, e)
  BY <1>1, <1>3, <1>17 DEF ToolRaises
<1>18. CASE Cancel(c) \/ Expire(c) BY <1>1, <1>18 DEF Cancel, Expire
<1> QED BY <1>9, <1>10, <1>12, <1>13, <1>14, <1>15, <1>16, <1>17, <1>18
        DEF Moves, Step, Stops, Outside

\* Only a call that is neither by ID nor by meaning among the seen is executed.
LEMMA ExecutionsStep ==
    ASSUME IInv, NEW c \in Callers,
           Moves(c)
    PROVE  Executions(c)'
<1>1. Executions(c) /\ TypeOK BY DEF IInv
<1>2. CASE UNCHANGED <<seen, executed>> BY <1>1, <1>2 DEF Executions
<1>3. CASE TakeCall(c) /\ ~Repeated(c, Head(todo[c]))
  <2> DEFINE call == Head(todo[c])
             n == Len(executed[c]) + 1
  <2>1. /\ seen' = [seen EXCEPT ![c] = seen[c] \union {call}]
        /\ executed' = [executed EXCEPT ![c] = Append(executed[c], call)]
        /\ \A s \in seen[c] : s.id # call.id /\ s.key # call.key
    BY <1>3 DEF TakeCall, Repeated
  <2>2. call \in AllCalls
    BY <1>1, <1>3, HeadTailProperties DEF TypeOK, TakeCall
  <2> HIDE DEF call
  <2>3. executed[c] \in Seq(AllCalls) BY <1>1 DEF TypeOK
  <2>4. /\ executed'[c] = Append(executed[c], call)
        /\ seen'[c] = seen[c] \union {call}
    BY <1>1, <2>1 DEF TypeOK
  <2>5. /\ Len(executed[c]) \in Nat /\ DOMAIN executed[c] = 1..Len(executed[c])
        /\ DOMAIN executed'[c] = 1..n
        /\ \A i \in 1..Len(executed[c]) : executed'[c][i] = executed[c][i]
        /\ executed'[c][n] = call
    BY <2>2, <2>3, <2>4, AppendProperties, LenProperties
  <2> HIDE DEF n
  <2>6. \A i \in DOMAIN executed'[c] : i \in DOMAIN executed[c] \/ i = n
    BY <2>5 DEF n
  <2>7. \A i \in DOMAIN executed'[c] : executed'[c][i] \in seen'[c]
    BY <1>1, <2>4, <2>5, <2>6 DEF Executions
  <2>8. ASSUME NEW i \in DOMAIN executed'[c], NEW j \in DOMAIN executed'[c], i # j
        PROVE  /\ executed'[c][i].id # executed'[c][j].id
               /\ executed'[c][i].key # executed'[c][j].key
    <3>1. CASE i # n /\ j # n BY <1>1, <2>5, <2>6, <2>8, <3>1 DEF Executions
    <3>2. CASE i = n /\ j # n BY <1>1, <2>1, <2>5, <2>6, <3>2 DEF Executions
    <3>3. CASE i # n /\ j = n BY <1>1, <2>1, <2>5, <2>6, <3>3 DEF Executions
    <3> QED BY <2>8, <3>1, <3>2, <3>3
  <2> QED BY <2>7, <2>8 DEF Executions
<1>4. UNCHANGED <<seen, executed>> \/ (TakeCall(c) /\ ~Repeated(c, Head(todo[c])))
  BY DEF Moves, Call, Enter, EnterRaises, Step, Stops, Outside, Cancel, Expire, Child, Begin, Request,
     Backoff, TakeCall, CallsStop, NextIteration, Finish, CandidateRefused, Commit, CommitRaises,
     RetrievalStops, RetrievalReturns, RetrievalRaises, RecallStops, RecallReturns, RecallRaises,
     StageEnds, ContextBuilt, ContextRaises, ModelReturns, ModelRaises, ModelStops, ModelRetries,
     ToolReturns, ToolRaises, loop
<1> QED BY <1>2, <1>3, <1>4

\* Only a commit writes the session, and it appends.
LEMMA SessionStep ==
    ASSUME IInv, NEW c \in Callers,
           Moves(c)
    PROVE  \/ UNCHANGED session /\ ~Commit(c)
           \/ /\ Commit(c) /\ answer[c] # "returned" /\ answer'[c] = "returned"
              /\ session' = Append(session, [by |-> c, items |-> items[c]])
<1>1. CASE Commit(c)
  <2>1. session \in Seq([by : Callers, items : Seq(ItemType)]) /\ answer[c] = "none"
    BY <1>1 DEF IInv, TypeOK, Commit, Outcome
  <2>2. SubSeq(session, 1, base[c]) = session
    BY <1>1, <2>1, SubSeqFull DEF Commit, RevisionMatches
  <2>3. answer'[c] = "returned" BY <1>1 DEF Commit, Leave, IInv, TypeOK
  <2> QED BY <1>1, <2>1, <2>2, <2>3 DEF Commit
<1>2. CASE ~Commit(c)
  BY <1>2
     DEF Moves, Call, Enter, EnterRaises, Step, Stops, Outside, Cancel, Expire, Child, Begin, Request,
     Backoff, TakeCall, CallsStop, NextIteration, Finish, CandidateRefused, CommitRaises,
     RetrievalStops, RetrievalReturns, RetrievalRaises, RecallStops, RecallReturns, RecallRaises,
     StageEnds, ContextBuilt, ContextRaises, ModelReturns, ModelRaises, ModelStops, ModelRetries,
     ToolReturns, ToolRaises
<1> QED BY <1>1, <1>2

\* A session with one more turn: the old ones stay at their places.
LEMMA Appended ==
    ASSUME TypeOK, NEW c \in Callers, NEW t,
           t = [by |-> c, items |-> items[c]], session' = Append(session, t)
    PROVE  LET n == Len(session) IN
           /\ n \in Nat /\ DOMAIN session = 1..n /\ DOMAIN session' = 1..(n + 1)
           /\ Len(session') = n + 1 /\ session' \in Seq([by : Callers, items : Seq(ItemType)])
           /\ \A i \in 1..n : session'[i] = session[i]
           /\ session'[n + 1] = t
<1>1. session \in Seq([by : Callers, items : Seq(ItemType)])
      /\ t \in [by : Callers, items : Seq(ItemType)]
  BY DEF TypeOK
<1>2. session' \in Seq([by : Callers, items : Seq(ItemType)])
  BY <1>1, AppendProperties
<1> QED BY <1>1, <1>2, AppendProperties, LenProperties

LEMMA StoredStep ==
    ASSUME IInv, NEW c \in Callers, NEW d \in Callers,
           Moves(c),
           c # d => answer'[d] = answer[d]
    PROVE  Stored(d)'
<1>1. Stored(d) /\ TypeOK /\ Outcome(d) BY DEF IInv
<1>2. CASE UNCHANGED session /\ ~Commit(c)
  <2>1. answer'[d] = "returned" => answer[d] = "returned" BY <1>2, OutcomeStep
  <2>2. answer[d] = "returned" => answer'[d] = "returned"
    <3>1. ASSUME c = d, answer[d] = "returned" PROVE answer'[d] = "returned"
      <4>1. pc[d] = "ended" BY <1>1, <3>1 DEF Outcome
      <4>2. UNCHANGED answer
        BY <3>1, <4>1
           DEF Moves, Call, Enter, EnterRaises, Step, Stops, Outside, Cancel, Expire, Child, Begin,
           Request, Backoff, TakeCall, CallsStop, NextIteration, Finish, CandidateRefused,
           Commit, CommitRaises, RetrievalStops, RetrievalReturns, RetrievalRaises,
           RecallStops, RecallReturns, RecallRaises, StageEnds, ContextBuilt, ContextRaises,
           ModelReturns, ModelRaises, ModelStops, ModelRetries, ToolReturns, ToolRaises
      <4> QED BY <3>1, <4>2
    <3> QED BY <3>1
  <2> QED BY <1>1, <1>2, <2>1, <2>2 DEF Stored
<1>3. CASE /\ Commit(c) /\ answer'[c] = "returned"
           /\ session' = Append(session, [by |-> c, items |-> items[c]])
  <2> DEFINE n == Len(session)
             t == [by |-> c, items |-> items[c]]
  <2>1. t.by = c OBVIOUS
  <2> HIDE DEF t
  <2>2. /\ n \in Nat /\ DOMAIN session = 1..n /\ DOMAIN session' = 1..(n + 1)
        /\ \A i \in 1..n : session'[i] = session[i]
        /\ session'[n + 1] = t
    BY <1>1, <1>3, Appended DEF t
  <2> HIDE DEF n
  <2>3. CASE c = d
    BY <1>3, <2>1, <2>2, <2>3 DEF Stored
  <2>4. CASE c # d
    BY <1>1, <2>1, <2>2, <2>4 DEF Stored
  <2> QED BY <2>3, <2>4
<1> QED BY <1>2, <1>3, SessionStep

\* The step of one caller leaves what the others have alone.
LEMMA OthersStep ==
    ASSUME IInv, NEW c \in Callers, NEW d \in Callers, c # d,
           Moves(c)
    PROVE  /\ pc'[d] = pc[d] /\ answer'[d] = answer[d] /\ terminal'[d] = terminal[d]
           /\ open'[d] = open[d] /\ executed'[d] = executed[d] /\ seen'[d] = seen[d]
           /\ todo'[d] = todo[d]
           /\ cancelled'[d] = cancelled[d] /\ expired'[d] = expired[d]
<1>1. TypeOK BY DEF IInv
<1> USE <1>1 DEF TypeOK
<1>2. \A label : Goto(c, label) => pc'[d] = pc[d] BY DEF Goto
<1>3. \A r : Leave(c, r) => pc'[d] = pc[d] /\ answer'[d] = answer[d] BY <1>2 DEF Leave
<1>4. \A e : Fails(c, e) =>
        pc'[d] = pc[d] /\ answer'[d] = answer[d] /\ terminal'[d] = terminal[d]
  BY <1>3 DEF Fails
<1>5. \A e, label : GotoOrFail(c, label, e) =>
        pc'[d] = pc[d] /\ answer'[d] = answer[d] /\ terminal'[d] = terminal[d]
  BY <1>2, <1>4 DEF GotoOrFail
<1>6. \A s : Opens(c, s) \/ Closes(c, s) => open'[d] = open[d] BY DEF Opens, Closes
<1>7. CASE Call(c) \/ Enter(c) \/ EnterRaises(c) \/ Child(c) \/ Begin(c)
  BY <1>2, <1>3, <1>5, <1>7 DEF Call, Enter, EnterRaises, Child, Begin, loop, context
<1>8. CASE RetrievalReturns(c) \/ RetrievalRaises(c) \/ RetrievalStops(c)
           \/ RecallReturns(c) \/ RecallStops(c) \/ RecallRaises(c)
  BY <1>5, <1>8 DEF RetrievalReturns, RetrievalRaises, RetrievalStops,
             RecallReturns, RecallStops, RecallRaises, StageEnds, loop, context
<1>9. CASE ContextBuilt(c) \/ ContextRaises(c) \/ Request(c) \/ Backoff(c)
  BY <1>4, <1>5, <1>6, <1>9 DEF ContextBuilt, ContextRaises, Request, Backoff, loop, context
<1>10. CASE ModelRaises(c) \/ ModelStops(c) \/ ModelRetries(c)
            \/ \E m \in Completions[c] : ModelReturns(c, m)
  BY <1>2, <1>4, <1>6, <1>10
     DEF ModelRaises, ModelStops, ModelRetries, ModelReturns, loop, context
<1>11. CASE TakeCall(c) BY <1>2, <1>6, <1>11 DEF TakeCall, context
<1>12. CASE CallsStop(c) \/ ToolReturns(c)
            \/ \E e \in {"cancelled", "timed_out", "failed"} : ToolRaises(c, e)
  BY <1>2, <1>4, <1>6, <1>12 DEF CallsStop, ToolReturns, ToolRaises, loop, context
<1>13. CASE NextIteration(c) \/ Finish(c)
  BY <1>2, <1>4, <1>13 DEF NextIteration, Finish, loop, context
<1>14. CASE CandidateRefused(c) \/ Commit(c) \/ CommitRaises(c)
  BY <1>3, <1>14 DEF CandidateRefused, Commit, CommitRaises, loop, context
<1>15. CASE Cancel(c) \/ Expire(c) BY <1>15 DEF Cancel, Expire, loop
<1> QED BY <1>7, <1>8, <1>9, <1>10, <1>11, <1>12, <1>13, <1>14, <1>15 DEF Moves, Step, Stops, Outside

-----------------------------------------------------------------------------
(* The theorems. *)

LEMMA InitIInv == Init => IInv
<1> SUFFICES ASSUME Init PROVE IInv OBVIOUS
<1>1. /\ << >> \in Seq([by : Callers, items : Seq(ItemType)])
      /\ << >> \in Seq(ItemType) /\ << >> \in Seq(AllCalls) /\ DOMAIN << >> = {}
  BY EmptySeq, LenProperties
<1>2. 0 \in 0..MaxIterations /\ 0 \in 0..MaxAttempts
  BY SessionAssumption DEF SessionAssumption
<1>3. TypeOK BY <1>1, <1>2 DEF Init, TypeOK
<1>4. \A c \in Callers : Outcome(c) /\ OpenStage(c) /\ Executing(c)
  BY DEF Init, Outcome, OpenStage, Executing
<1>5. \A c \in Callers : Executions(c) /\ Stored(c)
  BY <1>1 DEF Init, Executions, Stored
<1> QED BY <1>3, <1>4, <1>5 DEF IInv

LEMMA MovesIInv == ASSUME IInv, NEW c \in Callers, Moves(c) PROVE IInv'
<1>1. TypeOK' BY TypeStep DEF IInv
<1>2. ASSUME NEW d \in Callers, d # c
      PROVE  (Outcome(d) /\ OpenStage(d) /\ Executions(d) /\ Executing(d) /\ Stored(d))'
  <2>1. Outcome(d) /\ OpenStage(d) /\ Executions(d) /\ Executing(d) BY DEF IInv
  <2>2. (Outcome(d) /\ OpenStage(d) /\ Executions(d) /\ Executing(d))'
    BY <1>2, <2>1, OthersStep DEF Outcome, OpenStage, Executions, Executing
  <2>3. Stored(d)' BY <1>2, OthersStep, StoredStep
  <2> QED BY <2>2, <2>3
<1>3. (Outcome(c) /\ OpenStage(c) /\ Executions(c) /\ Executing(c) /\ Stored(c))'
  BY OutcomeStep, OpenStep, ExecutionsStep, StoredStep
<1> QED BY <1>1, <1>2, <1>3 DEF IInv

LEMMA NextIInv == IInv /\ [Next]_vars => IInv'
<1>1. ASSUME IInv, UNCHANGED vars PROVE IInv'
  BY <1>1 DEF vars, loop, context, IInv, TypeOK, Outcome, OpenStage, Executions, Executing, Stored
<1> QED BY <1>1, MovesIInv DEF Next, Moves, Done

\* What every caller has by the stage it is in, and what that means for the
\* session, holds in every state.
THEOREM Inductive == Spec => []IInv
BY InitIInv, NextIInv, PTL DEF Spec

\* Every variable keeps its type.
THEOREM TypeCorrect == Spec => []TypeOK
<1>1. IInv => TypeOK BY DEF IInv
<1> QED BY <1>1, Inductive, PTL

\* Of any number of callers that race for the session, those whose caller got
\* a result are in it, and no others.
THEOREM AnsweredAreStored == Spec => []AnsweredIsStored
<1>1. IInv => AnsweredIsStored
  <2> SUFFICES ASSUME IInv, NEW c \in Callers
               PROVE  LET stored == \E i \in DOMAIN session : session[i].by = c IN
                      /\ stored <=> (answer[c] = "returned")
                      /\ stored => terminal[c] = "COMPLETED"
                      /\ terminal[c] # "none" => open[c] \subseteq {"tool"}
    BY DEF AnsweredIsStored
  <2>1. Outcome(c) /\ OpenStage(c) /\ Stored(c) /\ TypeOK BY DEF IInv
  <2>2. terminal[c] # "none" => open[c] \subseteq {"tool"}
    BY <2>1 DEF Outcome, OpenStage, Announced, TypeOK
  <2> QED BY <2>1, <2>2 DEF Stored, Outcome
<1> QED BY <1>1, Inductive, PTL

\* No run executes a call twice, whatever the model asks for.
THEOREM NothingTwice == Spec => []NoCallTwice
<1>1. IInv => NoCallTwice BY DEF IInv, NoCallTwice, Executions
<1> QED BY <1>1, Inductive, PTL

\* No committed turn is lost or rewritten by another caller.
THEOREM SessionGrows == Spec => AppendOnly
<1>1. ASSUME IInv, Next, session' # session PROVE IsPrefix(session, session')
  <2>1. PICK c \in Callers : Moves(c) BY <1>1 DEF Next, Moves, Done, vars
  <2>2. session' = Append(session, [by |-> c, items |-> items[c]])
    BY <1>1, <2>1, SessionStep
  <2> DEFINE n == Len(session)
             Turn == [by : Callers, items : Seq(ItemType)]
  <2>3. /\ session \in Seq(Turn) /\ session' \in Seq(Turn) /\ n \in Nat
        /\ Len(session') = n + 1 /\ \A i \in 1..n : session'[i] = session[i]
    BY <1>1, <2>1, <2>2, Appended DEF IInv, TypeOK
  <2>4. SubSeq(session, 1, n) = session BY <2>3, SubSeqFull
  <2>5. \A i \in 1..n : session'[i] \in Turn BY <2>3, ElementOfSeq
  <2>6. /\ SubSeq(session', 1, n) \in Seq(Turn)
        /\ Len(SubSeq(session', 1, n)) = n
        /\ \A i \in 1..n : SubSeq(session', 1, n)[i] = session'[i]
    BY <2>3, <2>5, SubSeqProperties
  <2> HIDE DEF n, Turn
  <2>7. SubSeq(session', 1, n) = session
    BY <2>3, <2>6, SeqEqual DEF n
  <2> QED BY <2>3, <2>4, <2>7 DEF IsPrefix, n
<1>2. IInv /\ [Next]_vars => [IsPrefix(session, session')]_session
  BY <1>1 DEF vars
<1> QED BY <1>2, Inductive, PTL DEF Spec, AppendOnly

\* A run that is stopped before its last check never completes, from whatever
\* stage it is in.
Doomed(c) == CheckActive(c) # "none" /\ pc[c] # "commit" /\ terminal[c] # "COMPLETED"

LEMMA DoomedStays ==
    ASSUME NEW c \in Callers, IInv, Doomed(c), [Next]_vars
    PROVE  Doomed(c)'
<1>1. TypeOK /\ Outcome(c) BY DEF IInv
<1>2. CASE UNCHANGED vars
  BY <1>2 DEF vars, context, Doomed, CheckActive
<1>3. ASSUME NEW d \in Callers, d # c, Moves(d) PROVE Doomed(c)'
  BY <1>3, OthersStep DEF Doomed, CheckActive
<1>4. ASSUME Moves(c) PROVE Doomed(c)'
  <2> DEFINE Kept == pc'[c] # "commit" /\ terminal'[c] # "COMPLETED"
  <2>1. CheckActive(c)' # "none"
    BY <1>1, <1>4
       DEF TypeOK, Doomed, CheckActive, Moves, Call, Enter, EnterRaises, Step, Stops, Outside,
       Cancel, Expire, Child, Begin, Request, Backoff, TakeCall, CallsStop, NextIteration,
       Finish, CandidateRefused, Commit, CommitRaises, RetrievalStops, RetrievalReturns,
       RetrievalRaises, RecallStops, RecallReturns, RecallRaises, StageEnds, ContextBuilt,
       ContextRaises, ModelReturns, ModelRaises, ModelStops, ModelRetries, ToolReturns,
       ToolRaises, context
  <2>2. \A e : TerminalOf(e) # "COMPLETED" BY DEF TerminalOf
  <2>3. \A label : Goto(c, label) => pc'[c] = label BY <1>1 DEF Goto, TypeOK
  <2>4. \A r : Leave(c, r) => pc'[c] = "ended" BY <2>3 DEF Leave
  <2>5. \A e : Fails(c, e) => Kept BY <1>1, <2>2, <2>4 DEF Fails, TypeOK
  <2>6. \A e, label : GotoOrFail(c, label, e) /\ label # "commit" => Kept
    BY <2>3, <2>5 DEF GotoOrFail, Doomed
  <2>7. Kept
    <3> USE DEF Doomed
    <3>1. CASE Call(c) \/ Enter(c) \/ EnterRaises(c) \/ Child(c)
      BY <2>3, <2>4, <3>1 DEF Call, Enter, EnterRaises, Child
    <3>2. CASE Begin(c) \/ ContextBuilt(c) \/ ContextRaises(c) \/ Request(c) \/ Backoff(c)
      BY <2>5, <2>6, <3>2
         DEF Begin, FirstStage, ContextBuilt, ContextRaises, Request, Backoff
    <3>3. CASE RetrievalReturns(c) \/ RetrievalRaises(c) \/ RetrievalStops(c)
               \/ RecallReturns(c) \/ RecallStops(c) \/ RecallRaises(c)
      BY <2>6, <3>3 DEF RetrievalReturns, RetrievalRaises, RetrievalStops,
                 RecallReturns, RecallStops, RecallRaises, StageEnds, AfterRetrieval
    <3>4. CASE ModelRaises(c) \/ ModelStops(c) \/ ModelRetries(c)
                \/ \E m \in Completions[c] : ModelReturns(c, m)
      BY <2>3, <2>5, <3>4 DEF ModelRaises, ModelStops, ModelRetries, ModelReturns
    <3>5. CASE TakeCall(c) BY <3>5 DEF TakeCall
    <3>6. CASE CallsStop(c) \/ ToolReturns(c) \/ NextIteration(c)
                \/ \E e \in {"cancelled", "timed_out", "failed"} : ToolRaises(c, e)
      BY <2>3, <2>5, <3>6 DEF CallsStop, ToolReturns, NextIteration, ToolRaises
    <3>7. CASE Finish(c) BY <2>5, <3>7 DEF Finish, FinalCheck
    <3>8. CASE CandidateRefused(c) \/ Commit(c) \/ CommitRaises(c)
      BY <3>8 DEF CandidateRefused, Commit, CommitRaises
    <3>9. CASE Cancel(c) \/ Expire(c) BY <3>9 DEF Cancel, Expire
    <3> QED BY <1>4, <3>1, <3>2, <3>3, <3>4, <3>5, <3>6, <3>7, <3>8, <3>9
            DEF Moves, Step, Stops, Outside
  <2> QED BY <2>1, <2>7 DEF Doomed
<1> QED BY <1>2, <1>3, <1>4 DEF Next, Moves, Done

THEOREM StopsAreHonoured == Spec => StopIsHonoured
<1>1. ASSUME NEW c \in Callers
      PROVE  Spec => [](CheckActive(c) # "none" /\ pc[c] \notin {"commit", "ended"}
                           => [](terminal[c] # "COMPLETED"))
  <2>1. IInv /\ CheckActive(c) # "none" /\ pc[c] \notin {"commit", "ended"} => Doomed(c)
    BY DEF IInv, Outcome, Doomed
  <2>2. IInv /\ Doomed(c) /\ [Next]_vars => Doomed(c)' BY DoomedStays
  <2>3. Doomed(c) => terminal[c] # "COMPLETED" BY DEF Doomed
  <2> QED BY <2>1, <2>2, <2>3, Inductive, PTL DEF Spec
<1> QED BY <1>1 DEF StopIsHonoured
=============================================================================
