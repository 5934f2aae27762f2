--------------------------- MODULE WorkflowProofs ---------------------------
(***************************************************************************)
(* Proofs about Workflow for every definition, every set of runs and every *)
(* set of workflow IDs: the types hold, and the store the runs share is a  *)
(* fenced linear history of checkpoints (DurableWorkflow).                 *)
(*                                                                         *)
(* The induction needs to know what a run may assume of its copy of the    *)
(* checkpoint: the store has it or a later one, and while it still has it  *)
(* the run is the owner (Holds, Opens); and that what a run is about to    *)
(* save follows from that copy by one node (Drafts).                       *)
(***************************************************************************)
EXTENDS Workflow, TLAPS

\* The labels between the first save of a run and its end.
Holders == {"loop", "spawn", "handler", "transition", "selector", "fork", "wait", "join",
            "drain", "save", "failing"}

StoreInv == \A w \in Workflows : store[w] = NoCheckpoint \/ store[w].revision >= 1

Holds(r) ==
    pc[r] \in Holders =>
       /\ cur[r] \in Checkpoint
       /\ cur[r].revision >= 1
       /\ store[wf[r]].revision >= cur[r].revision
       /\ store[wf[r]].revision = cur[r].revision =>
             store[wf[r]] = cur[r] /\ owner[wf[r]] = r
       /\ cur[r].status = "RUNNING" \/ (pc[r] = "loop" /\ cur[r].status = "COMPLETED")

Opens(r) ==
    pc[r] = "opening" =>
       /\ cur[r] \in Checkpoint
       /\ cur[r].status \in Resumable
       /\ store[wf[r]].revision >= cur[r].revision
       /\ cur[r].revision = 0 => \E i \in Inputs : cur[r] = FirstCheckpoint(Version[r], i)
       /\ store[wf[r]].revision = cur[r].revision =>
             store[wf[r]] = cur[r] \/ store[wf[r]] = NoCheckpoint

\* The draft differs from the checkpoint by the updates of the nodes in ns.
Extends(r, ns) ==
    /\ draft[r].state \in [Keys -> Inputs \union Nodes]
    /\ \A k \in Keys : draft[r].state[k] # cur[r].state[k] => draft[r].state[k] \in ns

Drafts(r) ==
    LET n == cur[r].node IN
    /\ pc[r] \in {"transition", "selector", "fork", "wait", "join"} =>
          Extends(r, {n}) /\ draft[r].recorded = <<n>>
    /\ pc[r] = "selector" => Kind[n] = "conditional"
    /\ pc[r] = "save" =>
          /\ Extends(r, {n} \union BranchSet(n))
          /\ draft[r].recorded = Recorded(n)
          /\ draft[r].next \in Successors(n)

IInv == /\ TypeOK
        /\ StoreInv
        /\ \A r \in Runs : Holds(r) /\ Opens(r) /\ Drafts(r)

----------------------------------------------------------------------------
(* Types *)

USE DEF Ended

LEMMA NoCheckpointIsNone ==
    ASSUME NEW c \in Checkpoint
    PROVE  c # NoCheckpoint
BY DEF Checkpoint, Snapshot, NoCheckpoint, Statuses

LEMMA RevisionType ==
    \A c \in Checkpoint \union {NoCheckpoint} : c.revision \in Nat
BY DEF Checkpoint, Snapshot, NoCheckpoint

LEMMA DraftTypes == NoDraft \in Draft /\ NoBranches \in [AllBranches -> Result]
BY DEF NoDraft, Draft, NoBranches, NotForked, Result

LEMMA BranchSetType == \A n \in Nodes : BranchSet(n) \subseteq Nodes
BY GraphAssumption DEF GraphAssumption, BranchSet, ToSet

LEMMA FirstType ==
    ASSUME NEW v \in Versions, NEW i \in Inputs
    PROVE  FirstCheckpoint(v, i) \in Checkpoint
BY GraphAssumption DEF GraphAssumption, FirstCheckpoint, Checkpoint, Snapshot, Statuses

LEMMA RaiseType ==
    ASSUME TypeOK, NEW r \in Runs, NEW e \in Errors, Raise(r, e)
    PROVE  /\ pc' \in [Runs -> Labels] /\ err' \in [Runs -> Errors]
           /\ draft' \in [Runs -> Draft] /\ siblings' \in [Runs -> BOOLEAN]
           /\ branch' \in [Runs -> [AllBranches -> Result]]
<1>1. pc' \in [Runs -> Labels] /\ err' \in [Runs -> Errors]
  BY DEF TypeOK, Raise, Goto, Labels
<1>2. draft' \in [Runs -> Draft] /\ siblings' \in [Runs -> BOOLEAN]
      /\ branch' \in [Runs -> [AllBranches -> Result]]
  BY DraftTypes DEF TypeOK, Raise, Forget
<1> QED BY <1>1, <1>2

LEMMA SavesType ==
    ASSUME TypeOK, NEW r \in Runs, NEW cp \in Checkpoint, Saves(r, cp)
    PROVE  /\ store' \in [Workflows -> Checkpoint \union {NoCheckpoint}]
           /\ owner' \in [Workflows -> Runs \union {NoRun}]
           /\ cur' \in [Runs -> Checkpoint \union {NoCheckpoint}]
           /\ store'[wf[r]] = [cp EXCEPT !.revision = store[wf[r]].revision + 1]
           /\ store'[wf[r]] \in Checkpoint
           /\ cur'[r] = store'[wf[r]]
           /\ owner'[wf[r]] = r
           /\ store[wf[r]].revision \in Nat
           /\ cur[r].revision = store[wf[r]].revision
<1> DEFINE w == wf[r]
           saved == [cp EXCEPT !.revision = store[w].revision + 1]
<1>1. w \in Workflows BY DEF TypeOK
<1>2. store[w].revision \in Nat BY <1>1 DEF TypeOK, Checkpoint, Snapshot, NoCheckpoint
<1>3. saved \in Checkpoint BY <1>2 DEF Checkpoint, Snapshot
<1>4. store' = [store EXCEPT ![w] = saved] /\ owner' = [owner EXCEPT ![w] = r]
      /\ cur' = [cur EXCEPT ![r] = saved] /\ cur[r].revision = store[w].revision
  BY DEF Saves, RevisionMatches
<1> HIDE DEF saved, w
<1>5. store' \in [Workflows -> Checkpoint \union {NoCheckpoint}]
      /\ owner' \in [Workflows -> Runs \union {NoRun}]
      /\ cur' \in [Runs -> Checkpoint \union {NoCheckpoint}]
  BY <1>1, <1>3, <1>4 DEF TypeOK
<1>6. store'[w] = saved /\ cur'[r] = saved /\ owner'[w] = r
  BY <1>1, <1>4 DEF TypeOK
<1> QED BY <1>2, <1>3, <1>4, <1>5, <1>6 DEF w, saved

LEMMA ActiveTypes ==
    ASSUME NEW r \in Runs
    PROVE  /\ CheckActive(r) \in Errors /\ BranchActive(r) \in {"none", "cancelled", "timed_out"}
           /\ Child(r) \subseteq Errors
BY DEF CheckActive, BranchActive, Child, Errors

LEMMA GotoOrRaiseType ==
    ASSUME TypeOK, NEW r \in Runs, NEW e \in Errors, NEW l \in Labels, GotoOrRaise(r, l, e)
    PROVE  /\ pc' \in [Runs -> Labels] /\ err' \in [Runs -> Errors]
           /\ draft' \in [Runs -> Draft] /\ siblings' \in [Runs -> BOOLEAN]
           /\ branch' \in [Runs -> [AllBranches -> Result]]
<1>1. CASE e = "none" BY <1>1 DEF GotoOrRaise, Goto, TypeOK, locals
<1>2. CASE e # "none" BY <1>2, RaiseType DEF GotoOrRaise
<1> QED BY <1>1, <1>2

\* What a running copy of the checkpoint may be saved as.
LEMMA StatusType ==
    ASSUME IInv, NEW r \in Runs, pc[r] \in Holders,
           NEW st \in {"CANCELLED", "TIMED_OUT", "FAILED"}, cur[r].status = "RUNNING"
    PROVE  [cur[r] EXCEPT !.status = st] \in Checkpoint
<1>1. cur[r] \in Checkpoint BY DEF IInv, Holds
<1> QED BY <1>1 DEF Checkpoint, Snapshot, Statuses

LEMMA OpenType ==
    ASSUME IInv, NEW r \in Runs, pc[r] = "opening"
    PROVE  [cur[r] EXCEPT !.status = "RUNNING"] \in Checkpoint
<1>1. cur[r] \in Checkpoint /\ cur[r].status \in Resumable BY DEF IInv, Opens
<1> QED BY <1>1 DEF Checkpoint, Snapshot, Statuses, Resumable

SavedNode(r) ==
    [cur[r] EXCEPT !.state = draft[r].state, !.node = draft[r].next,
                   !.completed = @ \o draft[r].recorded, !.status = StatusOf(draft[r])]

LEMMA UpdateType ==
    ASSUME NEW c \in Checkpoint, NEW t \in [Keys -> Inputs \union Nodes],
           NEW m \in Nodes \union {NoNode}, NEW done \in Seq(Nodes), NEW st \in Statuses,
           (st = "COMPLETED") <=> (m = NoNode)
    PROVE  [c EXCEPT !.state = t, !.node = m, !.completed = done, !.status = st] \in Checkpoint
<1> DEFINE v == [c EXCEPT !.state = t, !.node = m, !.completed = done, !.status = st]
<1>1. c \in Snapshot BY DEF Checkpoint
<1>2. v \in Snapshot BY <1>1 DEF Snapshot
<1>3. v.status = st /\ v.node = m BY <1>1 DEF Snapshot
<1> HIDE DEF v
<1>4. v \in Checkpoint BY <1>2, <1>3 DEF Checkpoint
<1> QED BY <1>4 DEF v

LEMMA SavedNodeType ==
    ASSUME IInv, NEW r \in Runs, pc[r] = "save", MaySave(draft[r])
    PROVE  SavedNode(r) \in Checkpoint
<1> DEFINE c == cur[r]
           d == draft[r]
           done == c.completed \o d.recorded
<1>1. c \in Checkpoint BY DEF IInv, Holds, Holders
<1>2. d.state \in [Keys -> Inputs \union Nodes] BY DEF IInv, Drafts, Extends
<1>3. d \in Draft BY DEF IInv, TypeOK
<1>4. done \in Seq(Nodes) BY <1>1, <1>3 DEF Checkpoint, Snapshot, Draft
<1>5. StatusOf(d) \in Statuses /\ ((StatusOf(d) = "COMPLETED") <=> (d.next = NoNode))
  BY <1>3 DEF StatusOf, MaySave, Statuses, Draft
<1>6. SavedNode(r) = [c EXCEPT !.state = d.state, !.node = d.next,
                               !.completed = done, !.status = StatusOf(d)]
  BY DEF SavedNode
<1>7. d.next \in Nodes \union {NoNode} BY <1>3 DEF Draft
<1>8. [c EXCEPT !.state = d.state, !.node = d.next,
                !.completed = done, !.status = StatusOf(d)] \in Checkpoint
  BY <1>1, <1>2, <1>4, <1>5, <1>7, UpdateType
<1> QED BY <1>6, <1>8

LEMMA FailureStatusType ==
    \A e \in Errors : FailureStatus(e) \in {"CANCELLED", "TIMED_OUT", "FAILED"}
BY DEF FailureStatus, Errors

LEMMA EmitType ==
    ASSUME TypeOK, NEW r \in Runs, NEW st \in Statuses, Emit(r, st)
    PROVE  terminal' \in [Runs -> Seq(Statuses)]
BY DEF Emit, TypeOK

LEMMA GotoType ==
    ASSUME TypeOK, NEW r \in Runs, NEW l \in Labels, Goto(r, l)
    PROVE  pc' \in [Runs -> Labels]
BY DEF Goto, TypeOK

LEMMA ForgetType ==
    ASSUME TypeOK, NEW r \in Runs, Forget(r)
    PROVE  /\ draft' \in [Runs -> Draft] /\ siblings' \in [Runs -> BOOLEAN]
           /\ branch' \in [Runs -> [AllBranches -> Result]]
BY DraftTypes DEF Forget, TypeOK

LEMMA PrimaryType ==
    ASSUME NEW es, NEW i \in PrimaryError(es)
    PROVE  i \in DOMAIN es
BY DEF PrimaryError, FirstError

\* Past the head of the loop a run has a node to run.
LEMMA HolderNode ==
    ASSUME IInv, NEW r \in Runs, pc[r] \in Holders \ {"loop"}
    PROVE  cur[r] \in Checkpoint /\ cur[r].node \in Nodes /\ cur[r].status = "RUNNING"
BY DEF IInv, Holds, Holders, Checkpoint, Snapshot

\* What user code raises is an error, and is remembered as foreign.
LEMMA NoteType ==
    ASSUME TypeOK, NEW r \in Runs, NEW e, Note(r, e)
    PROVE  /\ OwnErrors(r) \subseteq {"failed", "cancelled", "timed_out"}
           /\ foreign' \in [Runs -> SUBSET ControlErrors]
BY RunsAssumption DEF RunsAssumption, TypeOK, Note, OwnErrors, ControlErrors

LEMMA BranchEndsType ==
    ASSUME IInv, NEW r \in Runs, NEW b, NEW res \in Result, BranchEnds(r, b, res),
           foreign' \in [Runs -> SUBSET ControlErrors]
    PROVE  TypeOK'
<1>1. cur[r].node \in Nodes BY HolderNode DEF BranchEnds, Holders
<1>2. b \in AllBranches BY <1>1 DEF BranchEnds, Pending, AllBranches
<1> QED BY <1>2 DEF BranchEnds, IInv, TypeOK, disk, context

\* Every step keeps the types.
LEMMA TypeStep ==
    ASSUME IInv, Next
    PROVE  TypeOK'
<1> USE DEF disk, locals, context
<1>0. TypeOK BY DEF IInv
<1>1. ASSUME NEW r \in Runs, NEW w \in Workflows, NEW i \in Inputs, Start(r, w, i)
      PROVE  TypeOK'
  <2>1. FirstCheckpoint(Version[r], i) \in Checkpoint BY RunsAssumption, FirstType DEF RunsAssumption
  <2> QED BY <1>0, <1>1, <2>1 DEF Start, Begin, Goto, TypeOK, Labels
<1>2. ASSUME NEW r \in Runs, NEW w \in Workflows, NEW source \in Workflows, Replay(r, source, w)
      PROVE  TypeOK'
  <2>1. store[source] \in Checkpoint BY <1>0, <1>2 DEF TypeOK, Replay, Compatible
  <2>2. ReplayInput(store[source]) \in Checkpoint
    BY <2>1, FirstType DEF ReplayInput, Checkpoint, Snapshot
  <2> QED BY <1>0, <1>2, <2>2 DEF Replay, Begin, Goto, TypeOK, Labels
<1>3. ASSUME NEW r \in Runs, NEW w \in Workflows, Resume(r, w)
      PROVE  TypeOK'
  BY <1>0, <1>3 DEF Resume, Begin, Goto, TypeOK, Labels
<1>4. ASSUME NEW r \in Runs, Refuse(r)
      PROVE  TypeOK'
  BY <1>0, <1>4 DEF Refuse, Goto, TypeOK, Labels
<1>5. ASSUME NEW r \in Runs, Open(r)
      PROVE  TypeOK'
  BY <1>0, <1>5, OpenType, SavesType DEF Open, Goto, TypeOK, Labels
<1>6. ASSUME NEW r \in Runs, OpenRaises(r)
      PROVE  TypeOK'
  BY <1>0, <1>6 DEF OpenRaises, SaveRaises, Goto, TypeOK, Labels
<1>7. ASSUME NEW r \in Runs, LoopEnds(r)
      PROVE  TypeOK'
  BY <1>0, <1>7, EmitType, GotoType DEF LoopEnds, TypeOK, Labels, Statuses
<1>8. ASSUME NEW r \in Runs, LoopChecks(r)
      PROVE  TypeOK'
  BY <1>0, <1>8, ActiveTypes, GotoOrRaiseType DEF LoopChecks, TypeOK, Labels
<1>9. ASSUME NEW r \in Runs, Spawn(r)
      PROVE  TypeOK'
  BY <1>0, <1>9, ActiveTypes, GotoOrRaiseType DEF Spawn, TypeOK, Labels
<1>10. ASSUME NEW r \in Runs, NEW ks \in SUBSET Keys, NEW b \in BOOLEAN, NodeReturns(r, ks, b)
       PROVE  TypeOK'
  <2>1. cur[r] \in Checkpoint /\ cur[r].node \in Nodes
    BY <1>10 DEF IInv, Holds, Holders, NodeReturns, Checkpoint, Snapshot
  <2>2. Merge(cur[r].state, cur[r].node, ks) \in [Keys -> Inputs \union Nodes \union {NoNode}]
    BY <2>1 DEF Merge, Checkpoint, Snapshot
  <2>3. <<cur[r].node>> \in Seq(Nodes) BY <2>1
  <2> QED BY <1>0, <1>10, <2>2, <2>3 DEF NodeReturns, Goto, TypeOK, Labels, Draft
<1>11. ASSUME NEW r \in Runs, NEW e \in OwnErrors(r), NodeRaises(r, e) \/ SelectorRaises(r, e)
       PROVE  TypeOK'
  <2>1. Note(r, e) /\ Raise(r, e) BY <1>11 DEF NodeRaises, SelectorRaises
  <2>2. e \in Errors /\ foreign' \in [Runs -> SUBSET ControlErrors]
    BY <1>0, <2>1, NoteType DEF Errors
  <2> QED BY <1>0, <1>11, <2>1, <2>2, RaiseType DEF NodeRaises, SelectorRaises, TypeOK
<1>12. ASSUME NEW r \in Runs, NodeStops(r) \/ SelectorStops(r)
       PROVE  TypeOK'
  BY <1>0, <1>12, RaiseType, ActiveTypes DEF NodeStops, SelectorStops, TypeOK
<1>13. ASSUME NEW r \in Runs, SelectNext(r) \/ SelectorReturns(r)
       PROVE  TypeOK'
  <2>1. cur[r] \in Checkpoint /\ cur[r].node \in Nodes
    BY <1>13 DEF IInv, Holds, Holders, SelectNext, SelectorReturns, Checkpoint, Snapshot
  <2>2. PICK m \in Nodes \union {NoNode} : Chooses(r, m)
    BY <1>13, <2>1, GraphAssumption
    DEF SelectNext, SelectorReturns, Successors, GraphAssumption
  <2> QED BY <1>0, <2>2 DEF Chooses, Goto, TypeOK, Labels, Draft
<1>14. ASSUME NEW r \in Runs, CallSelector(r)
       PROVE  TypeOK'
  BY <1>0, <1>14, ActiveTypes, GotoOrRaiseType DEF CallSelector, TypeOK, Labels
<1>15. ASSUME NEW r \in Runs, Fork(r)
       PROVE  TypeOK'
  <2>1. PICK e \in {"failed", "none"} : GotoOrRaise(r, "fork", e) BY <1>15 DEF Fork
  <2> QED BY <1>0, <1>15, <2>1, GotoOrRaiseType DEF Fork, TypeOK, Labels, Errors
<1>16. ASSUME NEW r \in Runs, Submit(r)
       PROVE  TypeOK'
  <2> DEFINE x == Branches[cur[r].node][Cardinality(Forked(r)) + 1]
             f == [branch[r] EXCEPT ![x].status = "running"]
  <2>1. f \in [AllBranches -> Result]
    <3>1. branch[r] \in [AllBranches -> Result] BY <1>0 DEF TypeOK
    <3>2. \A res \in Result : [res EXCEPT !.status = "running"] \in Result BY DEF Result
    <3>3. f = [branch[r] EXCEPT ![x] = [branch[r][x] EXCEPT !.status = "running"]] OBVIOUS
    <3> QED BY <3>1, <3>2, <3>3
  <2>2. PICK e \in Child(r) :
           IF e = "none"
           THEN /\ branch' = [branch EXCEPT ![r][x].status = "running"]
                /\ Goto(r, IF Cardinality(Forked(r)) + 1 = Len(Branches[cur[r].node])
                           THEN "wait" ELSE "fork")
                /\ UNCHANGED err
           ELSE /\ Goto(r, "drain")
                /\ err' = [err EXCEPT ![r] = e]
                /\ UNCHANGED branch
    BY <1>16 DEF Submit
  <2>3. branch' = [branch EXCEPT ![r] = f] \/ UNCHANGED branch BY <1>0, <2>2 DEF TypeOK
  <2>4. branch' \in [Runs -> [AllBranches -> Result]] BY <1>0, <2>1, <2>3 DEF TypeOK
  <2>5. pc' \in [Runs -> Labels] /\ err' \in [Runs -> Errors]
    BY <1>0, <2>2, ActiveTypes DEF Goto, TypeOK, Labels
  <2> QED BY <1>0, <1>16, <2>4, <2>5 DEF Submit, TypeOK
<1>17. ASSUME NEW r \in Runs, Drain(r)
       PROVE  TypeOK'
  BY <1>0, <1>17, RaiseType DEF Drain, TypeOK
<1>18. ASSUME NEW r \in Runs, FirstException(r)
       PROVE  TypeOK'
  BY <1>0, <1>18 DEF FirstException, CancelSiblings, Goto, TypeOK, Labels
<1>19. ASSUME NEW r \in Runs, NEW b \in AllBranches,
              BranchReturns(r, b) \/ BranchStops(r, b)
              \/ \E e \in OwnErrors(r) : BranchRaises(r, b, e)
       PROVE  TypeOK'
  <2>1. b \in Nodes /\ Updates[b] \subseteq SUBSET Keys
    BY BranchSetType, GraphAssumption DEF AllBranches, GraphAssumption
  <2>2. CASE BranchReturns(r, b)
    <3>1. PICK ks \in Updates[b], st \in {"returned", "interrupt", "abandoned"} :
             /\ BranchEnds(r, b, [status |-> st, keys |-> IF st = "returned" THEN ks ELSE {}])
             /\ Note(r, IF st = "abandoned" THEN "cancelled" ELSE "none")
      BY <2>2 DEF BranchReturns
    <3>2. [status |-> st, keys |-> IF st = "returned" THEN ks ELSE {}] \in Result
      BY <2>1 DEF Result
    <3> QED BY <1>0, <3>1, <3>2, NoteType, BranchEndsType
  <2>3. CASE BranchStops(r, b)
    <3>1. [status |-> BranchActive(r), keys |-> {}] \in Result
      BY <2>3, ActiveTypes DEF BranchStops, Result
    <3>2. UNCHANGED foreign /\ BranchEnds(r, b, [status |-> BranchActive(r), keys |-> {}])
      BY <2>3 DEF BranchStops
    <3> QED BY <1>0, <3>1, <3>2, BranchEndsType DEF TypeOK
  <2>4. ASSUME NEW e \in OwnErrors(r), BranchRaises(r, b, e) PROVE TypeOK'
    <3>1. Note(r, e) /\ BranchEnds(r, b, [status |-> e, keys |-> {}])
      BY <2>4 DEF BranchRaises
    <3>2. [status |-> e, keys |-> {}] \in Result
      BY <1>0, <3>1, NoteType DEF Result
    <3> QED BY <1>0, <3>1, <3>2, NoteType, BranchEndsType
  <2> QED BY <1>19, <2>2, <2>3, <2>4
<1>20. ASSUME NEW r \in Runs, Collect(r)
       PROVE  TypeOK'
  <2> DEFINE n == cur[r].node
             written == [b \in BranchSet(n) |-> branch[r][b].keys]
             errors == [i \in DOMAIN Branches[n] |-> BranchError(r, Branches[n][i])]
  <2>1. n \in Nodes /\ cur[r] \in Checkpoint BY <1>20, HolderNode DEF Collect, Holders
  <2>2. CASE \E i \in PrimaryError(errors) : Raise(r, errors[i])
    <3>1. PICK i \in PrimaryError(errors) : Raise(r, errors[i]) BY <2>2
    <3>2. errors[i] \in Errors
      BY <3>1, PrimaryType, ActiveTypes DEF BranchError, Errors
    <3> QED BY <1>0, <1>20, <3>1, <3>2, RaiseType DEF Collect, TypeOK
  <2>3. CASE Raise(r, "failed")
    BY <1>0, <1>20, <2>3, RaiseType DEF Collect, TypeOK, Errors
  <2>4. ASSUME NEW m \in Successors(n),
               draft' = [draft EXCEPT ![r].state = MergeAll(@, n, written),
                                      ![r].recorded = @ \o Branches[n],
                                      ![r].next = m],
               Goto(r, "save"), UNCHANGED <<err, branch, siblings>>
        PROVE  TypeOK'
    <3> DEFINE d == draft[r]
    <3>1. d \in Draft /\ m \in Nodes \union {NoNode} /\ Branches[n] \in Seq(Nodes)
      BY <1>0, <2>1, <2>4, GraphAssumption DEF TypeOK, Successors, GraphAssumption
    <3>2. MergeAll(d.state, n, written) \in [Keys -> Inputs \union Nodes \union {NoNode}]
      BY <2>1, <3>1, BranchSetType DEF MergeAll, Draft
    <3>3. d.recorded \o Branches[n] \in Seq(Nodes) BY <3>1 DEF Draft
    <3>4. draft' = [draft EXCEPT ![r] = [d EXCEPT !.state = MergeAll(d.state, n, written),
                                                  !.recorded = d.recorded \o Branches[n],
                                                  !.next = m]]
      BY <1>0, <2>4, <3>1 DEF TypeOK, Draft
    <3>5. [d EXCEPT !.state = MergeAll(d.state, n, written),
                    !.recorded = d.recorded \o Branches[n], !.next = m] \in Draft
      BY <3>1, <3>2, <3>3 DEF Draft
    <3>6. draft' \in [Runs -> Draft] BY <1>0, <3>4, <3>5 DEF TypeOK
    <3>7. pc' \in [Runs -> Labels] BY <1>0, <2>4, GotoType DEF Labels
    <3> QED BY <1>0, <1>20, <2>4, <3>6, <3>7 DEF Collect, TypeOK
  <2> QED BY <1>20, <2>2, <2>3, <2>4 DEF Collect
<1>21. ASSUME NEW r \in Runs, SaveRefused(r)
       PROVE  TypeOK'
  BY <1>0, <1>21, RaiseType DEF SaveRefused, TypeOK, Errors
<1>22. ASSUME NEW r \in Runs, SaveNode(r)
       PROVE  TypeOK'
  <2>1. Saves(r, SavedNode(r)) BY <1>22 DEF SaveNode, SavedNode
  <2>2. SavedNode(r) \in Checkpoint BY <1>22, SavedNodeType DEF SaveNode
  <2>3. terminal' \in [Runs -> Seq(Statuses)] /\ pc' \in [Runs -> Labels]
    BY <1>0, <1>22, EmitType, GotoType DEF SaveNode, TypeOK, Statuses, Labels
  <2> QED BY <1>0, <1>22, <2>1, <2>2, <2>3, SavesType, ForgetType DEF SaveNode, TypeOK
<1>23. ASSUME NEW r \in Runs, SaveNodeRaises(r)
       PROVE  TypeOK'
  BY <1>0, <1>23, EmitType, GotoType, ForgetType
  DEF SaveNodeRaises, SaveRaises, TypeOK, Labels, Statuses
<1>24. ASSUME NEW r \in Runs, SaveFailure(r)
       PROVE  TypeOK'
  <2>1. FailureStatus(err[r]) \in {"CANCELLED", "TIMED_OUT", "FAILED"}
    BY <1>0, FailureStatusType DEF TypeOK
  <2>2. pc[r] \in Holders /\ cur[r].status = "RUNNING"
    BY <1>24 DEF SaveFailure, Holders, IInv, Holds
  <2>3. [cur[r] EXCEPT !.status = FailureStatus(err[r])] \in Checkpoint
    BY <2>1, <2>2, StatusType
  <2>4. terminal' \in [Runs -> Seq(Statuses)] /\ pc' \in [Runs -> Labels]
    BY <1>0, <1>24, <2>1, EmitType, GotoType DEF SaveFailure, Statuses, Labels
  <2> QED BY <1>0, <1>24, <2>3, <2>4, SavesType DEF SaveFailure, TypeOK
<1>25. ASSUME NEW r \in Runs, SaveFailureRaises(r)
       PROVE  TypeOK'
  BY <1>0, <1>25, EmitType, GotoType
  DEF SaveFailureRaises, SaveRaises, UnsavedEvent, TypeOK, Labels, Statuses
<1>26. ASSUME NEW r \in Runs, Unwind(r)
       PROVE  TypeOK'
  BY <1>0, <1>26, EmitType, GotoType DEF Unwind, TypeOK, Labels, Statuses
<1>27. ASSUME NEW r \in Runs, Cancel(r) \/ Expire(r)
       PROVE  TypeOK'
  BY <1>0, <1>27 DEF Cancel, Expire, TypeOK
<1>28. ASSUME NEW r \in Runs, Crash(r)
       PROVE  TypeOK'
  BY <1>0, <1>28, GotoType, ForgetType DEF Crash, TypeOK, Labels, Errors
<1>29. ASSUME Done PROVE TypeOK'
  BY <1>0, <1>29 DEF Done, vars, TypeOK
<1> QED
  BY <1>1, <1>2, <1>3, <1>4, <1>5, <1>6, <1>7, <1>8, <1>9, <1>10, <1>11, <1>12, <1>13, <1>14,
     <1>15, <1>16, <1>17, <1>18, <1>19, <1>20, <1>21, <1>22, <1>23, <1>24, <1>25, <1>26, <1>27,
     <1>28, <1>29 DEF Next, Progress, Call, Step, Handler

----------------------------------------------------------------------------
(* The inductive invariant *)

RunInv(r) == Holds(r) /\ Opens(r) /\ Drafts(r)

KeepsOthers(r) == \A s \in Runs \ {r} : /\ pc'[s] = pc[s] /\ wf'[s] = wf[s]
                                        /\ cur'[s] = cur[s] /\ draft'[s] = draft[s]

\* A step that leaves the store alone disturbs no other run.
LEMMA QuietStep ==
    ASSUME IInv, NEW r \in Runs, UNCHANGED disk, KeepsOthers(r), RunInv(r)'
    PROVE  StoreInv' /\ \A s \in Runs : RunInv(s)'
<1>1. StoreInv' BY DEF IInv, StoreInv, disk
<1>2. ASSUME NEW s \in Runs, s # r PROVE RunInv(s)'
  <2>1. store' = store /\ owner' = owner BY DEF disk
  <2>2. pc'[s] = pc[s] /\ wf'[s] = wf[s] /\ cur'[s] = cur[s] /\ draft'[s] = draft[s]
    BY <1>2 DEF KeepsOthers
  <2>3. Holds(s)' BY <2>1, <2>2 DEF IInv, Holds
  <2>4. Opens(s)' BY <2>1, <2>2 DEF IInv, Opens
  <2>5. Drafts(s)' BY <2>1, <2>2 DEF IInv, Drafts, Extends
  <2> QED BY <2>3, <2>4, <2>5 DEF RunInv
<1> QED BY <1>1, <1>2

\* A save puts the store one revision past every other run's copy.
LEMMA SaveStep ==
    ASSUME IInv, NEW r \in Runs, NEW cp \in Checkpoint, Saves(r, cp), KeepsOthers(r), RunInv(r)'
    PROVE  StoreInv' /\ \A s \in Runs : RunInv(s)'
<1> DEFINE w == wf[r]
<1>0. TypeOK BY DEF IInv
<1>1. w \in Workflows /\ store[w].revision \in Nat /\ store'[w].revision = store[w].revision + 1
      /\ store'[w] \in Checkpoint
  <2>1. w \in Workflows BY <1>0 DEF TypeOK
  <2>2. /\ store'[w] = [cp EXCEPT !.revision = store[w].revision + 1]
        /\ store'[w] \in Checkpoint /\ store[w].revision \in Nat
    BY <1>0, SavesType
  <2>3. [cp EXCEPT !.revision = store[w].revision + 1].revision = store[w].revision + 1
    BY DEF Checkpoint, Snapshot
  <2> QED BY <2>1, <2>2, <2>3
<1>2. \A v \in Workflows \ {w} : store'[v] = store[v] /\ owner'[v] = owner[v]
  BY <1>0 DEF Saves, TypeOK
<1> HIDE DEF w
<1>3. StoreInv' BY <1>1, <1>2 DEF IInv, StoreInv
<1>4. ASSUME NEW s \in Runs, s # r PROVE RunInv(s)'
  <2>1. pc'[s] = pc[s] /\ wf'[s] = wf[s] /\ cur'[s] = cur[s] /\ draft'[s] = draft[s]
    BY <1>4 DEF KeepsOthers
  <2>2. wf[s] \in Workflows /\ cur[s].revision \in Nat /\ store[wf[s]].revision \in Nat
    <3>1. /\ wf[s] \in Workflows
          /\ cur[s] \in Checkpoint \union {NoCheckpoint}
          /\ store[wf[s]] \in Checkpoint \union {NoCheckpoint}
      BY <1>0 DEF TypeOK
    <3> QED BY <3>1, RevisionType
  <2>3. Holds(s)' BY <1>1, <1>2, <2>1, <2>2 DEF IInv, Holds
  <2>4. Opens(s)'
    <3>1. CASE wf[s] # w BY <1>2, <2>1, <2>2, <3>1 DEF IInv, Opens
    <3>2. CASE wf[s] = w /\ pc[s] = "opening"
      <4>1. store[w].revision >= cur[s].revision BY <3>2 DEF IInv, Opens
      <4>2. store'[w].revision > cur[s].revision BY <1>1, <2>2, <3>2, <4>1
      <4>3. cur[s] \in Checkpoint /\ cur[s].status \in Resumable
            /\ (cur[s].revision = 0 => \E i \in Inputs : cur[s] = FirstCheckpoint(Version[s], i))
        BY <3>2 DEF IInv, Opens
      <4> HIDE DEF Opens
      <4> QED BY <1>1, <2>1, <2>2, <3>2, <4>2, <4>3 DEF Opens
    <3>3. CASE pc[s] # "opening" BY <2>1, <3>3 DEF Opens
    <3> QED BY <3>1, <3>2, <3>3
  <2>5. Drafts(s)' BY <2>1 DEF IInv, Drafts, Extends
  <2> QED BY <2>3, <2>4, <2>5 DEF RunInv
<1> QED BY <1>3, <1>4

\* A step of a run that has a node to run and leaves for a label that says
\* nothing of the draft, or keeps the draft between two labels that do.
LEMMA LabelStep ==
    ASSUME IInv, NEW r \in Runs, NEW l \in Labels, pc' = [pc EXCEPT ![r] = l],
           l # "opening", UNCHANGED <<disk, wf, cur>>,
           \/ l \notin {"loop", "transition", "selector", "fork", "wait", "join", "save"}
           \/ /\ pc[r] \in {"transition", "fork", "wait"} /\ draft'[r] = draft[r]
              /\ l \in {"fork", "wait", "join"},
           l \in Holders => pc[r] \in Holders /\ cur[r].status = "RUNNING"
    PROVE  RunInv(r)'
<1>1. pc'[r] = l BY DEF IInv, TypeOK
<1>2. Opens(r)' BY <1>1 DEF Opens
<1>3. Holds(r)' BY <1>1 DEF IInv, Holds, disk, Holders
<1>4. Drafts(r)' BY <1>1 DEF IInv, Drafts, Extends
<1> QED BY <1>2, <1>3, <1>4 DEF RunInv

LEMMA RaiseStep ==
    ASSUME IInv, NEW r \in Runs, NEW e, Raise(r, e), UNCHANGED <<disk, wf, cur>>,
           pc[r] \in Holders, cur[r].status = "RUNNING"
    PROVE  RunInv(r)' /\ KeepsOthers(r)
<1>1. RunInv(r)' BY LabelStep DEF Raise, Goto, Holders, Labels
<1>2. KeepsOthers(r) BY DEF Raise, Goto, Forget, KeepsOthers, IInv, TypeOK
<1> QED BY <1>1, <1>2

LEMMA GotoOrRaiseStep ==
    ASSUME IInv, NEW r \in Runs, NEW e, NEW l \in {"spawn", "handler", "fork"},
           GotoOrRaise(r, l, e), UNCHANGED <<disk, wf, cur>>,
           l = "fork" => pc[r] = "transition",
           pc[r] \in Holders, cur[r].status = "RUNNING"
    PROVE  RunInv(r)' /\ KeepsOthers(r)
<1>1. CASE e # "none" BY <1>1, RaiseStep DEF GotoOrRaise
<1>2. CASE e = "none"
  <2>1. RunInv(r)' BY <1>2, LabelStep DEF GotoOrRaise, Goto, Holders, Labels, locals
  <2>2. KeepsOthers(r) BY <1>2 DEF GotoOrRaise, Goto, KeepsOthers, IInv, TypeOK, locals
  <2> QED BY <2>1, <2>2
<1> QED BY <1>1, <1>2

\* After its save a run owns the checkpoint the store holds.
LEMMA OwnSave ==
    ASSUME IInv, NEW r \in Runs, NEW cp \in Checkpoint, Saves(r, cp), NEW l,
           pc' = [pc EXCEPT ![r] = l], wf' = wf,
           \/ l = "loop" /\ cp.status \in {"RUNNING", "COMPLETED"}
           \/ l \notin Holders \union {"opening"}
    PROVE  RunInv(r)'
<1> DEFINE w == wf[r]
<1>0. TypeOK BY DEF IInv
<1>1. /\ store'[w] = [cp EXCEPT !.revision = store[w].revision + 1]
      /\ store'[w] \in Checkpoint /\ store[w].revision \in Nat
      /\ cur'[r] = store'[w] /\ owner'[w] = r
  BY <1>0, SavesType
<1>2. store'[w].revision = store[w].revision + 1 /\ store'[w].status = cp.status
  <2>1. /\ [cp EXCEPT !.revision = store[w].revision + 1].revision = store[w].revision + 1
        /\ [cp EXCEPT !.revision = store[w].revision + 1].status = cp.status
    BY DEF Checkpoint, Snapshot
  <2> QED BY <1>1, <2>1
<1>3. pc'[r] = l /\ wf'[r] = w BY <1>0 DEF TypeOK
<1> HIDE DEF w
<1>4. Holds(r)'
  <2>1. CASE l \notin Holders BY <1>3, <2>1 DEF Holds
  <2>2. CASE l = "loop" /\ cp.status \in {"RUNNING", "COMPLETED"}
    <3>1. cur'[r].revision >= 1 /\ store'[w].revision >= cur'[r].revision
      BY <1>1, <1>2
    <3>2. cur'[r] \in Checkpoint /\ cur'[r].status \in {"RUNNING", "COMPLETED"}
      BY <1>1, <1>2, <2>2
    <3> QED BY <1>1, <1>3, <2>2, <3>1, <3>2 DEF Holds
  <2> QED BY <2>1, <2>2
<1>5. Opens(r)' BY <1>3 DEF Opens, Holders
<1>6. Drafts(r)' BY <1>3 DEF Drafts, Holders
<1> QED BY <1>4, <1>5, <1>6 DEF RunInv

LEMMA BeginStep ==
    ASSUME IInv, NEW r \in Runs, NEW w \in Workflows, NEW cp \in Checkpoint, Begin(r, w, cp),
           \/ cp = store[w] /\ cp.status \in Resumable
           \/ \E i \in Inputs : cp = FirstCheckpoint(Version[r], i)
    PROVE  StoreInv' /\ \A s \in Runs : RunInv(s)'
<1>0. TypeOK BY DEF IInv
<1>1. UNCHANGED disk /\ KeepsOthers(r) BY <1>0 DEF Begin, Goto, KeepsOthers, TypeOK, locals
<1>2. pc'[r] = "opening" /\ wf'[r] = w /\ cur'[r] = cp /\ store' = store
  BY <1>0 DEF Begin, Goto, TypeOK, disk
<1>3. cp.revision \in Nat /\ store[w].revision \in Nat
      /\ (store[w] = NoCheckpoint \/ store[w].revision >= 1)
  BY <1>0 DEF TypeOK, Checkpoint, Snapshot, NoCheckpoint, IInv, StoreInv
<1>4. Opens(r)'
  <2>1. CASE cp = store[w] /\ cp.status \in Resumable
    <3>1. store[w] # NoCheckpoint BY <2>1, NoCheckpointIsNone
    <3> QED BY <1>2, <1>3, <2>1, <3>1 DEF Opens
  <2>2. CASE \E i \in Inputs : cp = FirstCheckpoint(Version[r], i)
    <3>1. cp.revision = 0 /\ cp.status = "RUNNING" BY <2>2 DEF FirstCheckpoint
    <3> QED BY <1>2, <1>3, <2>2, <3>1 DEF Opens, Resumable, Statuses
  <2> QED BY <2>1, <2>2
<1>5. Holds(r)' /\ Drafts(r)' BY <1>2 DEF Holds, Holders, Drafts
<1> QED BY <1>1, <1>4, <1>5, QuietStep DEF RunInv

\* Every step keeps the part of the invariant that speaks of the runs.
LEMMA RunsStep ==
    ASSUME IInv, Next
    PROVE  StoreInv' /\ \A s \in Runs : RunInv(s)'
<1> USE DEF disk, locals, context
<1>0. TypeOK BY DEF IInv
<1> DEFINE Goal == StoreInv' /\ \A s \in Runs : RunInv(s)'
<1>1. ASSUME NEW r \in Runs, NEW w \in Workflows, NEW i \in Inputs, Start(r, w, i)
      PROVE  Goal
  <2>1. FirstCheckpoint(Version[r], i) \in Checkpoint BY RunsAssumption, FirstType DEF RunsAssumption
  <2> QED BY <1>1, <2>1, BeginStep DEF Start
<1>2. ASSUME NEW r \in Runs, NEW w \in Workflows, NEW source \in Workflows, Replay(r, source, w)
      PROVE  Goal
  <2>1. store[source] \in Checkpoint /\ store[source].version = Version[r]
    BY <1>0, <1>2 DEF TypeOK, Replay, Compatible
  <2>2. ReplayInput(store[source]) \in Checkpoint
        /\ \E i \in Inputs : ReplayInput(store[source]) = FirstCheckpoint(Version[r], i)
    BY <2>1, FirstType DEF ReplayInput, Checkpoint, Snapshot
  <2> QED BY <1>2, <2>2, BeginStep DEF Replay
<1>3. ASSUME NEW r \in Runs, NEW w \in Workflows, Resume(r, w)
      PROVE  Goal
  <2>1. store[w] \in Checkpoint BY <1>0, <1>3 DEF TypeOK, Resume, Compatible
  <2>2. store[w].status \in Resumable
    BY <1>3, <2>1 DEF Resume, Resumable, Checkpoint, Snapshot
  <2> QED BY <1>3, <2>1, <2>2, BeginStep DEF Resume
<1>4. ASSUME NEW r \in Runs, Refuse(r) \/ OpenRaises(r) \/ LoopEnds(r) \/ SaveNodeRaises(r)
                             \/ SaveFailureRaises(r) \/ Unwind(r) \/ Crash(r)
      PROVE  Goal
  <2>1. UNCHANGED disk /\ KeepsOthers(r) /\ pc'[r] \notin Holders \union {"opening"}
    BY <1>0, <1>4 DEF Refuse, OpenRaises, LoopEnds, SaveNodeRaises, SaveFailureRaises, Unwind,
       Crash, SaveRaises, Goto, Forget, KeepsOthers, TypeOK, Holders
  <2>2. RunInv(r)' BY <2>1 DEF RunInv, Holds, Opens, Drafts, Holders
  <2> QED BY <2>1, <2>2, QuietStep
<1>5. ASSUME NEW r \in Runs, Open(r)
      PROVE  Goal
  <2> DEFINE cp == [cur[r] EXCEPT !.status = "RUNNING"]
  <2>1. cp \in Checkpoint /\ Saves(r, cp) BY <1>5, OpenType DEF Open
  <2>2. cp.status = "RUNNING" BY <1>5 DEF Open, IInv, Opens, Checkpoint, Snapshot
  <2>3. KeepsOthers(r) BY <1>0, <1>5 DEF Open, Saves, Goto, KeepsOthers, TypeOK
  <2>4. pc' = [pc EXCEPT ![r] = "loop"] /\ wf' = wf BY <1>5 DEF Open, Goto
  <2> HIDE DEF cp
  <2>5. RunInv(r)' BY <2>1, <2>2, <2>4, OwnSave
  <2> QED BY <2>1, <2>3, <2>5, SaveStep
<1>6. ASSUME NEW r \in Runs, LoopChecks(r)
      PROVE  Goal
  <2>1. pc[r] \in Holders /\ cur[r].status = "RUNNING"
    BY <1>6 DEF LoopChecks, IInv, Holds, Holders, Checkpoint
  <2> QED BY <1>6, <2>1, GotoOrRaiseStep, QuietStep DEF LoopChecks
<1>7. ASSUME NEW r \in Runs, Spawn(r) \/ Fork(r)
      PROVE  Goal
  <2>1. pc[r] \in Holders /\ cur[r].status = "RUNNING"
    BY <1>7, HolderNode DEF Spawn, Fork, Holders
  <2> QED BY <1>7, <2>1, GotoOrRaiseStep, QuietStep DEF Spawn, Fork
<1>8. ASSUME NEW r \in Runs, NEW ks \in SUBSET Keys, NEW b \in BOOLEAN, NodeReturns(r, ks, b)
      PROVE  Goal
  <2> DEFINE n == cur[r].node
  <2>1. cur[r] \in Checkpoint /\ n \in Nodes /\ cur[r].status = "RUNNING"
    BY <1>8, HolderNode DEF NodeReturns, Holders
  <2>2. UNCHANGED disk /\ KeepsOthers(r) /\ pc'[r] = "transition"
        /\ wf' = wf /\ cur' = cur
    BY <1>0, <1>8 DEF NodeReturns, Goto, KeepsOthers, TypeOK
  <2>3. draft'[r].state = Merge(cur[r].state, n, ks) /\ draft'[r].recorded = <<n>>
    BY <1>0, <1>8 DEF NodeReturns, TypeOK
  <2>4. Holds(r)' BY <1>8, <2>1, <2>2 DEF NodeReturns, IInv, Holds, Holders
  <2>5. Drafts(r)'
    BY <2>1, <2>2, <2>3 DEF Drafts, Extends, Merge, Checkpoint, Snapshot
  <2>6. Opens(r)' BY <2>2 DEF Opens
  <2> QED BY <2>2, <2>4, <2>5, <2>6, QuietStep DEF RunInv
<1>9. ASSUME NEW r \in Runs, (\E e : NodeRaises(r, e) \/ SelectorRaises(r, e))
                             \/ NodeStops(r) \/ SelectorStops(r) \/ Drain(r) \/ SaveRefused(r)
      PROVE  Goal
  <2>1. pc[r] \in Holders /\ cur[r].status = "RUNNING"
    BY <1>9, HolderNode
    DEF NodeRaises, NodeStops, SelectorRaises, SelectorStops, Drain, SaveRefused, Holders
  <2>2. (\E e : Raise(r, e)) /\ UNCHANGED <<disk, wf, cur>>
    BY <1>9 DEF NodeRaises, NodeStops, SelectorRaises, SelectorStops, Drain, SaveRefused
  <2> QED BY <2>1, <2>2, RaiseStep, QuietStep
<1>10. ASSUME NEW r \in Runs, SelectNext(r) \/ SelectorReturns(r)
       PROVE  Goal
  <2> DEFINE n == cur[r].node
  <2>1. cur[r] \in Checkpoint /\ n \in Nodes /\ cur[r].status = "RUNNING"
        /\ pc[r] \in {"transition", "selector"}
    BY <1>10, HolderNode DEF SelectNext, SelectorReturns, Holders
  <2>2. PICK m \in Successors(n) : Chooses(r, m)
    BY <1>10, <2>1 DEF SelectNext, SelectorReturns, Successors
  <2>3. UNCHANGED <<disk, wf, cur>> /\ KeepsOthers(r) /\ pc'[r] = "save"
    BY <1>0, <2>2 DEF Chooses, Goto, KeepsOthers, TypeOK
  <2>4. draft'[r].next = m /\ draft'[r].state = draft[r].state
        /\ draft'[r].recorded = draft[r].recorded
    BY <1>0, <2>2 DEF Chooses, TypeOK, Draft
  <2>5. Recorded(n) = <<n>>
    <3>1. Kind[n] # "parallel" BY <1>10 DEF SelectNext, SelectorReturns, IInv, Drafts
    <3>2. Branches[n] = << >> BY <2>1, <3>1, GraphAssumption DEF GraphAssumption
    <3> QED BY <3>2 DEF Recorded
  <2>6. Extends(r, {n}) /\ draft[r].recorded = <<n>> BY <2>1 DEF IInv, Drafts
  <2>7. Holds(r)' BY <2>1, <2>3 DEF IInv, Holds, Holders
  <2>8. Drafts(r)' BY <2>3, <2>4, <2>5, <2>6 DEF Drafts, Extends
  <2>9. Opens(r)' BY <2>3 DEF Opens
  <2> QED BY <2>3, <2>7, <2>8, <2>9, QuietStep DEF RunInv
<1>11. ASSUME NEW r \in Runs, CallSelector(r)
       PROVE  Goal
  <2>1. pc[r] = "transition" /\ pc[r] \in Holders /\ cur[r].status = "RUNNING"
        /\ UNCHANGED <<disk, wf, cur>>
    BY <1>11, HolderNode DEF CallSelector, Holders
  <2>2. PICK e : GotoOrRaise(r, "selector", e) BY <1>11 DEF CallSelector
  <2>3. CASE e # "none" BY <2>1, <2>2, <2>3, RaiseStep, QuietStep DEF GotoOrRaise
  <2>4. CASE e = "none"
    <3>1. pc' = [pc EXCEPT ![r] = "selector"] /\ draft' = draft
      BY <2>2, <2>4 DEF GotoOrRaise, Goto
    <3>2. KeepsOthers(r) /\ pc'[r] = "selector" BY <1>0, <2>1, <3>1 DEF KeepsOthers, TypeOK
    <3>3. Holds(r)' BY <2>1, <3>2 DEF IInv, Holds, Holders
    <3>4. Drafts(r)' BY <1>11, <2>1, <3>1, <3>2 DEF IInv, Drafts, Extends, CallSelector
    <3>5. Opens(r)' BY <3>2 DEF Opens
    <3> QED BY <2>1, <3>2, <3>3, <3>4, <3>5, QuietStep DEF RunInv
  <2> QED BY <2>3, <2>4
<1>12. ASSUME NEW r \in Runs, Submit(r) \/ FirstException(r)
       PROVE  Goal
  <2>1. pc[r] \in {"fork", "wait"} /\ pc[r] \in Holders /\ cur[r].status = "RUNNING"
        /\ UNCHANGED <<disk, wf, cur, draft>>
    BY <1>12, HolderNode DEF Submit, FirstException, Holders
  <2>2. PICK l \in {"fork", "wait", "drain", "join"} : pc' = [pc EXCEPT ![r] = l]
    BY <1>12 DEF Submit, FirstException, Goto
  <2>3. RunInv(r)' BY <2>1, <2>2, LabelStep DEF Labels, Holders
  <2>4. KeepsOthers(r) BY <1>0, <2>1, <2>2 DEF KeepsOthers, TypeOK
  <2> QED BY <2>1, <2>3, <2>4, QuietStep
<1>13. ASSUME NEW r \in Runs, NEW b \in AllBranches,
              BranchReturns(r, b) \/ (\E e : BranchRaises(r, b, e)) \/ BranchStops(r, b)
       PROVE  Goal
  <2>1. UNCHANGED <<disk, pc, wf, cur, draft>>
    BY <1>13 DEF BranchReturns, BranchRaises, BranchStops, BranchEnds
  <2>2. KeepsOthers(r) /\ RunInv(r)'
    BY <2>1 DEF KeepsOthers, RunInv, IInv, Holds, Opens, Drafts, Extends
  <2> QED BY <2>1, <2>2, QuietStep
<1>14. ASSUME NEW r \in Runs, Collect(r)
       PROVE  Goal
  <2> DEFINE n == cur[r].node
             written == [b \in BranchSet(n) |-> branch[r][b].keys]
  <2>1. cur[r] \in Checkpoint /\ n \in Nodes /\ cur[r].status = "RUNNING" /\ pc[r] = "join"
        /\ pc[r] \in Holders /\ UNCHANGED <<disk, wf, cur>>
    BY <1>14, HolderNode DEF Collect, Holders
  <2>2. CASE \E e : Raise(r, e) BY <2>1, <2>2, RaiseStep, QuietStep
  <2>3. CASE Goto(r, "save") /\ \E m \in Successors(n) :
                draft' = [draft EXCEPT ![r].state = MergeAll(@, n, written),
                                       ![r].recorded = @ \o Branches[n],
                                       ![r].next = m]
    <3>1. PICK m \in Successors(n) :
             draft' = [draft EXCEPT ![r].state = MergeAll(@, n, written),
                                    ![r].recorded = @ \o Branches[n],
                                    ![r].next = m]
      BY <2>3
    <3> HIDE DEF n, written
    <3>2. /\ draft'[r].next = m /\ draft'[r].recorded = draft[r].recorded \o Branches[n]
          /\ draft'[r].state = MergeAll(draft[r].state, n, written)
      BY <1>0, <3>1 DEF TypeOK, Draft
    <3>3. KeepsOthers(r) /\ pc'[r] = "save"
      BY <1>0, <2>1, <2>3, <3>1 DEF KeepsOthers, Goto, TypeOK
    <3>4. Extends(r, {n}) /\ draft[r].recorded = <<n>> BY <2>1 DEF IInv, Drafts, n
    <3>5. Extends(r, {n} \union BranchSet(n))'
      <4>1. BranchSet(n) \subseteq Nodes BY <2>1, BranchSetType
      <4>2. \A k \in Keys : \/ draft'[r].state[k] = draft[r].state[k]
                            \/ draft'[r].state[k] \in BranchSet(n)
        BY <3>2 DEF MergeAll
      <4>3. draft'[r].state \in [Keys -> Inputs \union Nodes]
        <5>1. \A k \in Keys : draft'[r].state[k] \in Inputs \union Nodes
          BY <3>4, <4>1, <4>2 DEF Extends
        <5>2. draft'[r].state = [k \in Keys |-> draft'[r].state[k]]
          BY <3>2 DEF MergeAll
        <5> QED BY <5>1, <5>2
      <4> QED BY <2>1, <3>4, <4>2, <4>3 DEF Extends, n
    <3>6. draft'[r].recorded = Recorded(n) BY <3>2, <3>4 DEF Recorded
    <3>7. Holds(r)' BY <2>1, <3>3 DEF IInv, Holds, Holders
    <3>8. Drafts(r)' BY <2>1, <3>2, <3>3, <3>5, <3>6 DEF Drafts, n
    <3>9. Opens(r)' BY <3>3 DEF Opens
    <3> QED BY <2>1, <3>3, <3>7, <3>8, <3>9, QuietStep DEF RunInv
  <2> QED BY <1>14, <2>2, <2>3 DEF Collect
<1>15. ASSUME NEW r \in Runs, SaveNode(r)
       PROVE  Goal
  <2>1. Saves(r, SavedNode(r)) BY <1>15 DEF SaveNode, SavedNode
  <2>2. SavedNode(r) \in Checkpoint BY <1>15, SavedNodeType DEF SaveNode
  <2>3. KeepsOthers(r) BY <1>0, <1>15 DEF SaveNode, Saves, Goto, Forget, KeepsOthers, TypeOK
  <2>4. SavedNode(r).status = StatusOf(draft[r])
    BY <1>15, HolderNode DEF SaveNode, SavedNode, Holders, Checkpoint, Snapshot
  <2>5. PICK l : /\ pc' = [pc EXCEPT ![r] = l] /\ wf' = wf
                 /\ \/ l = "loop" /\ ~draft[r].interrupted
                    \/ l = "returned"
    BY <1>15 DEF SaveNode, Goto
  <2>6. RunInv(r)'
    <3>1. l = "loop" => SavedNode(r).status \in {"RUNNING", "COMPLETED"}
      BY <2>4, <2>5 DEF StatusOf
    <3> QED BY <2>1, <2>2, <2>5, <3>1, OwnSave DEF Holders
  <2> QED BY <2>1, <2>2, <2>3, <2>6, SaveStep
<1>16. ASSUME NEW r \in Runs, SaveFailure(r)
       PROVE  Goal
  <2> DEFINE cp == [cur[r] EXCEPT !.status = FailureStatus(err[r])]
  <2>1. cp \in Checkpoint
    BY <1>0, <1>16, FailureStatusType, StatusType, HolderNode
    DEF SaveFailure, Holders, TypeOK
  <2>2. Saves(r, cp) BY <1>16 DEF SaveFailure
  <2>3. KeepsOthers(r) BY <1>0, <1>16 DEF SaveFailure, Saves, Goto, KeepsOthers, TypeOK
  <2>4. pc' = [pc EXCEPT ![r] = "unwinding"] /\ wf' = wf BY <1>16 DEF SaveFailure, Goto
  <2> HIDE DEF cp
  <2>5. RunInv(r)' BY <2>1, <2>2, <2>4, OwnSave DEF Holders
  <2> QED BY <2>1, <2>2, <2>3, <2>5, SaveStep
<1>17. ASSUME NEW r \in Runs, Cancel(r) \/ Expire(r)
       PROVE  Goal
  <2>1. UNCHANGED <<disk, pc, wf, cur, draft>> BY <1>17 DEF Cancel, Expire
  <2>2. KeepsOthers(r) /\ RunInv(r)'
    BY <2>1 DEF KeepsOthers, RunInv, IInv, Holds, Opens, Drafts, Extends
  <2> QED BY <2>1, <2>2, QuietStep
<1>18. ASSUME Done PROVE Goal
  <2>1. UNCHANGED <<disk, pc, wf, cur, draft>> BY <1>18 DEF Done, vars
  <2>2. StoreInv' BY <2>1 DEF IInv, StoreInv
  <2>3. \A s \in Runs : RunInv(s)' BY <2>1 DEF RunInv, IInv, Holds, Opens, Drafts, Extends
  <2> QED BY <2>2, <2>3
<1> HIDE DEF Goal
<1> QED
  BY <1>1, <1>2, <1>3, <1>4, <1>5, <1>6, <1>7, <1>8, <1>9, <1>10, <1>11, <1>12, <1>13, <1>14,
     <1>15, <1>16, <1>17, <1>18 DEF Next, Progress, Call, Step, Handler, Goal

LEMMA InitIInv == Init => IInv
<1> SUFFICES ASSUME Init PROVE IInv OBVIOUS
<1>1. TypeOK
  <2>1. /\ store \in [Workflows -> Checkpoint \union {NoCheckpoint}]
        /\ owner \in [Workflows -> Runs \union {NoRun}]
        /\ cur \in [Runs -> Checkpoint \union {NoCheckpoint}]
    BY DEF Init
  <2>2. wf \in [Runs -> Workflows] BY RunsAssumption DEF Init, RunsAssumption
  <2>3. draft \in [Runs -> Draft] /\ branch \in [Runs -> [AllBranches -> Result]]
    BY DraftTypes DEF Init
  <2>4. pc \in [Runs -> Labels] /\ err \in [Runs -> Errors] /\ terminal \in [Runs -> Seq(Statuses)]
    BY DEF Init, Labels, Errors
  <2>5. siblings \in [Runs -> BOOLEAN] /\ cancelled \in [Runs -> BOOLEAN]
        /\ expired \in [Runs -> BOOLEAN] /\ foreign \in [Runs -> SUBSET ControlErrors]
    BY DEF Init
  <2> QED BY <2>1, <2>2, <2>3, <2>4, <2>5 DEF TypeOK
<1>2. StoreInv BY DEF Init, StoreInv
<1>3. \A r \in Runs : Holds(r) /\ Opens(r) /\ Drafts(r)
  BY DEF Init, Holds, Opens, Drafts, Holders
<1> QED BY <1>1, <1>2, <1>3 DEF IInv

LEMMA NextIInv == IInv /\ [Next]_vars => IInv'
<1> SUFFICES ASSUME IInv, [Next]_vars PROVE IInv' OBVIOUS
<1>1. CASE Next
  <2>1. TypeOK' BY <1>1, TypeStep
  <2>2. StoreInv' /\ \A s \in Runs : RunInv(s)' BY <1>1, RunsStep
  <2> QED BY <2>1, <2>2 DEF IInv, RunInv
<1>2. CASE UNCHANGED vars
  <2>1. TypeOK' BY <1>2 DEF vars, disk, locals, context, IInv, TypeOK
  <2>2. StoreInv' BY <1>2 DEF vars, disk, IInv, StoreInv
  <2>3. ASSUME NEW r \in Runs PROVE (Holds(r) /\ Opens(r) /\ Drafts(r))'
    BY <1>2 DEF vars, disk, locals, IInv, Holds, Opens, Drafts, Extends
  <2> QED BY <2>1, <2>2, <2>3 DEF IInv
<1> QED BY <1>1, <1>2

THEOREM Inductive == Spec => []IInv
BY InitIInv, NextIInv, PTL DEF Spec

\* Every variable keeps its type, whatever the definition and however many
\* runs share the store: in particular no run ever stores a checkpoint that
\* WorkflowCheckpoint.__post_init__ would reject.
THEOREM TypeCorrect == Spec => []TypeOK
<1>1. IInv => TypeOK BY DEF IInv
<1> QED BY <1>1, Inductive, PTL

----------------------------------------------------------------------------
(* The runs and the store implement DurableWorkflow *)

\* The definitions the two modules share.
LEMMA SharedDefs ==
    /\ Durable!NoCheckpoint = NoCheckpoint /\ Durable!Resumable = Resumable
    /\ \A v, i : Durable!FirstCheckpoint(v, i) = FirstCheckpoint(v, i)
    /\ \A n : /\ Durable!BranchSet(n) = BranchSet(n)
              /\ Durable!Successors(n) = Successors(n)
              /\ Durable!Recorded(n) = Recorded(n)
BY DEF Durable!NoCheckpoint, NoCheckpoint, Durable!Resumable, Resumable, Durable!Statuses, Statuses,
   Durable!FirstCheckpoint, FirstCheckpoint, Durable!BranchSet, BranchSet,
   Durable!Successors, Successors, Durable!Recorded, Recorded, Durable!ToSet, ToSet

\* What a successful save needs of the copy it extends.
LEMMA SaveOwned ==
    ASSUME IInv, NEW r \in Runs, NEW cp, Saves(r, cp), pc[r] \in Holders
    PROVE  /\ wf[r] \in Workflows /\ store[wf[r]] = cur[r] /\ owner[wf[r]] = r
           /\ Durable!Write(wf[r], cp, r)
<1>1. wf[r] \in Workflows BY DEF IInv, TypeOK
<1>2. store[wf[r]].revision = cur[r].revision BY DEF Saves, RevisionMatches
<1>3. store[wf[r]] = cur[r] /\ owner[wf[r]] = r BY <1>2 DEF IInv, Holds
<1>4. Durable!Write(wf[r], cp, r) BY DEF Saves, Durable!Write
<1> QED BY <1>1, <1>3, <1>4

LEMMA OpenImplements ==
    ASSUME IInv, NEW r \in Runs, Open(r)
    PROVE  Durable!DNext
<1> DEFINE w == wf[r]
           cp == [cur[r] EXCEPT !.status = "RUNNING"]
<1>1. w \in Workflows BY DEF IInv, TypeOK
<1>2. Saves(r, cp) BY DEF Open
<1>3. Durable!Write(w, cp, r) BY <1>2 DEF Saves, Durable!Write
<1>4. store[w].revision = cur[r].revision BY <1>2 DEF Saves, RevisionMatches
<1>5. /\ cur[r] \in Checkpoint /\ cur[r].status \in Resumable
      /\ store[w] = cur[r] \/ store[w] = NoCheckpoint
      /\ cur[r].revision = 0 => \E i \in Inputs : cur[r] = FirstCheckpoint(Version[r], i)
  BY <1>4 DEF IInv, Opens, Open
<1>6. CASE store[w] = NoCheckpoint
  <2>1. cur[r].revision = 0 BY <1>4, <1>6 DEF NoCheckpoint
  <2>2. PICK i \in Inputs : cur[r] = FirstCheckpoint(Version[r], i) BY <1>5, <2>1
  <2>3. cp = FirstCheckpoint(Version[r], i) BY <2>2 DEF FirstCheckpoint
  <2>4. Version[r] \in Versions BY RunsAssumption DEF RunsAssumption
  <2>5. Durable!Appear(r, w) BY <1>3, <1>6, <2>3, <2>4, SharedDefs DEF Durable!Appear
  <2> QED BY <1>1, <2>5 DEF Durable!DNext
<1>7. CASE store[w] = cur[r]
  <2>1. Durable!TakeOver(r, w) BY <1>3, <1>5, <1>7, SharedDefs DEF Durable!TakeOver
  <2> QED BY <1>1, <2>1 DEF Durable!DNext
<1> QED BY <1>5, <1>6, <1>7

LEMMA SaveFailureImplements ==
    ASSUME IInv, NEW r \in Runs, SaveFailure(r)
    PROVE  Durable!DNext
<1> DEFINE w == wf[r]
           st == FailureStatus(err[r])
<1>1. Saves(r, [cur[r] EXCEPT !.status = st]) /\ pc[r] \in Holders
  BY DEF SaveFailure, Holders
<1>2. w \in Workflows /\ store[w] = cur[r] /\ owner[w] = r
      /\ Durable!Write(w, [cur[r] EXCEPT !.status = st], r)
  BY <1>1, SaveOwned
<1>3. cur[r].status = "RUNNING" BY HolderNode DEF SaveFailure, Holders
<1>4. st \in {"CANCELLED", "TIMED_OUT", "FAILED"} BY FailureStatusType DEF IInv, TypeOK
<1> HIDE DEF w, st
<1>5. Durable!GiveUp(r, w) BY <1>2, <1>3, <1>4 DEF Durable!GiveUp
<1> QED BY <1>2, <1>5 DEF Durable!DNext

LEMMA SaveNodeImplements ==
    ASSUME IInv, NEW r \in Runs, SaveNode(r)
    PROVE  Durable!DNext
<1> DEFINE w == wf[r]
           c == store[w]
           d == draft[r]
           Writers == {c.node} \union BranchSet(c.node)
           u == [k \in Keys |-> IF d.state[k] = c.state[k] THEN NoNode ELSE d.state[k]]
           merged == [k \in Keys |-> IF u[k] = NoNode THEN c.state[k] ELSE u[k]]
<1>1. Saves(r, SavedNode(r)) /\ pc[r] \in Holders /\ pc[r] = "save" /\ MaySave(d)
  BY DEF SaveNode, SavedNode, Holders
<1>2. w \in Workflows /\ cur[r] = c /\ owner[w] = r /\ Durable!Write(w, SavedNode(r), r)
  BY <1>1, SaveOwned
<1>3. c \in Checkpoint /\ c.status = "RUNNING" BY <1>1, <1>2, HolderNode
<1>4. /\ d.state \in [Keys -> Inputs \union Nodes]
      /\ \A k \in Keys : d.state[k] # c.state[k] => d.state[k] \in Writers
      /\ d.recorded = Recorded(c.node) /\ d.next \in Successors(c.node)
  BY <1>1, <1>2 DEF IInv, Drafts, Extends
<1>5. u \in [Keys -> Writers \union {NoNode}] BY <1>4
<1>6. merged = d.state
  <2>1. \A k \in Keys : c.state[k] \in Inputs \union Nodes /\ d.state[k] \in Inputs \union Nodes
    BY <1>3, <1>4 DEF Checkpoint, Snapshot
  <2>2. \A k \in Keys : d.state[k] # NoNode
    BY <2>1, GraphAssumption DEF GraphAssumption
  <2>3. \A k \in Keys : merged[k] = d.state[k] BY <2>2
  <2> QED BY <1>4, <2>3
<1>7. StatusOf(d) \in {"RUNNING", "INTERRUPTED", "COMPLETED"}
      /\ ((StatusOf(d) = "COMPLETED") <=> (d.next = NoNode))
  BY <1>1 DEF StatusOf, MaySave
<1>8. SavedNode(r) = [c EXCEPT !.state = merged, !.node = d.next,
                               !.completed = c.completed \o Recorded(c.node),
                               !.status = StatusOf(d)]
  BY <1>2, <1>4, <1>6 DEF SavedNode
<1>9. Durable!Advance(r, w)
  <2> HIDE DEF w, u
  <2>1. Durable!Write(w, [c EXCEPT !.state = [k \in Keys |-> IF u[k] = NoNode THEN c.state[k] ELSE u[k]],
                                   !.node = d.next,
                                   !.completed = c.completed \o Recorded(c.node),
                                   !.status = StatusOf(d)], r)
    BY <1>2, <1>8
  <2>2. \E m \in Durable!Successors(c.node),
           x \in [Keys -> ({c.node} \union Durable!BranchSet(c.node)) \union {NoNode}],
           st \in {"RUNNING", "INTERRUPTED", "COMPLETED"} :
           /\ (st = "COMPLETED") <=> (m = NoNode)
           /\ Durable!Write(w, [c EXCEPT !.state = [k \in Keys |-> IF x[k] = NoNode THEN c.state[k] ELSE x[k]],
                                         !.node = m,
                                         !.completed = c.completed \o Durable!Recorded(c.node),
                                         !.status = st], r)
    <3>1. Durable!Recorded(c.node) = Recorded(c.node) /\ Durable!Successors(c.node) = Successors(c.node)
          /\ Durable!BranchSet(c.node) = BranchSet(c.node)
      BY SharedDefs
    <3>2. u \in [Keys -> ({c.node} \union Durable!BranchSet(c.node)) \union {NoNode}]
      BY <1>5, <3>1
    <3>3. StatusOf(d) \in {"RUNNING", "INTERRUPTED", "COMPLETED"} BY <1>7
    <3>4. d.next \in Durable!Successors(c.node) BY <1>4, <3>1
    <3> USE <3>2, <3>3, <3>4
    <3> WITNESS d.next \in Durable!Successors(c.node),
                u \in [Keys -> ({c.node} \union Durable!BranchSet(c.node)) \union {NoNode}],
                StatusOf(d) \in {"RUNNING", "INTERRUPTED", "COMPLETED"}
    <3> QED BY <1>7, <2>1, <3>1
  <2> QED BY <1>2, <1>3, <2>2 DEF Durable!Advance
<1> QED BY <1>2, <1>9 DEF Durable!DNext

\* Only the three saves touch the store.
LEMMA NextImplements == IInv /\ [Next]_vars => [Durable!DNext]_(Durable!dvars)
<1> SUFFICES ASSUME IInv, [Next]_vars PROVE Durable!DNext \/ UNCHANGED disk
  BY DEF Durable!dvars, disk
<1> USE DEF disk
<1>1. ASSUME NEW r \in Runs, Open(r) PROVE Durable!DNext BY <1>1, OpenImplements
<1>2. ASSUME NEW r \in Runs, SaveNode(r) PROVE Durable!DNext BY <1>2, SaveNodeImplements
<1>3. ASSUME NEW r \in Runs, SaveFailure(r) PROVE Durable!DNext BY <1>3, SaveFailureImplements
<1>4. ASSUME NEW r \in Runs, Call(r) PROVE UNCHANGED disk
  BY <1>4 DEF Call, Start, Replay, Resume, Refuse, Begin
<1>5. ASSUME NEW r \in Runs, Handler(r) PROVE UNCHANGED disk
  BY <1>5 DEF Handler, NodeReturns, NodeRaises, SelectorReturns, Chooses, SelectorRaises,
     BranchReturns, BranchRaises, BranchEnds
<1>6. ASSUME NEW r \in Runs, Step(r), ~Open(r), ~SaveNode(r), ~SaveFailure(r) PROVE UNCHANGED disk
  BY <1>6 DEF Step, OpenRaises, LoopEnds, LoopChecks, Spawn, SelectNext, Chooses, CallSelector,
     Fork, Submit, Drain, FirstException, Collect, SaveRefused, SaveNodeRaises,
     SaveFailureRaises, SaveRaises, Unwind
<1>7. ASSUME NEW r \in Runs, NodeStops(r) \/ SelectorStops(r) \/ Cancel(r) \/ Expire(r) \/ Crash(r)
      PROVE UNCHANGED disk
  BY <1>7 DEF NodeStops, SelectorStops, Cancel, Expire, Crash
<1>8. ASSUME NEW r \in Runs, NEW b \in AllBranches, BranchStops(r, b) PROVE UNCHANGED disk
  BY <1>8 DEF BranchStops, BranchEnds
<1>9. CASE Done \/ UNCHANGED vars BY <1>9 DEF Done, vars
<1> QED BY <1>1, <1>2, <1>3, <1>4, <1>5, <1>6, <1>7, <1>8, <1>9 DEF Next, Progress

\* Runs that race, crash, fail and are cancelled leave in the store a linear
\* history in which only the owner of the latest checkpoint, or a run that
\* takes it over unchanged, writes the next one (CheckpointStore.save's
\* expected_revision is enough to fence stale runs).
THEOREM Refinement == Spec => RefinesDurable
<1>1. Init => Durable!DInit BY SharedDefs DEF Init, Durable!DInit
<1> QED BY <1>1, NextImplements, Inductive, PTL DEF Spec, RefinesDurable, Durable!DSpec

----------------------------------------------------------------------------
(* Completed is final *)

LEMMA CompletedStep ==
    ASSUME Durable!DNext, NEW v \in Workflows, store[v].status = "COMPLETED",
           store = [w \in Workflows |-> store[w]]
    PROVE  store'[v] = store[v]
<1>1. PICK r \in Runs, w \in Workflows :
         \/ Durable!Appear(r, w) \/ Durable!TakeOver(r, w)
         \/ Durable!Advance(r, w) \/ Durable!GiveUp(r, w)
  BY DEF Durable!DNext
<1>2. w # v
  <2>1. Durable!Appear(r, w) => store[w].status = "NONE"
    BY SharedDefs DEF Durable!Appear, NoCheckpoint
  <2>2. Durable!TakeOver(r, w) => store[w].status # "COMPLETED"
    BY SharedDefs DEF Durable!TakeOver, Resumable
  <2>3. Durable!Advance(r, w) \/ Durable!GiveUp(r, w) => store[w].status = "RUNNING"
    BY DEF Durable!Advance, Durable!GiveUp
  <2> QED BY <1>1, <2>1, <2>2, <2>3
<1>3. PICK cp : store' = [store EXCEPT ![w] = cp]
  BY <1>1 DEF Durable!Appear, Durable!TakeOver, Durable!Advance, Durable!GiveUp, Durable!Write
<1> QED BY <1>2, <1>3

\* A completed workflow is never written again, whatever stale or resumed run
\* still holds an older checkpoint of it.
THEOREM CompletedForever == Spec => CompletedIsFinal
<1>1. IInv /\ [Next]_vars =>
         [\A w \in Workflows : store[w].status = "COMPLETED" => store'[w] = store[w]]_(Durable!dvars)
  <2> SUFFICES ASSUME IInv, [Next]_vars, NEW w \in Workflows, store[w].status = "COMPLETED"
               PROVE  store'[w] = store[w]
    BY DEF Durable!dvars
  <2>1. store = [x \in Workflows |-> store[x]] BY DEF IInv, TypeOK
  <2>2. CASE Durable!DNext BY <2>1, <2>2, CompletedStep
  <2>3. CASE UNCHANGED store BY <2>3
  <2> QED BY <2>2, <2>3, NextImplements DEF Durable!dvars
<1> QED BY <1>1, Inductive, PTL DEF Spec, CompletedIsFinal, Durable!CompletedIsFinal

----------------------------------------------------------------------------
(***************************************************************************)
(* What a run announces.  Two layers announce failures, so the label a run *)
(* is at has to say what was announced before it; and to be cancelled, or  *)
(* out of time, has to be traced from the outcome through the exception    *)
(* and the branches of a group to the context of the run, or to a handler. *)
(***************************************************************************)

\* What run r has announced by the label it is at: nothing before its end,
\* one event after it, and between the two layers a failure or nothing.
Announced(r) ==
    /\ pc[r] \notin {"unwinding", "raised", "returned"} => terminal[r] = << >>
    /\ pc[r] = "unwinding" =>
          terminal[r] = << >> \/ \E e \in {"FAILED", "CANCELLED", "TIMED_OUT"} : terminal[r] = <<e>>
    /\ pc[r] \in {"raised", "returned"} => \E e \in Statuses : terminal[r] = <<e>>

\* An exception has its cause in the context of the run, or in a handler.
Caused(r) ==
    /\ err[r] = "cancelled" => WasCancelled(r)
    /\ err[r] = "timed_out" => WasLate(r)

\* So has the end of a branch, unless its siblings were cancelled; and they
\* were for a reason that the results still show.
Grouped(r) ==
    /\ \A b \in AllBranches :
          /\ branch[r][b].status \in {"cancelled", "abandoned"} => WasCancelled(r) \/ siblings[r]
          /\ branch[r][b].status = "timed_out" => WasLate(r)
    /\ siblings[r] =>
          /\ pc[r] \in {"join", "save"}
          /\ \/ WasCancelled(r)
             \/ \E b \in BranchSet(cur[r].node) : branch[r][b].status \in {"failed", "timed_out"}

\* OutcomeIsTrue of one run.
Outcome(r) ==
    /\ "CANCELLED" \in ToSet(terminal[r]) => WasCancelled(r)
    /\ "TIMED_OUT" \in ToSet(terminal[r]) => WasLate(r)
    /\ \A e \in ToSet(terminal[r]) \ {"FAILED"} :
         /\ cur[r].status = e
         /\ store[wf[r]].revision >= cur[r].revision
         /\ store[wf[r]].revision = cur[r].revision => store[wf[r]] = cur[r]

ReportInv(r) == Announced(r) /\ Caused(r) /\ Grouped(r) /\ Outcome(r)

LEMMA SetOfNothing == ToSet(<< >>) = {}
BY DEF ToSet

LEMMA SetOfOne == \A e : ToSet(<<e>>) = {e}
BY DEF ToSet

\* The part of the state the report of run s speaks of, but for the store.
Same(s) == /\ pc'[s] = pc[s] /\ wf'[s] = wf[s] /\ cur'[s] = cur[s] /\ branch'[s] = branch[s]
           /\ siblings'[s] = siblings[s] /\ cancelled'[s] = cancelled[s]
           /\ expired'[s] = expired[s] /\ err'[s] = err[s] /\ terminal'[s] = terminal[s]
           /\ foreign'[s] = foreign[s]

\* The store keeps what it has of a workflow, or goes past it.
Grows == \A w \in Workflows : store'[w] = store[w] \/ store'[w].revision > store[w].revision

LEMMA ReportOfOthers ==
    ASSUME TypeOK, TypeOK', NEW s \in Runs, ReportInv(s), Same(s), Grows
    PROVE  ReportInv(s)'
<1>1. Announced(s)' /\ Caused(s)' /\ Grouped(s)'
  BY DEF ReportInv, Same, Announced, Caused, Grouped, WasCancelled, WasLate
<1>2. /\ wf'[s] = wf[s] /\ cur'[s] = cur[s] /\ terminal'[s] = terminal[s]
      /\ (WasCancelled(s)' <=> WasCancelled(s)) /\ (WasLate(s)' <=> WasLate(s))
  BY DEF Same, WasCancelled, WasLate
<1>3. /\ wf[s] \in Workflows /\ cur[s].revision \in Nat
      /\ store[wf[s]].revision \in Nat /\ store'[wf[s]].revision \in Nat
  <2>1. /\ wf[s] \in Workflows
        /\ cur[s] \in Checkpoint \union {NoCheckpoint}
        /\ store[wf[s]] \in Checkpoint \union {NoCheckpoint}
        /\ store'[wf[s]] \in Checkpoint \union {NoCheckpoint}
    BY DEF TypeOK
  <2> QED BY <2>1, RevisionType
<1>4. Outcome(s)'
  <2>1. CASE store'[wf[s]] = store[wf[s]] BY <1>2, <2>1 DEF ReportInv, Outcome, WasCancelled, WasLate
  <2>2. CASE store'[wf[s]].revision > store[wf[s]].revision
    <3>1. ASSUME NEW e \in ToSet(terminal[s]) \ {"FAILED"}
          PROVE  /\ cur[s].status = e
                 /\ store'[wf[s]].revision >= cur[s].revision
                 /\ store'[wf[s]].revision # cur[s].revision
      <4>1. cur[s].status = e /\ store[wf[s]].revision >= cur[s].revision
        BY DEF ReportInv, Outcome, WasCancelled, WasLate
      <4> QED BY <1>3, <2>2, <4>1
    <3> QED BY <1>2, <3>1 DEF ReportInv, Outcome, WasCancelled, WasLate
  <2> QED BY <1>3, <2>1, <2>2 DEF Grows
<1> QED BY <1>1, <1>4 DEF ReportInv

\* A step to a label before the end, which announces nothing.
LEMMA ReportSilent ==
    ASSUME TypeOK, NEW r \in Runs, ReportInv(r), terminal[r] = << >>, terminal' = terminal,
           pc'[r] \notin {"raised", "returned"}, Caused(r)', Grouped(r)'
    PROVE  ReportInv(r)'
<1>1. Announced(r)' BY DEF Announced
<1>2. Outcome(r)' BY SetOfNothing DEF Outcome
<1> QED BY <1>1, <1>2 DEF ReportInv

LEMMA ReportRaise ==
    ASSUME TypeOK, NEW r \in Runs, ReportInv(r), NEW e, Raise(r, e),
           e = "cancelled" => WasCancelled(r)', e = "timed_out" => WasLate(r)',
           pc[r] \in Holders, UNCHANGED terminal
    PROVE  ReportInv(r)' /\ \A s \in Runs \ {r} : /\ pc'[s] = pc[s] /\ branch'[s] = branch[s]
                                                  /\ siblings'[s] = siblings[s] /\ err'[s] = err[s]
<1>1. /\ pc'[r] = "failing" /\ err'[r] = e /\ branch'[r] = NoBranches /\ siblings'[r] = FALSE
      /\ \A s \in Runs \ {r} : /\ pc'[s] = pc[s] /\ branch'[s] = branch[s]
                               /\ siblings'[s] = siblings[s] /\ err'[s] = err[s]
  BY DEF TypeOK, Raise, Goto, Forget
<1>2. Caused(r)' BY <1>1 DEF Caused
<1>3. Grouped(r)' BY <1>1 DEF Grouped, NoBranches, NotForked
<1>4. terminal[r] = << >> BY DEF ReportInv, Announced, Holders
<1> QED BY <1>1, <1>2, <1>3, <1>4, ReportSilent

\* A check of the context only finds what is there.
LEMMA ActiveCauses ==
    ASSUME NEW r \in Runs
    PROVE  /\ CheckActive(r) = "cancelled" => WasCancelled(r)
           /\ CheckActive(r) = "timed_out" => WasLate(r)
           /\ \A e \in Child(r) : /\ e = "cancelled" => WasCancelled(r)
                                  /\ e = "timed_out" => WasLate(r)
           /\ BranchActive(r) = "cancelled" => WasCancelled(r) \/ siblings[r]
           /\ BranchActive(r) = "timed_out" => WasLate(r)
BY DEF CheckActive, Child, BranchActive, WasCancelled, WasLate

LEMMA ReportGoto ==
    ASSUME TypeOK, NEW r \in Runs, ReportInv(r), NEW e, NEW l \in Labels, GotoOrRaise(r, l, e),
           e = "cancelled" => WasCancelled(r), e = "timed_out" => WasLate(r),
           pc[r] \in Holders \ {"join", "save"}, l \notin {"raised", "returned"},
           UNCHANGED <<context, terminal, cur>>
    PROVE  ReportInv(r)' /\ \A s \in Runs \ {r} : /\ pc'[s] = pc[s] /\ branch'[s] = branch[s]
                                                  /\ siblings'[s] = siblings[s] /\ err'[s] = err[s]
<1>0. (WasCancelled(r)' <=> WasCancelled(r)) /\ (WasLate(r)' <=> WasLate(r))
  BY DEF context, WasCancelled, WasLate
<1>1. CASE e # "none" BY <1>0, <1>1, ReportRaise DEF GotoOrRaise
<1>2. CASE e = "none"
  <2>1. pc'[r] = l /\ UNCHANGED <<err, branch, siblings>>
        /\ \A s \in Runs \ {r} : pc'[s] = pc[s]
    BY <1>2 DEF GotoOrRaise, Goto, locals, TypeOK
  <2>2. Caused(r)' BY <1>0, <2>1 DEF ReportInv, Caused, WasCancelled, WasLate
  <2>3. Grouped(r)' BY <1>0, <2>1 DEF ReportInv, Grouped, WasCancelled, WasLate
  <2>4. terminal[r] = << >> BY DEF ReportInv, Announced, Holders
  <2> QED BY <2>1, <2>2, <2>3, <2>4, ReportSilent
<1> QED BY <1>1, <1>2

\* The terminal event of a step that ends the run, or all but.
LEMMA ReportEvent ==
    ASSUME TypeOK, NEW r \in Runs, ReportInv(r), pc[r] \in Holders, NEW e \in Statuses,
           Emit(r, e), pc'[r] \in {"unwinding", "returned"},
           pc'[r] = "unwinding" => e \in {"FAILED", "CANCELLED", "TIMED_OUT"},
           e = "CANCELLED" => WasCancelled(r), e = "TIMED_OUT" => WasLate(r),
           UNCHANGED <<err, context>>, Grouped(r)',
           e # "FAILED" => /\ cur'[r].status = e
                           /\ store'[wf'[r]] = cur'[r] \/ /\ e = "COMPLETED"
                                                          /\ store' = store /\ wf' = wf /\ cur' = cur
                                                          /\ store[wf[r]].revision >= cur[r].revision
                                                          /\ store[wf[r]].revision = cur[r].revision
                                                                => store[wf[r]] = cur[r],
           store'[wf'[r]].revision \in Nat
    PROVE  ReportInv(r)' /\ \A s \in Runs \ {r} : terminal'[s] = terminal[s]
<1>1. terminal[r] = << >> BY DEF ReportInv, Announced, Holders
<1>2. terminal'[r] = <<e>> /\ \A s \in Runs \ {r} : terminal'[s] = terminal[s]
  BY <1>1 DEF TypeOK, Emit
<1>3. Announced(r)' BY <1>2 DEF Announced
<1>6. (WasCancelled(r)' <=> WasCancelled(r)) /\ (WasLate(r)' <=> WasLate(r))
  BY DEF context, WasCancelled, WasLate
<1>4. Caused(r)' BY <1>6 DEF ReportInv, Caused, WasCancelled, WasLate
<1>5. ToSet(terminal'[r]) = {e} BY <1>2, SetOfOne
<1>7. Outcome(r)' BY <1>5, <1>6 DEF Outcome
<1> QED BY <1>2, <1>3, <1>4, <1>7 DEF ReportInv

LEMMA SaveGrows ==
    ASSUME TypeOK, NEW r \in Runs, NEW cp \in Checkpoint, Saves(r, cp)
    PROVE  Grows /\ store'[wf[r]] = cur'[r] /\ cur'[r].status = cp.status
<1> DEFINE w == wf[r]
<1>1. /\ store'[w] = [cp EXCEPT !.revision = store[w].revision + 1]
      /\ cur'[r] = store'[w] /\ store[w].revision \in Nat
  BY SavesType
<1>2. /\ [cp EXCEPT !.revision = store[w].revision + 1].revision = store[w].revision + 1
      /\ [cp EXCEPT !.revision = store[w].revision + 1].status = cp.status
  BY DEF Checkpoint, Snapshot
<1>3. \A x \in Workflows \ {w} : store'[x] = store[x] BY DEF Saves, TypeOK
<1>4. store'[w].revision > store[w].revision BY <1>1, <1>2
<1> QED BY <1>1, <1>2, <1>3, <1>4 DEF Grows

\* The step of one run leaves the reports of the others as they are.
LEMMA ReportFrame ==
    ASSUME TypeOK, TypeOK', \A s \in Runs : ReportInv(s), NEW r \in Runs,
           \A s \in Runs \ {r} : Same(s), Grows, ReportInv(r)'
    PROVE  \A s \in Runs : ReportInv(s)'
BY ReportOfOthers

\* The cause of an error that a group fails with: a branch that failed or ran
\* out of time comes before one that is only cancelled, so a run whose own
\* context is active is not reported cancelled.
LEMMA PrimaryCause ==
    ASSUME TypeOK, NEW r \in Runs, Grouped(r), cur[r].node \in Nodes,
           NEW es, es = [i \in DOMAIN Branches[cur[r].node] |->
                            BranchError(r, Branches[cur[r].node][i])],
           NEW i \in PrimaryError(es)
    PROVE  /\ es[i] = "cancelled" => WasCancelled(r)
           /\ es[i] = "timed_out" => WasLate(r)
<1> DEFINE n == cur[r].node
           bs == Branches[n]
<1>1. i \in DOMAIN bs /\ DOMAIN es = DOMAIN bs BY PrimaryType
<1>2. \A j \in DOMAIN bs : es[j] = BranchError(r, bs[j]) /\ bs[j] \in BranchSet(n)
  BY DEF BranchSet, ToSet
<1>3. BranchSet(n) \subseteq AllBranches BY DEF AllBranches
<1>4. ASSUME es[i] = "timed_out" PROVE WasLate(r)
  BY <1>1, <1>2, <1>3, <1>4, ActiveCauses DEF BranchError, Grouped
<1>5. ASSUME es[i] = "cancelled", ~WasCancelled(r) PROVE FALSE
  <2>1. siblings[r]
    BY <1>1, <1>2, <1>3, <1>5, ActiveCauses DEF BranchError, Grouped
  <2>2. PICK b \in BranchSet(n) : branch[r][b].status \in {"failed", "timed_out"}
    BY <1>5, <2>1 DEF Grouped
  <2>3. PICK j \in DOMAIN bs : bs[j] = b BY <2>2 DEF BranchSet, ToSet
  <2>4. es[j] \in {"failed", "timed_out"} BY <1>2, <2>2, <2>3 DEF BranchError
  <2> HIDE DEF bs, n
  <2>5. es[j] \notin {"none", "cancelled"} /\ j \in DOMAIN es BY <1>1, <2>3, <2>4
  <2>6. i \in {x \in DOMAIN es : es[x] \notin {"none", "cancelled"}}
    BY <2>5 DEF PrimaryError
  <2> QED BY <1>5, <2>6
<1> QED BY <1>4, <1>5

\* Every step keeps what the runs report.
LEMMA ReportStep ==
    ASSUME IInv, TypeOK', \A s \in Runs : ReportInv(s), Next
    PROVE  \A s \in Runs : ReportInv(s)'
<1> USE DEF disk, context
<1>0. TypeOK BY DEF IInv
<1> DEFINE Goal == \A s \in Runs : ReportInv(s)'
           Others(r) == \A s \in Runs \ {r} : Same(s)
<1>q. UNCHANGED store => Grows BY DEF Grows
<1>s. \A r \in Runs : siblings[r] => pc[r] \in {"join", "save"} BY DEF ReportInv, Grouped, WasCancelled, WasLate
<1>t. \A r \in Runs : pc[r] \notin {"unwinding", "raised", "returned"} => terminal[r] = << >>
  BY DEF ReportInv, Announced
<1>1. ASSUME NEW r \in Runs, NEW w, NEW cp, Begin(r, w, cp)
      PROVE  Goal
  <2>1. Others(r) /\ UNCHANGED <<store, terminal, err, branch, siblings, context>>
        /\ pc[r] = "idle" /\ pc'[r] = "opening"
    BY <1>0, <1>1 DEF Begin, Goto, Same, TypeOK, locals
  <2>2. Caused(r)' /\ Grouped(r)' BY <1>s, <2>1 DEF ReportInv, Caused, Grouped, WasCancelled, WasLate
  <2>3. ReportInv(r)' BY <1>0, <1>t, <2>1, <2>2, ReportSilent
  <2> QED BY <1>0, <1>q, <2>1, <2>3, ReportFrame
<1>2. ASSUME NEW r \in Runs, Refuse(r) \/ OpenRaises(r)
      PROVE  Goal
  <2>1. Others(r) /\ UNCHANGED <<store, terminal, cur, err, branch, siblings, context>>
        /\ pc[r] \in {"idle", "opening"} /\ pc'[r] \in {"refused", "unwinding"}
    BY <1>0, <1>2 DEF Refuse, OpenRaises, SaveRaises, Goto, Same, TypeOK, locals
  <2>2. Caused(r)' /\ Grouped(r)' BY <1>s, <2>1 DEF ReportInv, Caused, Grouped, WasCancelled, WasLate
  <2>3. ReportInv(r)' BY <1>0, <1>t, <2>1, <2>2, ReportSilent
  <2> QED BY <1>0, <1>q, <2>1, <2>3, ReportFrame
<1>3. ASSUME NEW r \in Runs, Open(r)
      PROVE  Goal
  <2>1. Others(r) /\ UNCHANGED <<terminal, err, branch, siblings, context>>
        /\ pc[r] = "opening" /\ pc'[r] = "loop"
    BY <1>0, <1>3 DEF Open, Saves, Goto, Same, TypeOK, locals
  <2>2. Caused(r)' /\ Grouped(r)' BY <1>s, <2>1 DEF ReportInv, Caused, Grouped, WasCancelled, WasLate
  <2>3. ReportInv(r)' BY <1>0, <1>t, <2>1, <2>2, ReportSilent
  <2>4. Grows BY <1>0, <1>3, OpenType, SaveGrows DEF Open
  <2> QED BY <1>0, <2>1, <2>3, <2>4, ReportFrame
<1>4. ASSUME NEW r \in Runs, LoopEnds(r)
      PROVE  Goal
  <2>1. Others(r) /\ UNCHANGED <<disk, wf, cur, branch, siblings, err, context>>
        /\ pc[r] = "loop" /\ pc'[r] = "returned" /\ Emit(r, "COMPLETED")
    BY <1>0, <1>4 DEF LoopEnds, Emit, Goto, Same, TypeOK, locals
  <2>2. cur[r].status = "COMPLETED" /\ store[wf[r]].revision >= cur[r].revision
        /\ (store[wf[r]].revision = cur[r].revision => store[wf[r]] = cur[r])
    BY <1>4 DEF LoopEnds, IInv, Holds, Holders, Checkpoint
  <2>3. Grouped(r)' BY <1>s, <2>1 DEF ReportInv, Grouped, WasCancelled, WasLate
  <2>4. store'[wf'[r]].revision \in Nat
    <3>1. store[wf[r]] \in Checkpoint \union {NoCheckpoint} BY <1>0 DEF TypeOK
    <3> QED BY <2>1, <3>1, RevisionType
  <2>5. ReportInv(r)'
    BY <1>0, <2>1, <2>2, <2>3, <2>4, ReportEvent DEF Statuses, Holders
  <2> QED BY <1>0, <1>q, <2>1, <2>5, ReportFrame
<1>5. ASSUME NEW r \in Runs, LoopChecks(r) \/ Spawn(r) \/ CallSelector(r) \/ Fork(r)
      PROVE  Goal
  <2>1. /\ UNCHANGED <<disk, wf, cur, context, terminal>>
        /\ pc[r] \in {"loop", "spawn", "transition"}
    BY <1>5 DEF LoopChecks, Spawn, CallSelector, Fork
  <2>2. PICK l \in {"spawn", "handler", "selector", "fork"},
             e \in {CheckActive(r), "failed", "none"} \union Child(r) : GotoOrRaise(r, l, e)
    BY <1>5 DEF LoopChecks, Spawn, CallSelector, Fork
  <2>3. (e = "cancelled" => WasCancelled(r)) /\ (e = "timed_out" => WasLate(r))
    BY <2>2, ActiveCauses
  <2>4. ReportInv(r)' /\ \A s \in Runs \ {r} : /\ pc'[s] = pc[s] /\ branch'[s] = branch[s]
                                               /\ siblings'[s] = siblings[s] /\ err'[s] = err[s]
    BY <1>0, <2>1, <2>2, <2>3, ReportGoto DEF Holders, Labels
  <2>5. Others(r) BY <2>1, <2>4 DEF Same
  <2> QED BY <1>0, <1>q, <2>1, <2>4, <2>5, ReportFrame
<1>6. ASSUME NEW r \in Runs, (\E ks, b : NodeReturns(r, ks, b)) \/ SelectNext(r) \/ SelectorReturns(r)
      PROVE  Goal
  <2>1. Others(r) /\ UNCHANGED <<store, terminal, cur, err, branch, siblings, context>>
        /\ pc[r] \in {"handler", "transition", "selector"} /\ pc'[r] \in {"transition", "save"}
    BY <1>0, <1>6 DEF NodeReturns, SelectNext, SelectorReturns, Chooses, Goto, Same, TypeOK
  <2>2. Caused(r)' /\ Grouped(r)' BY <1>s, <2>1 DEF ReportInv, Caused, Grouped, WasCancelled, WasLate
  <2>3. ReportInv(r)' BY <1>0, <1>t, <2>1, <2>2, ReportSilent
  <2> QED BY <1>0, <1>q, <2>1, <2>3, ReportFrame
<1>7. ASSUME NEW r \in Runs, NEW e, Raise(r, e), pc[r] \in Holders,
             UNCHANGED <<disk, wf, cur, cancelled, expired, terminal>>,
             \A s \in Runs \ {r} : foreign'[s] = foreign[s],
             e = "cancelled" => WasCancelled(r)', e = "timed_out" => WasLate(r)'
      PROVE  Goal
  <2>1. ReportInv(r)' /\ \A s \in Runs \ {r} : /\ pc'[s] = pc[s] /\ branch'[s] = branch[s]
                                               /\ siblings'[s] = siblings[s] /\ err'[s] = err[s]
    BY <1>0, <1>7, ReportRaise
  <2>2. Others(r) BY <1>7, <2>1 DEF Same
  <2> QED BY <1>0, <1>q, <1>7, <2>1, <2>2, ReportFrame
<1>8. ASSUME NEW r \in Runs, NodeStops(r) \/ SelectorStops(r) \/ Drain(r) \/ SaveRefused(r)
      PROVE  Goal
  <2>1. PICK e \in {"failed", CheckActive(r), err[r]} : Raise(r, e)
    BY <1>8 DEF NodeStops, SelectorStops, Drain, SaveRefused
  <2>2. pc[r] \in Holders /\ UNCHANGED <<disk, wf, cur, context, terminal>>
    BY <1>8 DEF NodeStops, SelectorStops, Drain, SaveRefused, Holders
  <2>3. (e = "cancelled" => WasCancelled(r)) /\ (e = "timed_out" => WasLate(r))
    BY <2>1, ActiveCauses DEF ReportInv, Caused, WasCancelled, WasLate
  <2>4. (WasCancelled(r)' <=> WasCancelled(r)) /\ (WasLate(r)' <=> WasLate(r))
    BY <2>2 DEF WasCancelled, WasLate
  <2> HIDE DEF Goal
  <2> QED BY <1>7, <2>1, <2>2, <2>3, <2>4
<1>21. ASSUME NEW r \in Runs, NEW e \in OwnErrors(r), NodeRaises(r, e) \/ SelectorRaises(r, e)
      PROVE  Goal
  <2>1. Raise(r, e) /\ Note(r, e) /\ pc[r] \in Holders
        /\ UNCHANGED <<disk, wf, cur, cancelled, expired, terminal>>
    BY <1>21 DEF NodeRaises, SelectorRaises, Holders
  <2>2. \A s \in Runs \ {r} : foreign'[s] = foreign[s] BY <1>0, <2>1 DEF Note, TypeOK
  <2>3. e \in ControlErrors => e \in foreign'[r] BY <1>0, <2>1 DEF Note, TypeOK
  <2>4. (e = "cancelled" => WasCancelled(r)') /\ (e = "timed_out" => WasLate(r)')
    BY <2>3 DEF WasCancelled, WasLate, ControlErrors
  <2> HIDE DEF Goal
  <2> QED BY <1>7, <2>1, <2>2, <2>4
<1>9. ASSUME NEW r \in Runs, Submit(r)
      PROVE  Goal
  <2> DEFINE x == Branches[cur[r].node][Cardinality(Forked(r)) + 1]
  <2>1. PICK e \in Child(r) :
           IF e = "none"
           THEN /\ branch' = [branch EXCEPT ![r][x].status = "running"]
                /\ Goto(r, IF Cardinality(Forked(r)) + 1 = Len(Branches[cur[r].node])
                           THEN "wait" ELSE "fork")
                /\ UNCHANGED err
           ELSE /\ Goto(r, "drain")
                /\ err' = [err EXCEPT ![r] = e]
                /\ UNCHANGED branch
    BY <1>9 DEF Submit
  <2>2. UNCHANGED <<store, wf, cur, siblings, context, terminal>> /\ pc[r] = "fork"
    BY <1>9 DEF Submit
  <2> HIDE DEF x
  <2>3. pc'[r] \in {"wait", "fork", "drain"} /\ \A s \in Runs \ {r} : pc'[s] = pc[s]
    BY <1>0, <2>1 DEF Goto, TypeOK
  <2>4. Others(r) BY <1>0, <2>1, <2>2, <2>3 DEF Same, TypeOK
  <2>5. Caused(r)'
    <3>1. (WasCancelled(r)' <=> WasCancelled(r)) /\ (WasLate(r)' <=> WasLate(r))
      BY <2>2 DEF WasCancelled, WasLate
    <3> QED BY <1>0, <2>1, <3>1, ActiveCauses DEF ReportInv, Caused, TypeOK
  <2>6. \A b \in AllBranches : branch'[r][b].status \in {"running", branch[r][b].status}
    <3>1. branch[r] \in [AllBranches -> Result] BY <1>0 DEF TypeOK
    <3>2. \A res \in Result : [res EXCEPT !.status = "running"].status = "running" BY DEF Result
    <3>3. branch' = [branch EXCEPT ![r] = [branch[r] EXCEPT ![x] = [branch[r][x] EXCEPT !.status = "running"]]]
          \/ branch' = branch
      BY <2>1
    <3>4. CASE branch' = branch BY <3>4
    <3>5. CASE branch' = [branch EXCEPT ![r] = [branch[r] EXCEPT ![x] = [branch[r][x] EXCEPT !.status = "running"]]]
      <4>1. branch'[r] = [branch[r] EXCEPT ![x] = [branch[r][x] EXCEPT !.status = "running"]]
        BY <1>0, <3>5 DEF TypeOK
      <4>2. ASSUME NEW b \in AllBranches
            PROVE  branch'[r][b].status \in {"running", branch[r][b].status}
        <5>1. branch[r][b] \in Result BY <3>1
        <5>2. branch'[r][b] \in {branch[r][b], [branch[r][b] EXCEPT !.status = "running"]}
          BY <3>1, <4>1
        <5> QED BY <3>2, <5>1, <5>2
      <4> QED BY <4>2
    <3> QED BY <3>3, <3>4, <3>5
  <2>7. Grouped(r)' BY <1>s, <2>2, <2>6 DEF ReportInv, Grouped, WasCancelled, WasLate
  <2>8. ReportInv(r)' BY <1>0, <1>t, <2>2, <2>3, <2>5, <2>7, ReportSilent
  <2> QED BY <1>0, <1>q, <2>2, <2>4, <2>8, ReportFrame
<1>10. ASSUME NEW r \in Runs, NEW b \in AllBranches,
              BranchReturns(r, b) \/ BranchStops(r, b)
              \/ \E e \in OwnErrors(r) : BranchRaises(r, b, e)
       PROVE  Goal
  <2>1. PICK res, e : /\ BranchEnds(r, b, res)
                      /\ foreign' = foreign \/ Note(r, e)
                      /\ res.status \in {"cancelled", "abandoned"} => WasCancelled(r)' \/ siblings[r]
                      /\ res.status = "timed_out" => WasLate(r)'
    <3>1. CASE BranchStops(r, b)
      <4> DEFINE res == [status |-> BranchActive(r), keys |-> {}]
      <4>1. BranchEnds(r, b, res) /\ res.status = BranchActive(r) /\ foreign' = foreign
        BY <3>1 DEF BranchStops
      <4>2. BranchActive(r) # "abandoned" BY ActiveTypes
      <4>3. cancelled' = cancelled /\ expired' = expired BY <4>1 DEF BranchEnds
      <4>4. (WasCancelled(r)' <=> WasCancelled(r)) /\ (WasLate(r)' <=> WasLate(r))
        BY <4>1, <4>3 DEF WasCancelled, WasLate
      <4> HIDE DEF res
      <4> QED BY <4>1, <4>2, <4>4, ActiveCauses
    <3>2. CASE BranchReturns(r, b)
      <4>1. PICK st \in {"returned", "interrupt", "abandoned"} :
               /\ \E ks : BranchEnds(r, b, [status |-> st, keys |-> ks])
               /\ Note(r, IF st = "abandoned" THEN "cancelled" ELSE "none")
        BY <3>2 DEF BranchReturns
      <4>2. st = "abandoned" => "cancelled" \in foreign'[r]
        BY <1>0, <4>1 DEF Note, TypeOK, ControlErrors
      <4>3. st = "abandoned" => WasCancelled(r)' BY <4>2 DEF WasCancelled
      <4> QED BY <4>1, <4>3
    <3>3. ASSUME NEW e \in OwnErrors(r), BranchRaises(r, b, e)
          PROVE  \E res : /\ BranchEnds(r, b, res)
                          /\ Note(r, e)
                          /\ res.status \in {"cancelled", "abandoned"} => WasCancelled(r)' \/ siblings[r]
                          /\ res.status = "timed_out" => WasLate(r)'
      <4>1. BranchEnds(r, b, [status |-> e, keys |-> {}]) /\ Note(r, e) BY <3>3 DEF BranchRaises
      <4>2. e \in ControlErrors => e \in foreign'[r] BY <1>0, <4>1 DEF Note, TypeOK
      <4>3. e # "abandoned" BY <1>0, <4>1, NoteType
      <4>4. (e = "cancelled" => WasCancelled(r)') /\ (e = "timed_out" => WasLate(r)')
        BY <4>2 DEF WasCancelled, WasLate, ControlErrors
      <4> QED BY <4>1, <4>3, <4>4
    <3> QED BY <1>10, <3>1, <3>2, <3>3
  <2>2. /\ pc[r] \in {"fork", "wait", "join", "drain"} /\ b \in Pending(r)
        /\ branch' = [branch EXCEPT ![r][b] = res]
        /\ UNCHANGED <<disk, pc, wf, cur, draft, siblings, cancelled, expired, err, terminal>>
    BY <2>1 DEF BranchEnds
  <2>0. foreign[r] \subseteq foreign'[r] /\ \A s \in Runs \ {r} : foreign'[s] = foreign[s]
    BY <1>0, <2>1 DEF Note, TypeOK
  <2>3. Others(r) BY <1>0, <2>0, <2>2 DEF Same, TypeOK
  <2>4. branch'[r] = [branch[r] EXCEPT ![b] = res] /\ branch[r] \in [AllBranches -> Result]
    BY <1>0, <2>2 DEF TypeOK
  <2>5. branch'[r][b] = res /\ \A c \in AllBranches \ {b} : branch'[r][c] = branch[r][c]
    BY <2>4
  <2>6. branch[r][b].status = "running" BY <2>2 DEF Pending
  <2>7. BranchSet(cur[r].node) \subseteq AllBranches \/ cur[r].node \notin Nodes
    BY DEF AllBranches
  <2>8. cur[r].node \in Nodes BY <2>2, HolderNode DEF Holders
  <2>12. (WasCancelled(r) => WasCancelled(r)') /\ (WasLate(r) => WasLate(r)')
    BY <2>0, <2>2 DEF WasCancelled, WasLate
  <2>9. Grouped(r)' BY <2>1, <2>2, <2>5, <2>6, <2>7, <2>8, <2>12 DEF ReportInv, Grouped, WasCancelled, WasLate
  <2>10. Caused(r)' BY <2>2, <2>12 DEF ReportInv, Caused, WasCancelled, WasLate
  <2>11. ReportInv(r)' BY <1>0, <1>t, <2>2, <2>9, <2>10, ReportSilent
  <2> QED BY <1>0, <1>q, <2>2, <2>3, <2>11, ReportFrame
<1>11. ASSUME NEW r \in Runs, FirstException(r)
       PROVE  Goal
  <2>1. /\ pc[r] = "wait" /\ pc'[r] = "join" /\ siblings'[r] = (Raised(r) # {})
        /\ UNCHANGED <<store, wf, cur, branch, context, err, terminal>>
        /\ Others(r)
    BY <1>0, <1>11 DEF FirstException, CancelSiblings, Goto, TypeOK, Same
  <2>2. cur[r].node \in Nodes BY <2>1, HolderNode DEF Holders
  <2>3. BranchSet(cur[r].node) \subseteq AllBranches BY <2>2 DEF AllBranches
  <2>4. ~siblings[r] BY <1>s, <2>1
  <2>5. siblings'[r] => \/ WasCancelled(r)
                        \/ \E b \in BranchSet(cur[r].node) : branch[r][b].status \in {"failed", "timed_out"}
    <3> SUFFICES ASSUME siblings'[r], ~WasCancelled(r)
                 PROVE  \E b \in BranchSet(cur[r].node) :
                           branch[r][b].status \in {"failed", "timed_out"}
      OBVIOUS
    <3>1. PICK b \in BranchSet(cur[r].node) :
             branch[r][b].status \in {"failed", "cancelled", "timed_out"}
      BY <2>1 DEF Raised
    <3>2. branch[r][b].status # "cancelled" BY <2>3, <2>4 DEF ReportInv, Grouped, WasCancelled, WasLate
    <3> QED BY <3>1, <3>2
  <2>6. Grouped(r)' BY <2>1, <2>4, <2>5 DEF ReportInv, Grouped, WasCancelled, WasLate
  <2>7. Caused(r)' BY <2>1 DEF ReportInv, Caused, WasCancelled, WasLate
  <2>8. ReportInv(r)' BY <1>0, <1>t, <2>1, <2>6, <2>7, ReportSilent
  <2> QED BY <1>0, <1>q, <2>1, <2>8, ReportFrame
<1>12. ASSUME NEW r \in Runs, Collect(r)
       PROVE  Goal
  <2> DEFINE n == cur[r].node
             errors == [i \in DOMAIN Branches[n] |-> BranchError(r, Branches[n][i])]
  <2>1. /\ pc[r] = "join" /\ UNCHANGED <<disk, wf, cur, context, terminal>>
        /\ \/ \E i \in PrimaryError(errors) : Raise(r, errors[i])
           \/ Raise(r, "failed")
           \/ Goto(r, "save") /\ UNCHANGED <<err, branch, siblings>>
    BY <1>12 DEF Collect
  <2>2. n \in Nodes BY <2>1, HolderNode DEF Holders
  <2>3. ASSUME NEW i \in PrimaryError(errors), Raise(r, errors[i])
        PROVE  Goal
    <3>1. (errors[i] = "cancelled" => WasCancelled(r)) /\ (errors[i] = "timed_out" => WasLate(r))
      BY <1>0, <2>2, PrimaryCause DEF ReportInv
    <3>3. (WasCancelled(r)' <=> WasCancelled(r)) /\ (WasLate(r)' <=> WasLate(r))
      BY <2>1 DEF WasCancelled, WasLate
    <3> HIDE DEF errors, Goal
    <3>2. pc[r] \in Holders BY <2>1 DEF Holders
    <3> QED BY <1>7, <2>1, <2>3, <3>1, <3>2, <3>3
  <2>4. CASE Raise(r, "failed") BY <1>7, <2>1, <2>4 DEF Holders
  <2>5. CASE Goto(r, "save") /\ UNCHANGED <<err, branch, siblings>>
    <3>1. pc'[r] = "save" /\ Others(r) BY <1>0, <2>1, <2>5 DEF Goto, Same, TypeOK
    <3>2. Caused(r)' /\ Grouped(r)' BY <2>1, <2>5, <3>1 DEF ReportInv, Caused, Grouped, WasCancelled, WasLate
    <3>3. ReportInv(r)' BY <1>0, <1>t, <2>1, <3>1, <3>2, ReportSilent
    <3> QED BY <1>0, <1>q, <2>1, <3>1, <3>3, ReportFrame
  <2> HIDE DEF Goal
  <2> QED BY <2>1, <2>3, <2>4, <2>5
<1>13. ASSUME NEW r \in Runs, SaveNode(r)
       PROVE  Goal
  <2> DEFINE d == draft[r]
  <2>1. SavedNode(r) \in Checkpoint /\ Saves(r, SavedNode(r))
    BY <1>13, SavedNodeType DEF SaveNode, SavedNode
  <2>2. Grows /\ store'[wf[r]] = cur'[r] /\ cur'[r].status = SavedNode(r).status
    BY <1>0, <2>1, SaveGrows
  <2>3. SavedNode(r).status = StatusOf(d)
    BY <1>13, HolderNode DEF SaveNode, SavedNode, Holders, Checkpoint, Snapshot
  <2>4. Others(r) /\ pc[r] = "save" /\ UNCHANGED <<wf, context, err>>
    BY <1>0, <1>13 DEF SaveNode, Saves, Emit, Goto, Forget, Same, TypeOK
  <2>5. Grouped(r)' BY <1>0, <1>13 DEF SaveNode, Forget, TypeOK, Grouped, NoBranches, NotForked
  <2>6. CASE d.interrupted
    <3>1. Emit(r, "INTERRUPTED") /\ pc'[r] = "returned"
      BY <1>0, <1>13, <2>6 DEF SaveNode, Goto, TypeOK
    <3>2. cur'[r].status = "INTERRUPTED" BY <2>2, <2>3, <2>6 DEF StatusOf
    <3>3. store'[wf'[r]].revision \in Nat
      <4>1. store'[wf'[r]] \in Checkpoint \union {NoCheckpoint} BY DEF TypeOK
      <4> QED BY <4>1, RevisionType
    <3>4. ReportInv(r)'
      BY <1>0, <2>2, <2>4, <2>5, <3>1, <3>2, <3>3, ReportEvent DEF Statuses, Holders
    <3> QED BY <1>0, <2>2, <2>4, <3>4, ReportFrame
  <2>7. CASE ~d.interrupted
    <3>1. UNCHANGED terminal /\ pc'[r] = "loop"
      BY <1>0, <1>13, <2>7 DEF SaveNode, Goto, TypeOK
    <3>2. Caused(r)' BY <2>4 DEF ReportInv, Caused, WasCancelled, WasLate
    <3>3. ReportInv(r)' BY <1>0, <1>t, <2>4, <2>5, <3>1, <3>2, ReportSilent
    <3> QED BY <1>0, <2>2, <2>4, <3>3, ReportFrame
  <2> QED BY <2>6, <2>7
<1>14. ASSUME NEW r \in Runs, SaveNodeRaises(r) \/ SaveFailureRaises(r)
       PROVE  Goal
  <2>1. Others(r) /\ pc[r] \in {"save", "failing"} /\ pc'[r] = "unwinding"
        /\ Emit(r, "FAILED") /\ UNCHANGED <<disk, wf, cur, context, err>>
    BY <1>0, <1>14 DEF SaveNodeRaises, SaveFailureRaises, UnsavedEvent, SaveRaises, Emit, Goto,
       Forget, Same, TypeOK, locals
  <2>2. Grouped(r)'
    <3>1. CASE SaveNodeRaises(r)
      BY <1>0, <3>1 DEF SaveNodeRaises, Forget, TypeOK, Grouped, NoBranches, NotForked
    <3>2. CASE SaveFailureRaises(r)
      BY <1>s, <2>1, <3>2 DEF SaveFailureRaises, ReportInv, Grouped, locals,
         WasCancelled, WasLate
    <3> QED BY <1>14, <3>1, <3>2
  <2>3. store'[wf'[r]].revision \in Nat
    <3>1. store[wf[r]] \in Checkpoint \union {NoCheckpoint} BY <1>0 DEF TypeOK
    <3> QED BY <2>1, <3>1, RevisionType
  <2>4. ReportInv(r)' BY <1>0, <2>1, <2>2, <2>3, ReportEvent DEF Statuses, Holders
  <2> QED BY <1>0, <1>q, <2>1, <2>4, ReportFrame
<1>15. ASSUME NEW r \in Runs, SaveFailure(r)
       PROVE  Goal
  <2> DEFINE st == FailureStatus(err[r])
             cp == [cur[r] EXCEPT !.status = st]
  <2>1. Others(r) /\ pc[r] = "failing" /\ pc'[r] = "unwinding" /\ Emit(r, st) /\ Saves(r, cp)
        /\ UNCHANGED <<wf, context, err, branch, siblings>>
    BY <1>0, <1>15 DEF SaveFailure, Saves, Emit, Goto, Same, TypeOK, locals
  <2>2. st \in {"CANCELLED", "TIMED_OUT", "FAILED"} BY <1>0, FailureStatusType DEF TypeOK
  <2>3. (st = "CANCELLED" => WasCancelled(r)) /\ (st = "TIMED_OUT" => WasLate(r))
    BY DEF FailureStatus, ReportInv, Caused
  <2> HIDE DEF st
  <2>4. cp \in Checkpoint /\ cp.status = st
    BY <2>1, <2>2, StatusType, HolderNode DEF Holders, Checkpoint, Snapshot
  <2> HIDE DEF cp
  <2>5. Grows /\ store'[wf[r]] = cur'[r] /\ cur'[r].status = st
    BY <1>0, <2>1, <2>4, SaveGrows
  <2>6. Grouped(r)' BY <1>s, <2>1 DEF ReportInv, Grouped, WasCancelled, WasLate
  <2>7. store'[wf'[r]].revision \in Nat
    <3>1. store'[wf'[r]] \in Checkpoint \union {NoCheckpoint} BY DEF TypeOK
    <3> QED BY <3>1, RevisionType
  <2>8. ReportInv(r)'
    BY <1>0, <2>1, <2>2, <2>3, <2>5, <2>6, <2>7, ReportEvent DEF Statuses, Holders
  <2> QED BY <1>0, <2>1, <2>5, <2>8, ReportFrame
<1>16. ASSUME NEW r \in Runs, Unwind(r)
       PROVE  Goal
  <2>1. Others(r) /\ pc[r] = "unwinding" /\ pc'[r] = "raised"
        /\ UNCHANGED <<disk, wf, cur, branch, siblings, context, err>>
    BY <1>0, <1>16 DEF Unwind, Emit, Goto, Same, TypeOK, locals
  <2>2. Caused(r)' /\ Grouped(r)' BY <1>s, <2>1 DEF ReportInv, Caused, Grouped, WasCancelled, WasLate
  <2>3. CASE terminal[r] = << >>
    <3>1. terminal'[r] = <<"FAILED">>
      BY <1>0, <1>16, <2>3, SetOfNothing DEF Unwind, AnnounceFailure, Emit, TypeOK
    <3>2. Announced(r)' BY <2>1, <3>1 DEF Announced, Statuses
    <3>3. Outcome(r)' BY <3>1, SetOfOne DEF Outcome
    <3> QED BY <1>0, <1>q, <2>1, <2>2, <3>2, <3>3, ReportFrame DEF ReportInv
  <2>4. ASSUME NEW e \in {"FAILED", "CANCELLED", "TIMED_OUT"}, terminal[r] = <<e>>
        PROVE  Goal
    <3>1. ToSet(terminal[r]) = {e} BY <2>4, SetOfOne
    <3>2. terminal' = terminal BY <1>16, <3>1 DEF Unwind, AnnounceFailure
    <3>3. Announced(r)' BY <2>1, <2>4, <3>2 DEF Announced, Statuses
    <3>4. Outcome(r)' BY <2>1, <3>2 DEF ReportInv, Outcome, WasCancelled, WasLate
    <3> QED BY <1>0, <1>q, <2>1, <2>2, <3>3, <3>4, ReportFrame DEF ReportInv
  <2> QED BY <2>1, <2>3, <2>4 DEF ReportInv, Announced
<1>17. ASSUME NEW r \in Runs, Cancel(r) \/ Expire(r)
       PROVE  Goal
  <2>1. UNCHANGED <<disk, pc, wf, cur, branch, siblings, err, terminal>> /\ Others(r)
        /\ (WasCancelled(r) => WasCancelled(r)') /\ (WasLate(r) => WasLate(r)')
    BY <1>0, <1>17 DEF Cancel, Expire, TypeOK, Same, locals, WasCancelled, WasLate
  <2>2. ReportInv(r)' BY <2>1 DEF ReportInv, Announced, Caused, Grouped, Outcome,
       WasCancelled, WasLate
  <2> QED BY <1>0, <1>q, <2>1, <2>2, ReportFrame
<1>18. ASSUME NEW r \in Runs, Crash(r)
       PROVE  Goal
  <2>1. /\ Others(r) /\ UNCHANGED store /\ pc'[r] = "crashed" /\ terminal'[r] = << >>
        /\ err'[r] = "none" /\ branch'[r] = NoBranches /\ siblings'[r] = FALSE
    BY <1>0, <1>18 DEF Crash, Goto, Forget, Same, TypeOK
  <2>2. Announced(r)' /\ Caused(r)' /\ Grouped(r)' /\ Outcome(r)'
    BY <2>1, SetOfNothing DEF Announced, Caused, Grouped, Outcome, NoBranches, NotForked
  <2> QED BY <1>0, <1>q, <2>1, <2>2, ReportFrame DEF ReportInv
<1>19. ASSUME Done PROVE Goal
  BY <1>19 DEF Done, vars, locals, ReportInv, Announced, Caused, Grouped, Outcome,
       WasCancelled, WasLate
<1>20. ASSUME NEW r \in Runs, Call(r) PROVE Goal
  <2>1. Refuse(r) \/ \E w, cp : Begin(r, w, cp)
    BY <1>20 DEF Call, Start, Replay, Resume
  <2> QED BY <1>1, <1>2, <2>1
<1> HIDE DEF Goal
<1> QED
  BY <1>2, <1>3, <1>4, <1>5, <1>6, <1>8, <1>9, <1>10, <1>11, <1>12, <1>13, <1>14, <1>15, <1>16,
     <1>17, <1>18, <1>19, <1>20, <1>21 DEF Next, Progress, Step, Handler, Goal

LEMMA Reports == Spec => [](\A r \in Runs : ReportInv(r))
<1>1. Init => \A r \in Runs : ReportInv(r)
  BY SetOfNothing DEF Init, NoBranches, NotForked, ReportInv, Announced, Caused, Grouped, Outcome,
       WasCancelled, WasLate
<1>2. IInv /\ IInv' /\ (\A r \in Runs : ReportInv(r)) /\ [Next]_vars
         => (\A r \in Runs : ReportInv(r))'
  <2>1. ASSUME UNCHANGED vars, \A r \in Runs : ReportInv(r) PROVE \A r \in Runs : ReportInv(r)'
    BY <2>1 DEF vars, disk, locals, context, ReportInv, Announced, Caused, Grouped, Outcome,
       WasCancelled, WasLate
  <2>2. IInv' => TypeOK' BY DEF IInv
  <2> QED BY <2>1, <2>2, ReportStep
<1> QED BY <1>1, <1>2, Inductive, PTL DEF Spec

\* Whichever layer sees the exception, a caller hears of exactly one end.
THEOREM OneEnd == Spec => []OneTerminalEvent
<1>1. ASSUME \A r \in Runs : ReportInv(r) PROVE OneTerminalEvent
  <2> SUFFICES ASSUME NEW r \in Runs
               PROVE  /\ Len(terminal[r]) <= 1
                      /\ pc[r] \in {"raised", "returned"} => Len(terminal[r]) = 1
    BY DEF OneTerminalEvent
  <2>1. Announced(r) BY <1>1 DEF ReportInv
  <2>2. CASE terminal[r] = << >> /\ pc[r] \notin {"raised", "returned"} BY <2>2
  <2>3. CASE \E e : terminal[r] = <<e>> BY <2>3
  <2>4. \/ terminal[r] = << >> /\ pc[r] \notin {"raised", "returned"}
        \/ \E e : terminal[r] = <<e>>
    BY <2>1 DEF Announced
  <2> QED BY <2>2, <2>3, <2>4
<1> QED BY <1>1, Reports, PTL

\* A run ends cancelled or out of time only when its own context is, or when
\* one of its handlers, selectors or branches raised that error of its own
\* (whatever control errors user code may raise: Rogue is any constant), never
\* because a failed branch had its siblings cancelled; and every other end than
\* a failure is in the store, or in its past.
THEOREM OutcomesAreTrue == Spec => []OutcomeIsTrue
<1>1. ASSUME \A r \in Runs : ReportInv(r) PROVE OutcomeIsTrue
  BY <1>1 DEF ReportInv, Outcome, OutcomeIsTrue
<1> QED BY <1>1, Reports, PTL

----------------------------------------------------------------------------
(***************************************************************************)
(* All or nothing.  What the store holds is only changed by the steps of   *)
(* DurableWorkflow, so the invariant is one of checkpoints: the node a run *)
(* is at is no branch of another, which is what makes the nodes recorded   *)
(* by Advance a coordinator with all of its branches, or none of either.   *)
(***************************************************************************)

\* What a checkpoint's list of nodes says of the others, and of its state.
Whole(cp) ==
    LET done == ToSet(cp.completed) IN
    /\ \A n \in Nodes : \A b \in BranchSet(n) : (n \in done) <=> (b \in done)
    /\ \A k \in Keys : cp.state[k] \in done \union {cp.initial}
    /\ cp.node \in Regular \union {NoNode}

WholeInv == \A w \in Workflows : store[w] # NoCheckpoint => Whole(store[w])

LEMMA ToSetAppended ==
    ASSUME NEW S, NEW s \in Seq(S), NEW t \in Seq(S)
    PROVE  ToSet(s \o t) = ToSet(s) \union ToSet(t)
<1>1. /\ DOMAIN (s \o t) = 1..(Len(s) + Len(t))
      /\ DOMAIN s = 1..Len(s) /\ DOMAIN t = 1..Len(t)
      /\ Len(s) \in Nat /\ Len(t) \in Nat
  OBVIOUS
<1>2. ASSUME NEW x \in ToSet(s \o t) PROVE x \in ToSet(s) \union ToSet(t)
  <2>1. PICK i \in 1..(Len(s) + Len(t)) : (s \o t)[i] = x BY <1>1 DEF ToSet
  <2>2. CASE i <= Len(s)
    <3>1. i \in 1..Len(s) /\ s[i] = x BY <1>1, <2>1, <2>2
    <3> QED BY <1>1, <3>1 DEF ToSet
  <2>3. CASE i > Len(s)
    <3>1. i - Len(s) \in 1..Len(t) /\ t[i - Len(s)] = x BY <1>1, <2>1, <2>3
    <3> QED BY <1>1, <3>1 DEF ToSet
  <2> QED BY <1>1, <2>1, <2>2, <2>3
<1>3. ASSUME NEW x \in ToSet(s) PROVE x \in ToSet(s \o t)
  <2>1. PICK i \in 1..Len(s) : s[i] = x BY <1>1 DEF ToSet
  <2>2. i \in 1..(Len(s) + Len(t)) /\ (s \o t)[i] = x BY <1>1, <2>1
  <2> QED BY <1>1, <2>2 DEF ToSet
<1>4. ASSUME NEW x \in ToSet(t) PROVE x \in ToSet(s \o t)
  <2>1. PICK i \in 1..Len(t) : t[i] = x BY <1>1 DEF ToSet
  <2>2. Len(s) + i \in 1..(Len(s) + Len(t)) /\ (s \o t)[Len(s) + i] = x BY <1>1, <2>1
  <2> QED BY <1>1, <2>2 DEF ToSet
<1> QED BY <1>2, <1>3, <1>4

LEMMA RecordedNodes ==
    ASSUME NEW n \in Nodes
    PROVE  Recorded(n) \in Seq(Nodes) /\ ToSet(Recorded(n)) = {n} \union BranchSet(n)
<1>1. <<n>> \in Seq(Nodes) /\ Branches[n] \in Seq(Nodes)
  BY GraphAssumption DEF GraphAssumption
<1>2. ToSet(<<n>>) = {n} BY DEF ToSet
<1>3. ToSet(<<n>> \o Branches[n]) = ToSet(<<n>>) \union ToSet(Branches[n])
  BY <1>1, ToSetAppended
<1> QED BY <1>1, <1>2, <1>3 DEF Recorded, BranchSet

\* A node with branches is no branch, and no branch is one of two nodes'.
LEMMA OneCoordinator ==
    ASSUME NEW m \in Regular \union {NoNode}, NEW n \in Nodes, NEW b \in BranchSet(n), m # NoNode
    PROVE  /\ m \in Nodes /\ b \in Nodes /\ b # m
           /\ n \in {m} \union BranchSet(m) <=> b \in {m} \union BranchSet(m)
<1>1. m \in Nodes /\ b \in Nodes /\ b # m BY BranchSetType DEF Regular, AllBranches
<1>2. n \notin BranchSet(m)
  <2>1. Branches[n] # << >> BY DEF BranchSet, ToSet
  <2>2. Kind[n] = "parallel" BY <2>1, GraphAssumption DEF GraphAssumption
  <2> QED BY <1>1, <2>2, GraphAssumption DEF GraphAssumption
<1>3. n # m => b \notin BranchSet(m)
  BY <1>1, GraphAssumption DEF GraphAssumption
<1> QED BY <1>1, <1>2, <1>3

LEMMA WholeAdvance ==
    ASSUME NEW c \in Checkpoint, Whole(c), c.node # NoNode, NEW m \in Successors(c.node),
           NEW u \in [Keys -> ({c.node} \union BranchSet(c.node)) \union {NoNode}],
           NEW st, NEW v
    PROVE  Whole([[c EXCEPT !.state = [k \in Keys |-> IF u[k] = NoNode THEN c.state[k] ELSE u[k]],
                            !.node = m,
                            !.completed = c.completed \o Recorded(c.node),
                            !.status = st] EXCEPT !.revision = v])
<1> DEFINE new == [[c EXCEPT !.state = [k \in Keys |-> IF u[k] = NoNode THEN c.state[k] ELSE u[k]],
                             !.node = m,
                             !.completed = c.completed \o Recorded(c.node),
                             !.status = st] EXCEPT !.revision = v]
           done == ToSet(c.completed)
           more == {c.node} \union BranchSet(c.node)
<1>1. c.node \in Regular /\ c.node \in Nodes BY DEF Whole, Regular
<1>2. /\ new.node = m /\ new.initial = c.initial
      /\ new.completed = c.completed \o Recorded(c.node)
      /\ new.state = [k \in Keys |-> IF u[k] = NoNode THEN c.state[k] ELSE u[k]]
  BY DEF Checkpoint, Snapshot
<1> HIDE DEF new
<1>3. ToSet(new.completed) = done \union more
  BY <1>1, <1>2, RecordedNodes, ToSetAppended DEF Checkpoint, Snapshot
<1> HIDE DEF done, more
<1>4. m \in Regular \union {NoNode}
  BY <1>1, GraphAssumption DEF Successors, GraphAssumption
<1>5. ASSUME NEW n \in Nodes, NEW b \in BranchSet(n)
      PROVE  (n \in done \union more) <=> (b \in done \union more)
  <2>1. (n \in done) <=> (b \in done) BY DEF Whole, done
  <2>2. (n \in more) <=> (b \in more) BY <1>1, OneCoordinator DEF more
  <2> QED BY <2>1, <2>2
<1>6. ASSUME NEW k \in Keys PROVE new.state[k] \in (done \union more) \union {c.initial}
  <2>1. c.state[k] \in done \union {c.initial} BY DEF Whole, done
  <2>2. u[k] # NoNode => u[k] \in more BY DEF more
  <2> QED BY <1>2, <2>1, <2>2
<1>7. Whole(new) BY <1>2, <1>3, <1>4, <1>5, <1>6 DEF Whole
<1> QED BY <1>7 DEF new

LEMMA WholeStep ==
    ASSUME TypeOK, WholeInv, Durable!DNext
    PROVE  WholeInv'
<1>1. PICK r \in Runs, w \in Workflows :
         \/ Durable!Appear(r, w) \/ Durable!TakeOver(r, w)
         \/ Durable!Advance(r, w) \/ Durable!GiveUp(r, w)
  BY DEF Durable!DNext
<1> DEFINE c == store[w]
           v == c.revision + 1
<1>2. c \in Checkpoint \union {NoCheckpoint} /\ (c # NoCheckpoint => Whole(c))
  BY DEF TypeOK, WholeInv
<1>3. ASSUME NEW cp, Durable!Write(w, cp, r), Whole([cp EXCEPT !.revision = v])
      PROVE  WholeInv'
  <2>1. store' = [store EXCEPT ![w] = [cp EXCEPT !.revision = v]]
    BY <1>3 DEF Durable!Write
  <2>2. store'[w] = [cp EXCEPT !.revision = v] /\ \A x \in Workflows \ {w} : store'[x] = store[x]
    BY <2>1 DEF TypeOK
  <2>3. NoCheckpoint' = NoCheckpoint /\ \A cq : Whole(cq)' <=> Whole(cq)
    BY DEF NoCheckpoint, Whole
  <2> QED BY <1>3, <2>2, <2>3 DEF WholeInv
<1>4. CASE Durable!Appear(r, w)
  <2>1. PICK d \in Versions, i \in Inputs : Durable!Write(w, FirstCheckpoint(d, i), r)
    BY <1>4, SharedDefs DEF Durable!Appear
  <2>2. Whole([FirstCheckpoint(d, i) EXCEPT !.revision = v])
    BY GraphAssumption DEF GraphAssumption, FirstCheckpoint, Whole, ToSet
  <2> QED BY <1>3, <2>1, <2>2
<1>5. ASSUME NEW st, c \in Checkpoint, Durable!Write(w, [c EXCEPT !.status = st], r)
      PROVE  WholeInv'
  <2>1. Whole(c) BY <1>2, <1>5, NoCheckpointIsNone
  <2> DEFINE d == [[c EXCEPT !.status = st] EXCEPT !.revision = v]
  <2>2. /\ d.node = c.node /\ d.completed = c.completed
        /\ d.state = c.state /\ d.initial = c.initial
    BY <1>5 DEF Checkpoint, Snapshot
  <2> HIDE DEF d
  <2>3. Whole(d) BY <2>1, <2>2 DEF Whole
  <2> HIDE DEF v
  <2> QED BY <1>3, <1>5, <2>3 DEF d
<1>6. CASE Durable!TakeOver(r, w)
  <2>1. c \in Checkpoint
    BY <1>2, <1>6, SharedDefs DEF Durable!TakeOver, Resumable, Statuses, NoCheckpoint
  <2> QED BY <1>5, <1>6, <2>1 DEF Durable!TakeOver
<1>7. CASE Durable!GiveUp(r, w)
  <2>1. c \in Checkpoint BY <1>2, <1>7 DEF Durable!GiveUp, NoCheckpoint
  <2> QED BY <1>5, <1>7, <2>1 DEF Durable!GiveUp
<1>8. CASE Durable!Advance(r, w)
  <2>1. c \in Checkpoint /\ c.node # NoNode
    BY <1>2, <1>8 DEF Durable!Advance, NoCheckpoint, Checkpoint
  <2>2. Whole(c) BY <1>2, <2>1, NoCheckpointIsNone
  <2>3. PICK m \in Successors(c.node),
             u \in [Keys -> ({c.node} \union BranchSet(c.node)) \union {NoNode}],
             st \in {"RUNNING", "INTERRUPTED", "COMPLETED"} :
           Durable!Write(w, [c EXCEPT !.state = [k \in Keys |-> IF u[k] = NoNode THEN c.state[k] ELSE u[k]],
                                      !.node = m,
                                      !.completed = c.completed \o Recorded(c.node),
                                      !.status = st], r)
    <3>1. /\ Durable!Recorded(c.node) = Recorded(c.node)
          /\ Durable!Successors(c.node) = Successors(c.node)
          /\ Durable!BranchSet(c.node) = BranchSet(c.node)
      BY SharedDefs
    <3> QED BY <1>8, <3>1 DEF Durable!Advance
  <2> QED BY <1>3, <2>1, <2>2, <2>3, WholeAdvance
<1> QED BY <1>1, <1>4, <1>6, <1>7, <1>8

\* A coordinator and its branches are checkpointed together or not at all,
\* and no value of a stored state comes from a node that is not recorded.
THEOREM GroupsAreAtomic == Spec => []AllOrNothing
<1>1. Init => WholeInv BY DEF Init, WholeInv
<1>2. IInv /\ WholeInv /\ [Next]_vars => WholeInv'
  <2> SUFFICES ASSUME IInv, WholeInv, [Next]_vars PROVE WholeInv' OBVIOUS
  <2>1. CASE Durable!DNext BY <2>1, WholeStep DEF IInv
  <2>2. CASE UNCHANGED store BY <2>2 DEF WholeInv, Whole
  <2> QED BY <2>1, <2>2, NextImplements DEF Durable!dvars
<1>3. WholeInv => AllOrNothing BY DEF WholeInv, Whole, AllOrNothing
<1> QED BY <1>1, <1>2, <1>3, Inductive, PTL DEF Spec
=============================================================================
