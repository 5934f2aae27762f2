--------------------------- MODULE DurableWorkflow ---------------------------
(***************************************************************************)
(* What a checkpoint store and the runners that share it promise to the    *)
(* owner of a workflow: one linear history of checkpoints for each         *)
(* workflow, extended only by the run that holds the latest checkpoint, or *)
(* by a run that takes it over; a node is recorded once, together with the *)
(* branches it forks; a completed workflow is never written again.         *)
(*                                                                         *)
(* The history is `store` (the latest checkpoint of every workflow) and    *)
(* `owner` (the run whose save it is).  Module Workflow shows that         *)
(* src/dqagent/workflow.py and checkpoint.py implement this, with runs     *)
(* that crash, race, time out and are cancelled.                           *)
(***************************************************************************)
EXTENDS WorkflowGraph

CONSTANTS Runs,       \* identities of start, resume and replay calls
          Workflows,  \* workflow IDs
          NoRun       \* nobody has saved the workflow yet

VARIABLES store,      \* store[w]: the checkpoint the store holds for w
          owner       \* owner[w]: the run that saved it

dvars == <<store, owner>>

----------------------------------------------------------------------------
DInit ==
    /\ store = [w \in Workflows |-> NoCheckpoint]
    /\ owner = [w \in Workflows |-> NoRun]

Write(w, cp, r) ==
    /\ store' = [store EXCEPT ![w] = [cp EXCEPT !.revision = store[w].revision + 1]]
    /\ owner' = [owner EXCEPT ![w] = r]

\* A new workflow appears at its start node with its input as its state.
Appear(r, w) ==
    /\ store[w] = NoCheckpoint
    /\ \E v \in Versions, i \in Inputs : Write(w, FirstCheckpoint(v, i), r)

\* A run takes over a workflow that has not completed; nothing else changes.
TakeOver(r, w) ==
    /\ store[w].status \in Resumable
    /\ Write(w, [store[w] EXCEPT !.status = "RUNNING"], r)

\* The owner records its node (a coordinator with all its branches) and moves
\* on to a successor.  Only nodes recorded in this step leave updates: u says
\* whose update a key takes, NoNode that it keeps its value.
Advance(r, w) ==
    LET cp == store[w]
        Writers == {cp.node} \union BranchSet(cp.node) IN
    /\ owner[w] = r
    /\ cp.status = "RUNNING"
    /\ \E m \in Successors(cp.node),
          u \in [Keys -> Writers \union {NoNode}],
          st \in {"RUNNING", "INTERRUPTED", "COMPLETED"} :
          /\ (st = "COMPLETED") <=> (m = NoNode)
          /\ Write(w, [cp EXCEPT !.state = [k \in Keys |-> IF u[k] = NoNode THEN @[k] ELSE u[k]],
                                 !.node = m,
                                 !.completed = @ \o Recorded(cp.node),
                                 !.status = st], r)

\* The owner gives up: its last checkpoint stays, marked with the reason.
GiveUp(r, w) ==
    /\ owner[w] = r
    /\ store[w].status = "RUNNING"
    /\ \E st \in {"CANCELLED", "TIMED_OUT", "FAILED"} :
          Write(w, [store[w] EXCEPT !.status = st], r)

DNext == \E r \in Runs, w \in Workflows :
            Appear(r, w) \/ TakeOver(r, w) \/ Advance(r, w) \/ GiveUp(r, w)

DSpec == DInit /\ [][DNext]_dvars

----------------------------------------------------------------------------
(* Properties of the promise itself. *)

\* A completed workflow is final: no later run, stale or resumed, changes its
\* checkpoint again (workflow.py 333, the revision test of checkpoint.py 149).
CompletedIsFinal ==
    [][\A w \in Workflows : store[w].status = "COMPLETED" => store'[w] = store[w]]_dvars
=============================================================================
