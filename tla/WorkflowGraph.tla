---------------------------- MODULE WorkflowGraph ----------------------------
(***************************************************************************)
(* A workflow definition (src/dqagent/workflow.py 54-242) and the          *)
(* checkpoint a store keeps for a workflow (src/dqagent/checkpoint.py).    *)
(*                                                                         *)
(* A definition is given by functions on Nodes.  A value of the state      *)
(* mapping is abstracted to where it came from: the input the workflow was *)
(* started with, or the node whose update it is.                           *)
(***************************************************************************)
EXTENDS Naturals, Sequences, FiniteSets, SequencesExt

CONSTANTS Nodes, StartNode, NoNode,
          Kind,       \* Kind[n]: the class of n's transition
          Targets,    \* Targets[n]: next node, routes' targets or continuation
          Branches,   \* Branches[n]: the branch nodes of a parallel transition
          Keys,       \* keys of the state mapping
          Updates,    \* Updates[n]: the key sets a handler of n may return
          Versions,   \* definition_version
          Inputs,     \* initial states
          Rank        \* a number every edge lowers: the graph is acyclic

BranchSet(n) == ToSet(Branches[n])
AllBranches == UNION {BranchSet(n) : n \in Nodes}
Regular == Nodes \ AllBranches

\* Nodes that WorkflowRunner._execute may find in current_node after n.
Successors(n) == IF Targets[n] = {} THEN {NoNode} ELSE Targets[n]

\* What completed_nodes gains when n is checkpointed.
Recorded(n) == <<n>> \o Branches[n]

\* WorkflowDefinition.__post_init__ and _validate_graph.  The acyclicity test
\* (visit, 215-226) is stated as the existence of a rank that every target
\* lowers.
GraphAssumption ==
    /\ NoNode \notin Nodes
    /\ Nodes \intersect Inputs = {}
    /\ NoNode \notin Inputs
    /\ StartNode \in Nodes
    /\ Kind \in [Nodes -> {"end", "next", "conditional", "parallel"}]
    /\ Targets \in [Nodes -> SUBSET Nodes]
    /\ Branches \in [Nodes -> Seq(Nodes)]
    /\ Updates \in [Nodes -> SUBSET SUBSET Keys]
    /\ \A n \in Nodes :
          /\ Kind[n] = "end" => Targets[n] = {}
          /\ Kind[n] = "next" => \E t \in Nodes : Targets[n] = {t}
          /\ Kind[n] = "conditional" => Targets[n] # {}
          /\ Kind[n] = "parallel" =>
                /\ Targets[n] = {} \/ \E t \in Nodes : Targets[n] = {t}
                /\ Len(Branches[n]) >= 2
          /\ Kind[n] # "parallel" => Branches[n] = << >>
          /\ \A i, j \in 1..Len(Branches[n]) : Branches[n][i] = Branches[n][j] => i = j
          /\ Targets[n] \subseteq Regular
          /\ \A b \in BranchSet(n) : Kind[b] = "end"
    /\ \A m, n \in Nodes : m # n => BranchSet(m) \intersect BranchSet(n) = {}
    /\ StartNode \in Regular
    /\ Rank \in [Nodes -> Nat]
    /\ \A n \in Nodes : \A t \in Targets[n] \union BranchSet(n) : Rank[t] < Rank[n]

ASSUME GraphAssumption

----------------------------------------------------------------------------
Statuses == {"RUNNING", "INTERRUPTED", "COMPLETED", "CANCELLED", "TIMED_OUT", "FAILED"}

\* Every status but COMPLETED may be resumed (workflow.py 333), also RUNNING:
\* the run that left it there may have crashed.
Resumable == Statuses \ {"COMPLETED"}

\* Revision 0 stands for a checkpoint that was never saved, and for
\* expected_revision=None.
NoCheckpoint ==
    [revision |-> 0, status |-> "NONE", version |-> NoNode, initial |-> NoNode,
     state |-> [k \in Keys |-> NoNode], node |-> NoNode, completed |-> << >>]

Snapshot ==
    [revision : Nat, status : Statuses, version : Versions, initial : Inputs,
     state : [Keys -> Inputs \union Nodes], node : Nodes \union {NoNode},
     completed : Seq(Nodes)]

\* WorkflowCheckpoint.__post_init__: exactly a completed one has no node.
Checkpoint == {c \in Snapshot : (c.status = "COMPLETED") <=> (c.node = NoNode)}

FirstCheckpoint(v, i) ==
    [revision |-> 0, status |-> "RUNNING", version |-> v, initial |-> i,
     state |-> [k \in Keys |-> i], node |-> StartNode, completed |-> << >>]

\* dict.update on the state mapping: the keys in ks now hold n's values.
Merge(state, n, ks) == [k \in Keys |-> IF k \in ks THEN n ELSE state[k]]
=============================================================================
