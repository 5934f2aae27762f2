--------------------------- MODULE MemoryLifecycle ---------------------------
(***************************************************************************)
(* What long-term memory promises about the propositions of one scope.     *)
(* An ID stands for one proposition for ever: it is remembered once, may   *)
(* be superseded or expire, and once forgotten leaves nothing but the fact *)
(* that it was.  A topic has at most one active proposition, and another   *)
(* takes its place only by an explicit correction of that very one, or     *)
(* after it has expired.                                                   *)
(*                                                                         *)
(* Module Memory shows that memory_service.py over memory_store.py         *)
(* implements this, whatever clients, clocks and failures do.              *)
(***************************************************************************)
CONSTANTS Ids,       \* memory IDs the ID factory may return
          Topics,    \* the (kind, topic) keys of a scope
          Contents,  \* the contents of propositions
          NoId       \* the supersedes_id of a record that replaces nothing

VARIABLE ledger      \* ledger[i]: what has become of ID i

Absent    == [state |-> "absent"]
Forgotten == [state |-> "forgotten"]
Entry(st, t, c, j) == [state |-> st, topic |-> t, content |-> c, replaces |-> j]

Alive(t) == {i \in Ids : /\ ledger[i].state = "active"
                         /\ ledger[i].topic = t}

-----------------------------------------------------------------------------
LInit == ledger = [i \in Ids |-> Absent]

\* A first proposition of a topic.
Remember(i, t, c) ==
    /\ ledger[i] = Absent
    /\ Alive(t) = {}
    /\ ledger' = [ledger EXCEPT ![i] = Entry("active", t, c, NoId)]

\* A proposition i that expired gives way to another of its topic.
Renew(i, j, c) ==
    /\ ledger[i].state = "active"
    /\ ledger[j] = Absent
    /\ ledger' = [ledger EXCEPT ![i].state = "expired",
                                ![j] = Entry("active", ledger[i].topic, c, NoId)]

\* The explicit target i is corrected by j.
Correct(i, j, c) ==
    /\ ledger[i].state = "active"
    /\ ledger[j] = Absent
    /\ ledger' = [ledger EXCEPT ![i].state = "superseded",
                                ![j] = Entry("active", ledger[i].topic, c, i)]

\* Active propositions whose time is over are marked as expired.
Expire(S) ==
    /\ \A i \in S : ledger[i].state = "active"
    /\ ledger' = [i \in Ids |-> IF i \in S THEN [ledger[i] EXCEPT !.state = "expired"]
                                           ELSE ledger[i]]

\* Content, topic and history of i go; nothing brings them back.
Forget(i) ==
    /\ ledger[i].state \in {"active", "superseded", "expired"}
    /\ ledger' = [ledger EXCEPT ![i] = Forgotten]

LNext ==
    \/ \E i \in Ids, t \in Topics, c \in Contents : Remember(i, t, c)
    \/ \E i, j \in Ids, c \in Contents : Renew(i, j, c) \/ Correct(i, j, c)
    \/ \E S \in SUBSET Ids : Expire(S)
    \/ \E i \in Ids : Forget(i)

LSpec == LInit /\ [][LNext]_ledger
=============================================================================
