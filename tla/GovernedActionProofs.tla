------------------------ MODULE GovernedActionProofs ------------------------
(***************************************************************************)
(* Proofs about GovernedAction for every set of scopes, contents and       *)
(* capabilities, every list of hooks, every capacity of the collector and  *)
(* any number of calls and drifts.                                         *)
(*                                                                         *)
(* The induction needs three things the properties do not say: which       *)
(* authority a call in flight has gathered by the phase it is in           *)
(* (Authority), that the tokens of a run are handed out in order and each  *)
(* belongs to one call (Tokens, Fresh), and that a record belongs to a     *)
(* call that has ended with as many attempts (RecordsAreTrue).             *)
(***************************************************************************)
EXTENDS GovernedAction, FiniteSetTheorems, SequenceTheorems, TLAPS

Phases == {"prepared", "evaluated", "asking", "pre_hooks", "admitted",
           "executing", "post_hooks"}
Policies == {"allow", "deny", "require_approval"}

\* The locals of execute_detailed, with the contexts in S.
CallsWith(S) ==
    [phase : Phases, action : Actions, expected : Scopes \cup {None},
     shown : S, context : S,
     token : Nat, guards : GuardNames \cup {"passed", None},
     policy : Policies \cup {None}, approval : Approvals, pre : Seq(BOOLEAN),
     post : Nat, attempts : 0..1, effect : EffectStates,
     changed : BOOLEAN, blank : BOOLEAN, failed : BOOLEAN]

IsCall(c) == c \in CallsWith(IF c.phase = "prepared" THEN {None} ELSE Contexts)

Endings == [outcome : Outcomes, token : Nat, attempts : 0..1,
            changed : BOOLEAN, blank : BOOLEAN]

Collectors ==
    [reserved : UNION {[1..n -> BOOLEAN] : n \in 0..MaxGovernedCalls},
     records : Seq(Records), complete : BOOLEAN, closed : BOOLEAN]

Held == Cardinality(DOMAIN collector.reserved)

Types ==
    /\ world \in Worlds /\ drifts \in 0..MaxDrifts /\ stopped \in BOOLEAN
    /\ collector \in Collectors
    /\ call # NoCall => IsCall(call)
    /\ history \in Seq(Endings)
    /\ reported \in Seq(Records)

\* Every pre-hook that ran and was required has succeeded.
HooksPassed(c) == \A h \in 1..Len(c.pre) : PreHooks[h] = "required" => c.pre[h]

Attempting == {"executing", "post_hooks"}

Authorised(c) ==
    /\ c.guards = "passed"
    /\ \/ c.policy = "allow"
       \/ c.policy = "require_approval" /\ c.approval = "approve"

\* What a call in flight has, by its phase.
Authority(c) ==
    /\ c.phase = "prepared" => c.token = NoToken /\ c.guards = None
    /\ c.phase # "prepared" =>
          /\ c.guards # None /\ c.policy # None
          /\ c.expected = c.shown.scope
          /\ c.token = NoToken <=> c.guards = "max_governed_calls"
    /\ c.phase \in {"prepared", "evaluated", "asking"} => c.pre = <<>>
    /\ c.phase = "evaluated" /\ c.policy # "deny" => c.guards = "passed"
    /\ c.phase = "asking" => c.guards = "passed" /\ c.policy = "require_approval"
    /\ c.phase \in {"pre_hooks", "admitted"} \cup Attempting => Authorised(c)
    /\ Len(c.pre) <= Len(PreHooks) /\ HooksPassed(c)
    /\ c.phase \in {"admitted"} \cup Attempting => Len(c.pre) = Len(PreHooks)
    /\ c.attempts = 1 <=> c.phase \in Attempting
    /\ c.attempts = 0 => ~c.changed /\ ~c.blank
    /\ c.changed => c.effect # None

\* A token a call holds is the collector's and no finished call had it.
Fresh(c) ==
    /\ c.token <= Held
    /\ c.token # NoToken => \A i \in DOMAIN history : history[i].token # c.token

\* The tokens of the finished calls: within the capacity, each of one call, and
\* no attempt without one.
Tokens ==
    /\ \A i \in DOMAIN history :
          /\ history[i].token <= MaxGovernedCalls
          /\ ~collector.closed => history[i].token <= Held
          /\ history[i].attempts = 1 => history[i].token # NoToken
    /\ \A i, j \in DOMAIN history :
          history[i].token = history[j].token /\ i # j => history[i].token = NoToken

\* A record shows the authority for its attempt.
Shows(r) ==
    /\ r.guards # "max_governed_calls"
    /\ r.attempts = 1 =>
          /\ Authorised(r)
          /\ Len(r.pre) = Len(PreHooks) /\ HooksPassed(r)

\* Every record is of a call that has ended, and shows what that call did.
RecordsAreTrue ==
    \A r \in Evidence :
        /\ Shows(r)
        /\ \E i \in DOMAIN history :
              history[i].token = r.token /\ history[i].attempts = r.attempts

\* What a finished call leaves behind.
EndingsAreTrue ==
    \A i \in DOMAIN history :
        LET recorded == {r \in Evidence : r.token = history[i].token /\ r.attempts = 1} IN
        /\ history[i].changed => history[i].attempts = 1
        /\ history[i].changed /\ ~history[i].blank =>
              ~collector.complete \/ \E r \in recorded : r.effect # None
        /\ history[i].outcome = "ok" => recorded # {}

\* Until the collector is closed nobody else has its records; then it is empty.
Lifetime ==
    /\ collector.closed => call = NoCall /\ collector.records = <<>>
    /\ ~collector.closed => reported = <<>>

IInv ==
    /\ Types
    /\ call # NoCall => Authority(call) /\ Fresh(call)
    /\ Tokens /\ RecordsAreTrue /\ EndingsAreTrue /\ Lifetime

-----------------------------------------------------------------------------
(* The guards *)

\* The first failing guard: none exactly when every guard holds, the capacity
\* exactly when the capacity is exhausted.
LEMMA Guards ==
    ASSUME NEW a, NEW g, NEW expected
    PROVE  LET e == EvaluateGuards(a, g, expected) IN
           /\ e \in GuardNames \cup {"passed"} /\ e # None
           /\ e = "max_governed_calls" <=> ~(g.count < MaxGovernedCalls)
           /\ e = "passed" =>
                 /\ expected = None \/ g.scope = expected
                 /\ world.contained
                 /\ a.sees = None \/ a.sees = g.content
                 /\ a.needs \subseteq g.offers
<1> DEFINE holds  == GuardHolds(a, g, expected)
           failed == {i \in 1..7 : ~holds[GuardOrder[i]]}
           first  == CHOOSE i \in failed : \A j \in failed : i <= j
<1>1. DOMAIN GuardOrder = 1..7 BY DEF GuardOrder
<1>2. EvaluateGuards(a, g, expected)
        = IF failed = {} THEN "passed" ELSE GuardOrder[first]
  BY <1>1 DEF EvaluateGuards
<1>3. /\ GuardOrder[1] = "max_governed_calls" /\ GuardOrder[2] = "workspace_identity"
      /\ GuardOrder[3] = "current_containment" /\ GuardOrder[4] = "protected_secret"
      /\ GuardOrder[5] = "limits" /\ GuardOrder[6] = "preconditions"
      /\ GuardOrder[7] = "capabilities"
  BY DEF GuardOrder
<1>4. /\ holds["max_governed_calls"] <=> g.count < MaxGovernedCalls
      /\ holds["workspace_identity"] <=> (expected = None \/ g.scope = expected)
      /\ holds["current_containment"] <=> world.contained
      /\ holds["preconditions"] <=> (a.sees = None \/ a.sees = g.content)
      /\ holds["capabilities"] <=> a.needs \subseteq g.offers
  BY DEF GuardHolds
<1> HIDE DEF holds
<1>5. failed # {} => first \in failed /\ \A j \in failed : first <= j
  <2>1. failed # {} => \E i \in failed : \A j \in failed : i <= j
    <3>1. CASE 1 \in failed BY <3>1
    <3>2. CASE 1 \notin failed /\ 2 \in failed BY <3>2
    <3>3. CASE 1 \notin failed /\ 2 \notin failed /\ 3 \in failed BY <3>3
    <3>4. CASE failed \cap {1, 2, 3} = {} /\ 4 \in failed BY <3>4
    <3>5. CASE failed \cap {1, 2, 3, 4} = {} /\ 5 \in failed BY <3>5
    <3>6. CASE failed \cap {1, 2, 3, 4, 5} = {} /\ 6 \in failed BY <3>6
    <3>7. CASE failed \cap {1, 2, 3, 4, 5, 6} = {} /\ 7 \in failed BY <3>7
    <3>8. CASE failed = {} BY <3>8
    <3> QED BY <3>1, <3>2, <3>3, <3>4, <3>5, <3>6, <3>7, <3>8
  <2> QED BY <2>1
<1>6. 1 \in failed <=> ~(g.count < MaxGovernedCalls) BY <1>3, <1>4
<1>7. 1 \in failed => first = 1 BY <1>5
<1>8. 1 \notin failed /\ failed # {} => first \in 2..7 BY <1>5
<1>9. failed = {} => \A i \in 1..7 : holds[GuardOrder[i]] OBVIOUS
<1> HIDE DEF first, failed
<1>10. CASE failed = {} BY <1>2, <1>3, <1>4, <1>6, <1>9, <1>10 DEF GuardNames, None
<1>11. CASE 1 \in failed BY <1>2, <1>3, <1>6, <1>7, <1>11 DEF GuardNames, None
<1>12. CASE 1 \notin failed /\ failed # {}
  BY <1>2, <1>3, <1>6, <1>8, <1>12 DEF GuardNames, None
<1> QED BY <1>10, <1>11, <1>12

-----------------------------------------------------------------------------
(* The collector *)

LEMMA Holding ==
    ASSUME Types
    PROVE  /\ Held \in 0..MaxGovernedCalls
           /\ collector.reserved \in [1..Held -> BOOLEAN]
<1>1. PICK n \in 0..MaxGovernedCalls : collector.reserved \in [1..n -> BOOLEAN]
  BY DEF Types, Collectors
<1>2. DOMAIN collector.reserved = 1..n BY <1>1
<1>3. n \in Nat BY GovernedAssumption DEF GovernedAssumption
<1>4. Held = n BY <1>2, <1>3, FS_Interval DEF Held
<1> QED BY <1>1, <1>4

\* A guard context is well-formed, and the one of a call with a reservation
\* finds room for it.
LEMMA ContextType ==
    ASSUME Types, NEW token \in Nat, token <= Held
    PROVE  /\ GuardContext(token) \in Contexts
           /\ GuardContext(token).scope = world.scope
           /\ GuardContext(token).content = world.content
           /\ GuardContext(token).offers = world.offers
           /\ token # NoToken => GuardContext(token).count < MaxGovernedCalls
           /\ token = NoToken => GuardContext(token).count = Held
<1>1. Held \in 0..MaxGovernedCalls /\ MaxGovernedCalls \in Nat
  BY Holding, GovernedAssumption DEF GovernedAssumption
<1>2. /\ world.scope \in Scopes /\ world.content \in Versions
      /\ world.offers \in SUBSET Capabilities
  BY DEF Types, Worlds
<1> QED BY <1>1, <1>2 DEF GuardContext, Contexts, Held, NoToken

-----------------------------------------------------------------------------
(* The steps of the induction: a call moves on, or ends in one of three ways. *)

LEMMA Moves ==
    ASSUME IInv, ~collector.closed, NEW c, IsCall(c), Authority(c),
           c.token = NoToken \/ (call # NoCall /\ c.token = call.token),
           call' = c, UNCHANGED <<collector, history, Surroundings>>
    PROVE  IInv'
<1> USE DEF IInv, Surroundings
<1>1. Types' BY DEF Types
<1>2. Held \in Nat BY Holding
<1>3. (call # NoCall => Authority(call) /\ Fresh(call))'
  BY <1>2 DEF Authority, HooksPassed, Authorised, Fresh, Held, NoToken
<1>4. Tokens' BY DEF Tokens, Held
<1>5. RecordsAreTrue' BY DEF RecordsAreTrue, Evidence, Shows, Authorised, HooksPassed
<1>6. EndingsAreTrue' BY DEF EndingsAreTrue, Evidence
<1>7. Lifetime' BY DEF Lifetime
<1> QED BY <1>1, <1>3, <1>4, <1>5, <1>6, <1>7

\* What the end of a call may rely on.
Final(c) ==
    /\ IsCall(c) /\ c.token = call.token
    /\ c.changed => c.attempts = 1
    /\ c.attempts = 1 =>
          c.token # NoToken /\ Authorised(c) /\ Len(c.pre) = Len(PreHooks) /\ HooksPassed(c)
    /\ c.token # NoToken =>
          c.guards \notin {None, "max_governed_calls"} /\ c.policy # None

\* The history of the calls grows by one.
LEMMA Ends ==
    ASSUME IInv, call # NoCall, NEW c, Final(c), NEW outcome \in Outcomes,
           End(c, outcome)
    PROVE  /\ history' \in Seq(Endings) /\ Len(history) \in Nat
           /\ DOMAIN history = 1..Len(history)
           /\ DOMAIN history' = 1..(Len(history) + 1)
           /\ \A i \in 1..Len(history) : history'[i] = history[i]
           /\ history'[Len(history) + 1]
                 = [outcome |-> outcome, token |-> c.token,
                    attempts |-> c.attempts, changed |-> c.changed,
                    blank |-> c.blank]
           /\ call' = NoCall
<1> DEFINE e == [outcome |-> outcome, token |-> c.token, attempts |-> c.attempts,
                 changed |-> c.changed, blank |-> c.blank]
<1>1. e \in Endings BY DEF Final, IsCall, CallsWith, Endings
<1>2. history \in Seq(Endings) BY DEF IInv, Types
<1>3. history' = Append(history, e) /\ call' = NoCall BY DEF End
<1> HIDE DEF e
<1>4. /\ history' \in Seq(Endings) /\ Len(history') = Len(history) + 1
      /\ \A i \in 1..Len(history) : history'[i] = history[i]
      /\ history'[Len(history) + 1] = e
  BY <1>1, <1>2, <1>3, AppendProperties
<1> QED BY <1>2, <1>3, <1>4, LenProperties DEF e

\* Tokens stay apart when a call ends.
LEMMA EndsTokens ==
    ASSUME IInv, call # NoCall, NEW c, Final(c), NEW outcome \in Outcomes,
           End(c, outcome), Held' = Held, collector'.closed = collector.closed
    PROVE  Tokens'
<1>1. Fresh(call) /\ c.token = call.token /\ ~collector.closed /\ Tokens
  BY DEF IInv, Final, Lifetime
<1>2. Held \in 0..MaxGovernedCalls /\ MaxGovernedCalls \in Nat
  BY Holding, GovernedAssumption DEF GovernedAssumption, IInv
<1>3. c.token \in Nat /\ c.token <= Held BY <1>1 DEF Final, IsCall, CallsWith, Fresh
<1>4. \A i \in DOMAIN history : history[i].token # c.token \/ c.token = NoToken
  BY <1>1 DEF Fresh
<1>5. c.attempts = 1 => c.token # NoToken BY DEF Final
<1> DEFINE n == Len(history) + 1
<1>6. /\ DOMAIN history = 1..Len(history) /\ DOMAIN history' = 1..n
      /\ Len(history) \in Nat
      /\ \A i \in 1..Len(history) : history'[i] = history[i]
      /\ history'[n].token = c.token /\ history'[n].attempts = c.attempts
  <2>1. /\ DOMAIN history = 1..Len(history) /\ DOMAIN history' = 1..n
        /\ Len(history) \in Nat
        /\ \A i \in 1..Len(history) : history'[i] = history[i]
        /\ history'[n] = [outcome |-> outcome, token |-> c.token,
                          attempts |-> c.attempts, changed |-> c.changed,
                          blank |-> c.blank]
    BY Ends
  <2> HIDE DEF n
  <2> QED BY <2>1
<1> HIDE DEF n
<1>7. ASSUME NEW i \in DOMAIN history'
      PROVE  /\ history'[i].token <= MaxGovernedCalls /\ history'[i].token <= Held
             /\ history'[i].attempts = 1 => history'[i].token # NoToken
  <2>1. CASE i = n BY <1>2, <1>3, <1>5, <1>6, <2>1
  <2>2. CASE i # n BY <1>1, <1>6, <2>2 DEF Tokens, n
  <2> QED BY <2>1, <2>2
<1>8. ASSUME NEW i \in DOMAIN history', NEW j \in DOMAIN history',
             history'[i].token = history'[j].token, i # j
      PROVE  history'[i].token = NoToken
  <2>1. CASE i # n /\ j # n BY <1>1, <1>6, <1>8, <2>1 DEF Tokens, n
  <2>2. CASE i = n /\ j # n BY <1>4, <1>6, <1>8, <2>2 DEF n
  <2>3. CASE i # n /\ j = n BY <1>4, <1>6, <1>8, <2>3 DEF n
  <2> QED BY <1>8, <2>1, <2>2, <2>3
<1> QED BY <1>7, <1>8 DEF Tokens

\* The evidence only grows when a call ends: by the record it stores, if any.
EvidenceGrows(new) ==
    /\ Evidence' = Evidence \cup new
    /\ \A r \in new : Shows(r)

\* A call that ends with the new evidence in "new" keeps what is known of
\* records and calls.
LEMMA EndsTrue ==
    ASSUME IInv, call # NoCall, NEW c, Final(c), NEW outcome \in Outcomes,
           End(c, outcome), NEW new, EvidenceGrows(new),
           \A r \in new : r.token = c.token /\ r.attempts = c.attempts,
           ~collector.complete => ~collector'.complete,
           c.changed /\ ~c.blank =>
              ~collector'.complete \/ \E r \in new : r.effect # None,
           outcome = "ok" => new # {} /\ c.attempts = 1
    PROVE  RecordsAreTrue' /\ EndingsAreTrue'
<1> DEFINE n == Len(history) + 1
<1>1. /\ DOMAIN history = 1..Len(history) /\ DOMAIN history' = 1..n
      /\ Len(history) \in Nat
      /\ \A i \in 1..Len(history) : history'[i] = history[i]
      /\ history'[n].token = c.token /\ history'[n].attempts = c.attempts
      /\ history'[n].changed = c.changed /\ history'[n].blank = c.blank
      /\ history'[n].outcome = outcome
  <2>1. /\ DOMAIN history = 1..Len(history) /\ DOMAIN history' = 1..n
        /\ Len(history) \in Nat
        /\ \A i \in 1..Len(history) : history'[i] = history[i]
        /\ history'[n] = [outcome |-> outcome, token |-> c.token,
                          attempts |-> c.attempts, changed |-> c.changed,
                          blank |-> c.blank]
    BY Ends
  <2> HIDE DEF n
  <2> QED BY <2>1
<1>2. n \in DOMAIN history' /\ \A i \in DOMAIN history : i # n /\ i \in DOMAIN history'
  BY <1>1
<1> HIDE DEF n
<1>3. RecordsAreTrue /\ EndingsAreTrue BY DEF IInv
<1>4. ASSUME NEW r \in Evidence'
      PROVE  /\ Shows(r)
             /\ \E i \in DOMAIN history' :
                   history'[i].token = r.token /\ history'[i].attempts = r.attempts
  <2>1. CASE r \in Evidence BY <1>1, <1>2, <1>3, <2>1 DEF RecordsAreTrue
  <2>2. CASE r \in new BY <1>1, <1>2, <2>2 DEF EvidenceGrows
  <2> QED BY <2>1, <2>2 DEF EvidenceGrows
<1>5. RecordsAreTrue' BY <1>4 DEF RecordsAreTrue, Shows, Authorised, HooksPassed
<1>6. ASSUME NEW i \in DOMAIN history'
      PROVE  LET recorded == {r \in Evidence' : r.token = history'[i].token /\ r.attempts = 1} IN
             /\ history'[i].changed => history'[i].attempts = 1
             /\ history'[i].changed /\ ~history'[i].blank =>
                  ~collector'.complete \/ \E r \in recorded : r.effect # None
             /\ history'[i].outcome = "ok" => recorded # {}
  <2>1. CASE i \in DOMAIN history
    BY <1>1, <1>2, <1>3, <2>1 DEF EndingsAreTrue, EvidenceGrows
  <2>2. CASE i = n
    <3>1. \A r \in new : r \in Evidence' /\ r.token = c.token /\ r.attempts = c.attempts
      BY DEF EvidenceGrows
    <3>2. c.changed => c.attempts = 1 BY DEF Final
    <3> QED BY <1>1, <2>2, <3>1, <3>2
  <2>3. i \in DOMAIN history \/ i = n BY <1>1 DEF n
  <2> QED BY <2>1, <2>2, <2>3
<1>7. EndingsAreTrue' BY <1>6 DEF EndingsAreTrue
<1> QED BY <1>5, <1>7

LEMMA EndsRest ==
    ASSUME IInv, call # NoCall, NEW c, Final(c), NEW outcome \in Outcomes,
           End(c, outcome), UNCHANGED Surroundings,
           collector' \in Collectors, collector'.closed = collector.closed,
           Held' = Held, RecordsAreTrue', EndingsAreTrue'
    PROVE  IInv'
<1>1. history' \in Seq(Endings) /\ call' = NoCall BY Ends
<1>2. Tokens' BY EndsTokens
<1>3. Types' BY <1>1 DEF IInv, Types, Surroundings
<1>4. ~collector.closed BY DEF IInv, Lifetime
<1>5. Lifetime' BY <1>4 DEF IInv, Lifetime, Surroundings
<1> QED BY <1>1, <1>2, <1>3, <1>5 DEF IInv

\* An end without a record: of a call that changed nothing, or whose
\* diagnostic is blank.
LEMMA EndsBare ==
    ASSUME IInv, call # NoCall, NEW c, Final(c), c.changed => c.blank,
           NEW outcome \in Outcomes \ {"ok"}, EndBare(c, outcome),
           UNCHANGED Surroundings
    PROVE  IInv'
<1>1. End(c, outcome) /\ UNCHANGED collector BY DEF EndBare
<1>2. EvidenceGrows({}) BY <1>1 DEF EvidenceGrows, Evidence, Surroundings
<1>3. collector' \in Collectors /\ Held' = Held /\ collector'.closed = collector.closed
      /\ collector'.complete = collector.complete
  BY <1>1 DEF IInv, Types, Held
<1>4. c.changed /\ ~c.blank => FALSE
  BY DEF Final, IsCall, CallsWith
<1>5. RecordsAreTrue' /\ EndingsAreTrue'
  BY <1>1, <1>2, <1>3, <1>4, EndsTrue
<1> QED BY <1>1, <1>3, <1>5, EndsRest

\* An end whose record the collector refuses.
LEMMA EndsUnstored ==
    ASSUME IInv, call # NoCall, NEW c, Final(c),
           NEW outcome \in Outcomes \ {"ok"}, End(c, outcome),
           collector' = Unstored, UNCHANGED Surroundings
    PROVE  IInv'
<1>1. collector \in Collectors BY DEF IInv, Types
<1>2. collector' \in Collectors /\ Held' = Held /\ collector'.closed = collector.closed
      /\ ~collector'.complete /\ collector'.records = collector.records
  BY <1>1 DEF Unstored, Collectors, Held
<1>3. EvidenceGrows({}) BY <1>2 DEF EvidenceGrows, Evidence, Surroundings
<1>4. RecordsAreTrue' /\ EndingsAreTrue'
  BY <1>2, <1>3, EndsTrue
<1> QED BY <1>2, <1>4, EndsRest

\* An end with its record.
LEMMA EndsStored ==
    ASSUME IInv, call # NoCall, NEW c, Final(c), c.token # NoToken,
           NEW outcome \in Outcomes, End(c, outcome),
           NEW effect \in EffectStates,
           c.changed /\ ~c.blank => effect # None,
           outcome = "ok" => c.attempts = 1,
           collector' = Stored(Record(c, effect)), UNCHANGED Surroundings
    PROVE  IInv'
<1> DEFINE r == Record(c, effect)
<1>1. r \in Records /\ Shows(r) /\ r.token = c.token /\ r.attempts = c.attempts
      /\ r.effect = effect
  <2>1. IsCall(c) BY DEF Final
  <2>2. r \in Records
    BY <2>1 DEF Final, IsCall, CallsWith, Record, Records, Policies, NoToken, None
  <2>3. Shows(r) BY DEF Final, Record, Shows, Authorised, HooksPassed
  <2> QED BY <2>2, <2>3 DEF Record
<1> HIDE DEF r
<1>2. collector \in Collectors /\ collector.records \in Seq(Records)
  BY DEF IInv, Types, Collectors
<1>3. c.token \in 1..Held
  BY DEF IInv, Fresh, Final, IsCall, CallsWith, NoToken
<1>4. /\ collector'.reserved = [collector.reserved EXCEPT ![r.token] = TRUE]
      /\ collector'.records = Append(collector.records, r)
      /\ collector'.complete = collector.complete /\ collector'.closed = collector.closed
      /\ collector' = [reserved |-> collector'.reserved, records |-> collector'.records,
                       complete |-> collector.complete, closed |-> collector.closed]
  BY <1>2 DEF r, Stored, Collectors
<1>5. Held' = Held BY <1>4 DEF Held
<1>6. collector'.reserved \in [1..Held -> BOOLEAN] /\ Held \in 0..MaxGovernedCalls
  BY <1>4, Holding DEF IInv
<1>7. /\ collector'.records \in Seq(Records)
      /\ Len(collector'.records) = Len(collector.records) + 1
      /\ \A i \in 1..Len(collector.records) : collector'.records[i] = collector.records[i]
      /\ collector'.records[Len(collector.records) + 1] = r
  BY <1>1, <1>2, <1>4, AppendProperties
<1>8. collector' \in Collectors
  BY <1>2, <1>4, <1>6, <1>7 DEF Collectors
<1>9. EvidenceGrows({r})
  <2>1. /\ DOMAIN collector.records = 1..Len(collector.records)
        /\ DOMAIN collector'.records = 1..(Len(collector.records) + 1)
        /\ Len(collector.records) \in Nat
    BY <1>2, <1>7, LenProperties
  <2>2. {collector'.records[i] : i \in DOMAIN collector'.records}
          = {collector.records[i] : i \in DOMAIN collector.records} \cup {r}
    BY <1>7, <2>1
  <2> QED BY <1>1, <2>2 DEF EvidenceGrows, Evidence, Surroundings
<1>10. RecordsAreTrue' /\ EndingsAreTrue'
  BY <1>1, <1>4, <1>9, EndsTrue
<1> QED BY <1>4, <1>5, <1>8, <1>10, EndsRest

LEMMA StoresAndEnds ==
    ASSUME IInv, call # NoCall, NEW c, Final(c),
           NEW outcome \in {"ok", "error"}, NEW effect \in EffectStates,
           c.changed /\ ~c.blank => effect # None,
           outcome = "ok" => c.attempts = 1,
           StoreAndEnd(c, effect, outcome), UNCHANGED Surroundings
    PROVE  IInv'
<1> USE DEF Outcomes
<1>1. CASE c.token = NoToken
  <2>1. c.attempts # 1 /\ ~c.changed /\ outcome # "ok" BY <1>1 DEF Final
  <2> QED BY <1>1, <2>1, EndsBare DEF StoreAndEnd
<1>2. CASE c.token # NoToken /\ collector' = Stored(Record(c, effect)) /\ End(c, outcome)
  BY <1>2, EndsStored
<1>3. CASE collector' = Unstored /\ End(c, "error")
  BY <1>3, EndsUnstored
<1> QED BY <1>1, <1>2, <1>3 DEF StoreAndEnd

LEMMA Controls ==
    ASSUME IInv, call # NoCall, NEW c, Final(c), ControlError(c), UNCHANGED Surroundings
    PROVE  IInv'
<1> USE DEF Outcomes
<1>1. CASE (c.guards = None \/ c.token = NoToken \/ c.blank) /\ EndBare(c, "control")
  <2>1. c.changed => c.blank BY <1>1 DEF Final
  <2> QED BY <1>1, <2>1, EndsBare
<1>2. CASE /\ c.token # NoToken /\ collector' = Stored(Record(c, ControlEffect(c)))
           /\ End(c, "control")
  <2>1. ControlEffect(c) \in EffectStates /\ (c.changed => ControlEffect(c) # None)
    BY DEF ControlEffect, EffectStates, Final, None
  <2> QED BY <1>2, <2>1, EndsStored
<1>3. CASE collector' = Unstored /\ End(c, "control")
  BY <1>3, EndsUnstored
<1> QED BY <1>1, <1>2, <1>3 DEF ControlError

-----------------------------------------------------------------------------
(* What the steps of the path know of the call. *)

\* A call in flight, once it is evaluated.
LEMMA InFlight ==
    ASSUME IInv, call.phase # "idle"
    PROVE  /\ call # NoCall /\ ~collector.closed
           /\ IsCall(call) /\ Authority(call) /\ Fresh(call) /\ Final(call)
           /\ call.token \in Nat /\ call.token <= Held
           /\ call.phase # "prepared" => call \in CallsWith(Contexts)
<1>1. call # NoCall BY DEF NoCall
<1>2. ~collector.closed /\ IsCall(call) /\ Authority(call) /\ Fresh(call)
  BY <1>1 DEF IInv, Types, Lifetime
<1>3. call.token \in Nat /\ call.attempts \in 0..1 /\ call.phase \in Phases
  BY <1>2 DEF IsCall, CallsWith
<1>4. Final(call)
  BY <1>2, <1>3 DEF Final, Authority, Authorised, NoToken, Attempting, Phases
<1> QED BY <1>1, <1>2, <1>3, <1>4 DEF Fresh, IsCall

\* A refusal before the effect.
LEMMA Refuses ==
    ASSUME IInv, call.phase \notin {"idle", "prepared"} \cup Attempting,
           NEW c \in CallsWith(Contexts), c.phase = call.phase,
           c.token = call.token, c.attempts = call.attempts, c.changed = call.changed,
           c.token # NoToken =>
              c.guards \notin {None, "max_governed_calls"} /\ c.policy # None,
           FinishRecordedError(c), UNCHANGED Surroundings
    PROVE  IInv'
<1>1. call # NoCall /\ Authority(call) BY InFlight
<1>2. c.attempts # 1 /\ ~c.changed
  BY <1>1, InFlight DEF Authority, Final
<1>3. Final(c)
  BY <1>1, <1>2 DEF Final, IsCall, Authority
<1> QED BY <1>1, <1>2, <1>3, StoresAndEnds DEF FinishRecordedError, EffectStates

-----------------------------------------------------------------------------
(* One lemma for each action of the path. *)

LEMMA HistoryTypes == Types => \A i \in DOMAIN history : history[i] \in Endings
<1> SUFFICES ASSUME Types, NEW i \in DOMAIN history PROVE history[i] \in Endings
  OBVIOUS
<1>1. history \in Seq(Endings) BY DEF Types
<1>2. DOMAIN history = 1..Len(history) BY <1>1, LenProperties
<1> QED BY <1>1, <1>2, ElementOfSeq

LEMMA BeginStep == ASSUME IInv, Begin PROVE IInv'
<1>1. PICK sees \in {world.content, None}, needs \in SUBSET Capabilities,
           breaks \in {{}, {"protected_secret"}, {"limits"}} :
         call' = [phase |-> "prepared",
                  action |-> [sees |-> sees, needs |-> needs,
                              breaks |-> breaks],
                  expected |-> None, shown |-> None, context |-> None,
                  token |-> NoToken, guards |-> None, policy |-> None,
                  approval |-> None, pre |-> <<>>,
                  post |-> 0, attempts |-> 0, effect |-> None,
                  changed |-> FALSE, blank |-> FALSE, failed |-> FALSE]
  BY DEF Begin
<1> DEFINE a == [sees |-> sees, needs |-> needs, breaks |-> breaks]
           c == [phase |-> "prepared", action |-> a,
                 expected |-> None, shown |-> None, context |-> None,
                 token |-> NoToken, guards |-> None, policy |-> None,
                 approval |-> None, pre |-> <<>>,
                 post |-> 0, attempts |-> 0, effect |-> None,
                 changed |-> FALSE, blank |-> FALSE, failed |-> FALSE]
<1>2. a \in Actions BY DEF IInv, Types, Worlds, Actions
<1> HIDE DEF a
<1>3. <<>> \in Seq(BOOLEAN) /\ Len(<<>>) = 0 BY EmptySeq
<1>4. c \in CallsWith({None})
  BY <1>2, <1>3 DEF CallsWith, Phases, Policies, Approvals, EffectStates, NoToken
<1>5. c.phase = "prepared" /\ c.token = NoToken OBVIOUS
<1>6. Len(PreHooks) \in Nat BY GovernedAssumption, LenProperties DEF GovernedAssumption
<1>7. Authority(c)
  BY <1>3, <1>6 DEF Authority, HooksPassed, Attempting, NoToken, None
<1>8. call' = c BY <1>1 DEF a
<1> HIDE DEF c
<1> QED BY <1>4, <1>5, <1>7, <1>8, Moves DEF Begin, IsCall, None

LEMMA RejectStep == ASSUME IInv, RejectArguments PROVE IInv'
<1> DEFINE e == [outcome |-> "error", token |-> NoToken, attempts |-> 0,
                 changed |-> FALSE, blank |-> FALSE]
           n == Len(history) + 1
<1>1. history' = Append(history, e) /\ UNCHANGED <<collector, call, Surroundings>>
      /\ ~collector.closed
  BY DEF RejectArguments
<1>2. e \in Endings BY DEF Endings, Outcomes, NoToken
<1>3. e.token = NoToken /\ e.attempts = 0 /\ e.changed = FALSE /\ e.outcome = "error"
  OBVIOUS
<1> HIDE DEF e
<1>4. history \in Seq(Endings) BY DEF IInv, Types
<1>5. /\ history' \in Seq(Endings)
      /\ \A i \in 1..Len(history) : history'[i] = history[i]
      /\ history'[n] = e /\ Len(history') = n
  BY <1>1, <1>2, <1>4, AppendProperties
<1>6. /\ DOMAIN history = 1..Len(history) /\ DOMAIN history' = 1..n
      /\ Len(history) \in Nat
  BY <1>4, <1>5, LenProperties
<1>7. /\ \A i \in DOMAIN history' : i \in DOMAIN history \/ i = n
      /\ \A i \in DOMAIN history : i \in DOMAIN history' /\ history'[i] = history[i]
  BY <1>5, <1>6
<1> HIDE DEF n
<1>8. Types' BY <1>1, <1>5 DEF IInv, Types, Surroundings
<1>9. Held \in Nat /\ MaxGovernedCalls \in Nat
  BY Holding, GovernedAssumption DEF IInv, GovernedAssumption
<1>10. Tokens'
  <2>1. Tokens BY DEF IInv
  <2>2. ASSUME NEW i \in DOMAIN history'
        PROVE  /\ history'[i].token <= MaxGovernedCalls /\ history'[i].token <= Held
               /\ history'[i].attempts = 1 => history'[i].token # NoToken
    BY <1>1, <1>3, <1>5, <1>7, <1>9, <2>1 DEF Tokens, NoToken
  <2>3. ASSUME NEW i \in DOMAIN history', NEW j \in DOMAIN history',
               history'[i].token = history'[j].token, i # j
        PROVE  history'[i].token = NoToken
    BY <1>3, <1>5, <1>7, <2>1, <2>3 DEF Tokens
  <2> QED BY <1>1, <2>2, <2>3 DEF Tokens, Held
<1>11. Evidence' = Evidence BY <1>1 DEF Evidence, Surroundings
<1>12. RecordsAreTrue'
  BY <1>7, <1>11 DEF IInv, RecordsAreTrue, Shows, Authorised, HooksPassed
<1>13. EndingsAreTrue'
  BY <1>1, <1>3, <1>5, <1>7, <1>11 DEF IInv, EndingsAreTrue
<1>14. call = NoCall
  <2>1. call.phase = "idle" BY DEF RejectArguments, Idle
  <2> QED BY <2>1 DEF IInv, Types, IsCall, CallsWith, Phases
<1>15. Lifetime' BY <1>1 DEF IInv, Lifetime, Surroundings
<1> QED BY <1>1, <1>8, <1>10, <1>12, <1>13, <1>14, <1>15 DEF IInv

LEMMA EvaluateFailsStep == ASSUME IInv, EvaluateFails PROVE IInv'
<1>1. call.phase # "idle" BY DEF EvaluateFails
<1>2. ~call.changed BY <1>1, InFlight DEF EvaluateFails, Authority, Final, Attempting
<1> QED BY <1>1, <1>2, InFlight, EndsBare DEF EvaluateFails, Outcomes

LEMMA DenyStep == ASSUME IInv, Deny PROVE IInv'
<1>1. call.phase = "evaluated" BY DEF Deny
<1> QED BY <1>1, InFlight, Refuses DEF Deny, Final, Attempting

LEMMA RequestStep == ASSUME IInv, RequestApproval PROVE IInv'
<1> DEFINE g == GuardContext(call.token)
<1>1. call.phase = "evaluated" /\ call.policy = "require_approval" BY DEF RequestApproval
<1>2. /\ call \in CallsWith(Contexts) /\ Authority(call) /\ Final(call)
      /\ call # NoCall /\ ~collector.closed
  BY <1>1, InFlight
<1>3. g \in Contexts BY <1>1, InFlight, ContextType DEF IInv
<1> HIDE DEF g
<1>4. CASE /\ call' = [call EXCEPT !.phase = "asking", !.context = g]
           /\ UNCHANGED <<collector, history, Surroundings>>
  <2> DEFINE c == [call EXCEPT !.phase = "asking", !.context = g]
  <2>1. c \in CallsWith(Contexts) /\ c.phase = "asking" /\ c.token = call.token
    BY <1>2, <1>3 DEF CallsWith, Phases
  <2>2. Authority(c)
    BY <1>1, <1>2 DEF Authority, CallsWith, HooksPassed, Authorised, Attempting
  <2> HIDE DEF c
  <2>3. IsCall(c) BY <2>1 DEF IsCall
  <2>4. call' = c BY <1>4 DEF c
  <2> QED BY <1>2, <1>4, <2>1, <2>2, <2>3, <2>4, Moves
<1>5. CASE FinishRecordedError([call EXCEPT !.approval = "drift"]) /\ UNCHANGED Surroundings
  <2> DEFINE c == [call EXCEPT !.approval = "drift"]
  <2>1. /\ c \in CallsWith(Contexts) /\ c.phase = call.phase /\ c.token = call.token
        /\ c.attempts = call.attempts /\ c.changed = call.changed
        /\ c.guards = call.guards /\ c.policy = call.policy
    BY <1>2 DEF CallsWith, Approvals
  <2> HIDE DEF c
  <2>2. FinishRecordedError(c) BY <1>5 DEF c
  <2> QED BY <1>1, <1>2, <1>5, <2>1, <2>2, Refuses DEF Final, Attempting
<1> QED BY <1>4, <1>5 DEF RequestApproval, g

LEMMA EvaluateStep == ASSUME IInv, Evaluate PROVE IInv'
<1> DEFINE g == GuardContext(NoToken)
           guards == EvaluateGuards(call.action, g, None)
           reserves == guards # "max_governed_calls"
           token == IF reserves THEN NewToken ELSE NoToken
<1>1. call.phase = "prepared" /\ UNCHANGED <<history, Surroundings>>
  BY DEF Evaluate
<1>2. PICK policy \in IF guards = "passed" THEN {"allow", "deny", "require_approval"}
                      ELSE {"deny"} :
        /\ call' = [call EXCEPT !.phase = "evaluated", !.guards = guards,
                                !.policy = policy, !.expected = g.scope,
                                !.shown = g, !.context = g, !.token = token]
        /\ collector' = IF reserves THEN Reserve(NewToken) ELSE collector
  BY DEF Evaluate
<1>3. Held \in 0..MaxGovernedCalls /\ MaxGovernedCalls \in Nat
      /\ collector.reserved \in [1..Held -> BOOLEAN]
  BY Holding, GovernedAssumption DEF IInv, GovernedAssumption
<1>4. /\ g \in Contexts /\ g.count = Held /\ g.scope \in Scopes
  BY <1>3, ContextType DEF IInv, NoToken, Contexts
<1>5. /\ guards \in GuardNames \cup {"passed"} /\ guards # None
      /\ reserves <=> Held < MaxGovernedCalls
  BY <1>3, <1>4, Guards
<1>6. NewToken = Held + 1 BY DEF NewToken, Held
<1>7. policy \in Policies /\ policy # None /\ (policy # "deny" => guards = "passed")
  BY <1>2 DEF Policies, None
<1>8. /\ token \in Nat /\ token <= MaxGovernedCalls
      /\ token = NoToken <=> guards = "max_governed_calls"
      /\ reserves => token = Held + 1
  BY <1>3, <1>5, <1>6 DEF NoToken
<1>9. call # NoCall /\ IsCall(call) /\ Authority(call) /\ ~collector.closed
  BY <1>1, InFlight
<1>10. collector \in Collectors BY DEF IInv, Types
<1> DEFINE c == [call EXCEPT !.phase = "evaluated", !.guards = guards,
                             !.policy = policy, !.expected = g.scope,
                             !.shown = g, !.context = g, !.token = token]
<1>11. call' = c /\ c.token = token BY <1>2, <1>9 DEF IsCall, CallsWith
<1> HIDE DEF g, guards, token
<1>12. c \in CallsWith(Contexts) /\ c.phase = "evaluated"
  BY <1>1, <1>4, <1>5, <1>7, <1>8, <1>9 DEF IsCall, CallsWith, Phases
<1>13. Authority(c)
  BY <1>1, <1>4, <1>5, <1>7, <1>8, <1>9
     DEF Authority, IsCall, CallsWith, HooksPassed, Attempting
<1> HIDE DEF c
<1>14. /\ collector' \in Collectors /\ collector'.records = collector.records
       /\ collector'.closed = collector.closed /\ collector'.complete = collector.complete
       /\ Held' = IF reserves THEN Held + 1 ELSE Held
  <2>1. CASE reserves
    <3> DEFINE f == [t \in 1..(Held + 1) |-> IF t = Held + 1 THEN FALSE
                                             ELSE collector.reserved[t]]
    <3>1. DOMAIN collector.reserved \cup {Held + 1} = 1..(Held + 1) BY <1>3
    <3>2. collector' = [collector EXCEPT !.reserved = f]
      BY <1>2, <1>6, <1>10, <2>1, <3>1 DEF Reserve
    <3>3. f \in [1..(Held + 1) -> BOOLEAN] /\ DOMAIN f = 1..(Held + 1)
      <4>1. ASSUME NEW t \in 1..(Held + 1), t # Held + 1
            PROVE  collector.reserved[t] \in BOOLEAN
        <5>1. t \in 1..Held BY <1>3, <4>1
        <5> QED BY <1>3, <5>1
      <4> QED BY <4>1
    <3>4. Held + 1 \in 0..MaxGovernedCalls BY <1>3, <1>5, <2>1
    <3> HIDE DEF f
    <3>5. collector' \in Collectors /\ collector'.reserved = f
          /\ collector'.records = collector.records
          /\ collector'.closed = collector.closed /\ collector'.complete = collector.complete
      BY <1>10, <3>2, <3>3, <3>4 DEF Collectors
    <3>6. Held' = Held + 1 BY <1>3, <3>3, <3>5, FS_Interval DEF Held
    <3> QED BY <2>1, <3>5, <3>6
  <2>2. CASE ~reserves BY <1>2, <1>10, <2>2 DEF Held
  <2> QED BY <2>1, <2>2
<1> HIDE DEF reserves
<1>15. Tokens /\ RecordsAreTrue /\ EndingsAreTrue /\ Lifetime /\ Types BY DEF IInv
<1>16. Types' BY <1>1, <1>11, <1>12, <1>14, <1>15 DEF Types, IsCall, Surroundings
<1>17. Fresh(call)'
  <2>1. CASE reserves
    <3>1. token = Held + 1 /\ Held' = Held + 1 BY <1>8, <1>14, <2>1 DEF reserves
    <3>2. \A i \in DOMAIN history : history[i].token <= Held BY <1>9, <1>15 DEF Tokens
    <3>3. \A i \in DOMAIN history : history[i].token \in Nat
      BY <1>15, HistoryTypes DEF Endings
    <3>4. \A i \in DOMAIN history : history[i].token # Held + 1
      BY <1>3, <3>2, <3>3
    <3> QED BY <1>1, <1>3, <1>11, <3>1, <3>4 DEF Fresh
  <2>2. CASE ~reserves
    BY <1>1, <1>3, <1>8, <1>11, <1>14, <2>2 DEF Fresh, reserves, NoToken
  <2> QED BY <2>1, <2>2
<1>18. Tokens'
  <2>1. \A i \in DOMAIN history : history[i].token \in Nat
    BY <1>15, HistoryTypes DEF Endings
  <2>2. Held \in Nat /\ Held <= Held' /\ Held' \in Nat BY <1>3, <1>14
  <2>3. \A i \in DOMAIN history : history[i].token <= Held'
    BY <1>9, <1>15, <2>1, <2>2 DEF Tokens
  <2> QED BY <1>1, <1>15, <2>3 DEF Tokens
<1>19. Evidence' = Evidence BY <1>1, <1>14 DEF Evidence, Surroundings
<1>20. RecordsAreTrue'
  BY <1>1, <1>15, <1>19 DEF RecordsAreTrue, Shows, Authorised, HooksPassed
<1>21. EndingsAreTrue' BY <1>1, <1>14, <1>15, <1>19 DEF EndingsAreTrue
<1>22. Lifetime' BY <1>1, <1>9, <1>14, <1>15 DEF Lifetime, Surroundings
<1>23. Authority(call)' BY <1>11, <1>13 DEF Authority, HooksPassed, Authorised
<1> QED BY <1>16, <1>17, <1>18, <1>20, <1>21, <1>22, <1>23 DEF IInv

LEMMA AnsweredStep == ASSUME IInv, ApprovalAnswered PROVE IInv'
<1>1. call.phase = "asking" /\ UNCHANGED Surroundings BY DEF ApprovalAnswered
<1>2. PICK answer \in Answers :
         LET c == [call EXCEPT !.approval = ApprovalOutcome(answer)]
         IN  IF c.approval = "approve"
             THEN /\ call' = [c EXCEPT !.phase = "pre_hooks"]
                  /\ UNCHANGED <<collector, history>>
             ELSE FinishRecordedError(c)
  BY DEF ApprovalAnswered
<1>3. /\ call \in CallsWith(Contexts) /\ Authority(call) /\ Final(call)
      /\ call # NoCall /\ ~collector.closed
  BY <1>1, InFlight
<1>4. ApprovalOutcome(answer) \in Approvals
  BY DEF ApprovalOutcome, Answers, Approvals
<1> DEFINE c == [call EXCEPT !.approval = ApprovalOutcome(answer)]
<1>5. /\ c \in CallsWith(Contexts) /\ c.phase = "asking" /\ c.token = call.token
      /\ c.attempts = call.attempts /\ c.changed = call.changed
      /\ c.guards = call.guards /\ c.policy = call.policy
  BY <1>1, <1>3, <1>4 DEF CallsWith
<1>6. CASE c.approval = "approve"
  <2> DEFINE d == [c EXCEPT !.phase = "pre_hooks"]
  <2>1. call' = d /\ UNCHANGED <<collector, history>> BY <1>2, <1>6
  <2>2. Authority(c)
    BY <1>1, <1>3 DEF Authority, CallsWith, HooksPassed, Authorised, Attempting
  <2> HIDE DEF c
  <2>3. d \in CallsWith(Contexts) /\ d.phase = "pre_hooks" /\ d.token = call.token
    BY <1>5 DEF CallsWith, Phases
  <2>4. Authority(d)
    BY <1>5, <1>6, <2>2 DEF Authority, CallsWith, HooksPassed, Authorised, Attempting
  <2> HIDE DEF d
  <2> QED BY <1>1, <1>3, <2>1, <2>3, <2>4, Moves DEF IsCall
<1>7. CASE c.approval # "approve"
  <2>1. FinishRecordedError(c) BY <1>2, <1>7
  <2> HIDE DEF c
  <2> QED BY <1>1, <1>3, <1>5, <2>1, Refuses DEF Final, Attempting
<1> QED BY <1>6, <1>7

\* The two steps that guard the action again, with what they look at and what
\* they call the next phase.
LEMMA GuardsAgain ==
    ASSUME IInv, call.phase \in {"evaluated", "pre_hooks"}, call.guards = "passed",
           NEW phase \in {"pre_hooks", "admitted"},
           Authority([call EXCEPT !.phase = phase]),
           LET g      == GuardContext(call.token)
               guards == EvaluateGuards(call.action, g, call.expected)
           IN  IF guards = "passed"
               THEN /\ call' = [call EXCEPT !.phase = phase, !.context = g]
                    /\ UNCHANGED <<collector, history>>
               ELSE FinishRecordedError([call EXCEPT !.guards = guards,
                                                     !.policy = "deny"]),
           UNCHANGED Surroundings
    PROVE  IInv'
<1> DEFINE g == GuardContext(call.token)
           guards == EvaluateGuards(call.action, g, call.expected)
<1>1. /\ call \in CallsWith(Contexts) /\ Authority(call) /\ Final(call)
      /\ call # NoCall /\ ~collector.closed /\ call.token \in Nat /\ call.token <= Held
  BY InFlight
<1>2. call.token # NoToken BY <1>1 DEF Authority
<1>3. g \in Contexts /\ g.count < MaxGovernedCalls BY <1>1, <1>2, ContextType DEF IInv
<1>4. guards \in GuardNames \cup {"passed"} /\ guards \notin {None, "max_governed_calls"}
  BY <1>3, Guards
<1> HIDE DEF g, guards
<1>5. CASE guards = "passed"
  <2> DEFINE c == [call EXCEPT !.phase = phase, !.context = g]
  <2>1. call' = c /\ UNCHANGED <<collector, history>> BY <1>5 DEF g, guards
  <2>2. c \in CallsWith(Contexts) /\ c.phase = phase /\ c.token = call.token
    BY <1>1, <1>3 DEF CallsWith, Phases
  <2>3. Authority(c)
    BY <1>1 DEF Authority, CallsWith, HooksPassed, Authorised
  <2> HIDE DEF c
  <2> QED BY <1>1, <2>1, <2>2, <2>3, Moves DEF IsCall
<1>6. CASE guards # "passed"
  <2> DEFINE c == [call EXCEPT !.guards = guards, !.policy = "deny"]
  <2>1. FinishRecordedError(c) BY <1>6 DEF g, guards
  <2>2. /\ c \in CallsWith(Contexts) /\ c.phase = call.phase /\ c.token = call.token
        /\ c.attempts = call.attempts /\ c.changed = call.changed
        /\ c.guards = guards /\ c.policy = "deny"
    BY <1>1, <1>4 DEF CallsWith, Policies
  <2> HIDE DEF c
  <2> QED BY <1>4, <2>1, <2>2, Refuses DEF Attempting, None
<1> QED BY <1>5, <1>6

LEMMA RevalidateStep == ASSUME IInv, Revalidate PROVE IInv'
<1>1. call.phase = "evaluated" /\ call.policy = "allow" BY DEF Revalidate
<1>2. call \in CallsWith(Contexts) /\ Authority(call) /\ call.guards = "passed"
  BY <1>1, InFlight DEF Authority
<1>3. Authority([call EXCEPT !.phase = "pre_hooks"])
  BY <1>1, <1>2 DEF Authority, CallsWith, HooksPassed, Authorised, Attempting
<1> QED BY <1>1, <1>2, <1>3, GuardsAgain DEF Revalidate

LEMMA BoundaryStep == ASSUME IInv, EffectBoundary PROVE IInv'
<1>1. call.phase = "pre_hooks" /\ Len(call.pre) = Len(PreHooks) BY DEF EffectBoundary
<1>2. call \in CallsWith(Contexts) /\ Authority(call) /\ call.guards = "passed"
  BY <1>1, InFlight DEF Authority, Authorised
<1>3. Authority([call EXCEPT !.phase = "admitted"])
  BY <1>1, <1>2 DEF Authority, CallsWith, HooksPassed, Authorised, Attempting
<1> QED BY <1>1, <1>2, <1>3, GuardsAgain DEF EffectBoundary

LEMMA PreHookStep == ASSUME IInv, PreHook PROVE IInv'
<1>1. /\ call.phase = "pre_hooks" /\ Len(call.pre) < Len(PreHooks)
      /\ UNCHANGED Surroundings
  BY DEF PreHook
<1>2. PICK ok \in BOOLEAN :
         LET c == [call EXCEPT !.pre = Append(@, ok)] IN
         IF ~ok /\ PreHooks[Len(c.pre)] = "required"
         THEN FinishRecordedError(c)
         ELSE call' = c /\ UNCHANGED <<collector, history>>
  BY DEF PreHook, HookOutcomes
<1>3. /\ call \in CallsWith(Contexts) /\ Authority(call) /\ Final(call)
      /\ call # NoCall /\ ~collector.closed
  BY <1>1, InFlight
<1> DEFINE pre == Append(call.pre, ok)
           c   == [call EXCEPT !.pre = pre]
<1>4. call.pre \in Seq(BOOLEAN) BY <1>3 DEF CallsWith
<1>5. /\ pre \in Seq(BOOLEAN) /\ Len(pre) = Len(call.pre) + 1
      /\ \A h \in 1..Len(call.pre) : pre[h] = call.pre[h]
      /\ pre[Len(call.pre) + 1] = ok
  BY <1>4, AppendProperties
<1>6. Len(call.pre) \in Nat /\ Len(PreHooks) \in Nat
  BY <1>4, GovernedAssumption, LenProperties DEF GovernedAssumption
<1> HIDE DEF pre
<1>7. /\ c \in CallsWith(Contexts) /\ c.phase = "pre_hooks" /\ c.token = call.token
      /\ c.attempts = call.attempts /\ c.changed = call.changed
      /\ c.guards = call.guards /\ c.policy = call.policy /\ c.pre = pre
  BY <1>1, <1>3, <1>5 DEF CallsWith
<1>8. CASE ~ok /\ PreHooks[Len(c.pre)] = "required"
  <2>1. FinishRecordedError(c) BY <1>2, <1>8 DEF pre
  <2> HIDE DEF c
  <2> QED BY <1>1, <1>3, <1>7, <2>1, Refuses DEF Final, Attempting
<1>9. CASE ok \/ PreHooks[Len(c.pre)] # "required"
  <2>1. call' = c /\ UNCHANGED <<collector, history>> BY <1>2, <1>9 DEF pre
  <2>2. HooksPassed(c)
    BY <1>3, <1>5, <1>6, <1>7, <1>9 DEF Authority, HooksPassed
  <2>3. Authority(c)
    BY <1>1, <1>3, <1>5, <1>6, <2>2
       DEF Authority, CallsWith, Authorised, Attempting
  <2> HIDE DEF c
  <2> QED BY <1>1, <1>3, <1>7, <2>1, <2>3, Moves DEF IsCall
<1> QED BY <1>8, <1>9

LEMMA ContextFailsStep == ASSUME IInv, ContextFails PROVE IInv'
<1>1. call.phase \in {"evaluated", "pre_hooks"} /\ UNCHANGED Surroundings
  BY DEF ContextFails
<1>2. ~call.changed BY <1>1, InFlight DEF Authority, Final, Attempting
<1>3. PICK outcome \in {"error", "exception"} : EndBare(call, outcome)
  BY DEF ContextFails
<1> QED BY <1>1, <1>2, <1>3, InFlight, EndsBare DEF Outcomes

LEMMA StartStep == ASSUME IInv, StartExecutor PROVE IInv'
<1> DEFINE c == [call EXCEPT !.phase = "executing", !.attempts = 1]
<1>1. /\ call.phase = "admitted" /\ call' = c
      /\ UNCHANGED <<collector, history, Surroundings>>
  BY DEF StartExecutor
<1>2. /\ call \in CallsWith(Contexts) /\ Authority(call) /\ call # NoCall
      /\ ~collector.closed
  BY <1>1, InFlight
<1>3. c \in CallsWith(Contexts) /\ c.phase = "executing" /\ c.token = call.token
  <2>1. "executing" \in Phases /\ 1 \in 0..1 BY DEF Phases
  <2> QED BY <1>2, <2>1 DEF CallsWith
<1>4. Authority(c)
  BY <1>1, <1>2 DEF Authority, CallsWith, HooksPassed, Authorised, Attempting
<1> HIDE DEF c
<1> QED BY <1>1, <1>2, <1>3, <1>4, Moves DEF IsCall

LEMMA ReturnsStep == ASSUME IInv, ExecutorReturns PROVE IInv'
<1>1. call.phase = "executing" /\ UNCHANGED Surroundings BY DEF ExecutorReturns
<1>2. PICK kind \in {"result", "typed_error", "error"},
           changed \in BOOLEAN, blank \in BOOLEAN :
         \E effect \in IF kind = "error" THEN {"unknown"} ELSE EffectStates :
            LET c == [call EXCEPT !.effect = effect, !.changed = changed,
                                  !.blank = blank, !.failed = kind # "result"]
            IN  /\ effect = None => ~changed
                /\ IF kind = "result" /\ stopped
                   THEN ControlError(c)
                   ELSE /\ call' = [c EXCEPT !.phase = "post_hooks"]
                        /\ UNCHANGED <<collector, history>>
  BY Zenon DEF ExecutorReturns
<1>3. PICK effect \in IF kind = "error" THEN {"unknown"} ELSE EffectStates :
         LET c == [call EXCEPT !.effect = effect, !.changed = changed,
                               !.blank = blank, !.failed = kind # "result"]
         IN  /\ effect = None => ~changed
             /\ IF kind = "result" /\ stopped
                THEN ControlError(c)
                ELSE /\ call' = [c EXCEPT !.phase = "post_hooks"]
                     /\ UNCHANGED <<collector, history>>
  BY <1>2
<1> DEFINE failed == kind # "result"
           c == [call EXCEPT !.effect = effect, !.changed = changed,
                             !.blank = blank, !.failed = failed]
<1>4. /\ call \in CallsWith(Contexts) /\ Authority(call) /\ Final(call)
      /\ call # NoCall /\ ~collector.closed
  BY <1>1, InFlight
<1>5. failed \in BOOLEAN /\ effect \in EffectStates /\ (effect = None => ~changed)
  BY <1>3 DEF EffectStates
<1>6. \/ ControlError(c)
      \/ call' = [c EXCEPT !.phase = "post_hooks"] /\ UNCHANGED <<collector, history>>
  BY <1>3
<1> HIDE DEF failed
<1>7. /\ c \in CallsWith(Contexts) /\ c.phase = "executing" /\ c.token = call.token
      /\ c.guards = call.guards /\ c.policy = call.policy
      /\ c.approval = call.approval /\ c.pre = call.pre
  BY <1>1, <1>4, <1>5 DEF CallsWith
<1>8. Authority(c)
  BY <1>1, <1>4, <1>5 DEF Authority, CallsWith, HooksPassed, Authorised, Attempting
<1> HIDE DEF c
<1>9. CASE ControlError(c)
  <2>1. Final(c)
    BY <1>1, <1>4, <1>7, <1>8
       DEF Final, IsCall, Authority, HooksPassed, Authorised, Attempting
  <2> QED BY <1>1, <1>4, <1>9, <2>1, Controls
<1>10. CASE call' = [c EXCEPT !.phase = "post_hooks"] /\ UNCHANGED <<collector, history>>
  <2> DEFINE d == [c EXCEPT !.phase = "post_hooks"]
  <2>1. d \in CallsWith(Contexts) /\ d.phase = "post_hooks" /\ d.token = call.token
    BY <1>7 DEF CallsWith, Phases
  <2>2. Authority(d)
    BY <1>7, <1>8 DEF Authority, CallsWith, HooksPassed, Authorised, Attempting
  <2> HIDE DEF d
  <2>3. call' = d BY <1>10 DEF d
  <2> QED BY <1>1, <1>4, <1>10, <2>1, <2>2, <2>3, Moves DEF IsCall
<1> QED BY <1>6, <1>9, <1>10

LEMMA StoppedStep == ASSUME IInv, ExecutorStopped PROVE IInv'
<1>1. call.phase = "executing" /\ UNCHANGED Surroundings BY DEF ExecutorStopped
<1>2. PICK changed \in BOOLEAN : ControlError([call EXCEPT !.changed = changed])
  BY DEF ExecutorStopped
<1> DEFINE c == [call EXCEPT !.changed = changed]
<1>3. /\ call \in CallsWith(Contexts) /\ Authority(call) /\ Final(call) /\ call # NoCall
  BY <1>1, InFlight
<1>4. /\ c \in CallsWith(Contexts) /\ c.phase = "executing" /\ c.token = call.token
      /\ c.guards = call.guards /\ c.policy = call.policy /\ c.attempts = call.attempts
      /\ c.approval = call.approval /\ c.pre = call.pre
  BY <1>1, <1>3 DEF CallsWith
<1>5. ControlError(c) BY <1>2
<1> HIDE DEF c
<1>6. Final(c)
  BY <1>1, <1>3, <1>4
     DEF Final, IsCall, Authority, HooksPassed, Authorised, Attempting
<1> QED BY <1>1, <1>3, <1>5, <1>6, Controls

LEMMA PostHookStep == ASSUME IInv, PostHook PROVE IInv'
<1> DEFINE c == [call EXCEPT !.post = @ + 1]
<1>1. /\ call.phase = "post_hooks" /\ call' = c
      /\ UNCHANGED <<collector, history, Surroundings>>
  BY DEF PostHook
<1>2. /\ call \in CallsWith(Contexts) /\ Authority(call) /\ call # NoCall
      /\ ~collector.closed
  BY <1>1, InFlight
<1>3. c \in CallsWith(Contexts) /\ c.phase = "post_hooks" /\ c.token = call.token
  BY <1>1, <1>2 DEF CallsWith
<1>4. Authority(c)
  BY <1>1, <1>2 DEF Authority, CallsWith, HooksPassed, Authorised, Attempting
<1> HIDE DEF c
<1> QED BY <1>1, <1>2, <1>3, <1>4, Moves DEF IsCall

LEMMA ObserveStep == ASSUME IInv, Observe PROVE IInv'
<1>1. call.phase = "post_hooks" /\ UNCHANGED Surroundings BY DEF Observe
<1>2. /\ call \in CallsWith(Contexts) /\ Authority(call) /\ Final(call) /\ call # NoCall
  BY <1>1, InFlight
<1>3. call.attempts = 1 /\ call.effect \in EffectStates /\ (call.changed => call.effect # None)
  BY <1>1, <1>2 DEF Authority, CallsWith, Attempting
<1>4. CASE call.blank /\ EndBare(call, "exception")
  BY <1>1, <1>2, <1>4, EndsBare DEF Outcomes
<1>5. CASE \E outcome \in {"ok", "error"} : StoreAndEnd(call, call.effect, outcome)
  BY <1>1, <1>2, <1>3, <1>5, StoresAndEnds
<1> QED BY <1>4, <1>5 DEF Observe

LEMMA InterruptStep == ASSUME IInv, Interrupt PROVE IInv'
<1>1. call.phase # "idle" /\ UNCHANGED Surroundings BY DEF Interrupt
<1>2. PICK pre : /\ pre = call.pre \/ (call.phase = "pre_hooks" /\ pre = <<>>)
                 /\ ControlError([call EXCEPT !.pre = pre])
  BY DEF Interrupt
<1> DEFINE c == [call EXCEPT !.pre = pre]
<1>3. /\ IsCall(call) /\ Authority(call) /\ Final(call) /\ call # NoCall
  BY <1>1, InFlight
<1>4. pre \in Seq(BOOLEAN) BY <1>2, <1>3, EmptySeq DEF IsCall, CallsWith
<1>5. /\ IsCall(c) /\ c.token = call.token /\ c.attempts = call.attempts
      /\ c.guards = call.guards /\ c.policy = call.policy /\ c.changed = call.changed
      /\ c.approval = call.approval /\ c.pre = pre
  BY <1>3, <1>4 DEF IsCall, CallsWith
<1>6. ControlError(c) BY <1>2
<1> HIDE DEF c
<1>7. call.phase = "pre_hooks" => call.attempts # 1
  BY <1>3 DEF Authority, Attempting
<1>8. Final(c)
  BY <1>2, <1>3, <1>5, <1>7 DEF Final, HooksPassed, Authorised
<1> QED BY <1>1, <1>3, <1>6, <1>8, Controls

-----------------------------------------------------------------------------
(* Around the path. *)

LEMMA CloseStep == ASSUME IInv, CloseRecords PROVE IInv'
<1>1. /\ ~collector.closed /\ reported' = collector.records
      /\ collector' = [collector EXCEPT !.reserved = <<>>, !.records = <<>>,
                                        !.closed = TRUE]
      /\ UNCHANGED <<world, drifts, stopped, call, history>>
  BY DEF CloseRecords
<1>2. call = NoCall
  <2>1. call.phase = "idle" BY DEF CloseRecords, Idle
  <2> QED BY <2>1 DEF IInv, Types, IsCall, CallsWith, Phases
<1>3. reported = <<>> /\ collector \in Collectors BY <1>1 DEF IInv, Lifetime, Types
<1>4. /\ DOMAIN <<>> = 1..0 /\ <<>> \in [1..0 -> BOOLEAN] /\ <<>> \in Seq(Records)
      /\ DOMAIN <<>> = {}
  BY EmptySeq, LenProperties
<1>5. 0 \in 0..MaxGovernedCalls /\ MaxGovernedCalls \in Nat
  BY GovernedAssumption DEF GovernedAssumption
<1>6. collector' \in Collectors /\ collector'.records = <<>> /\ collector'.closed
      /\ collector'.complete = collector.complete
  BY <1>1, <1>3, <1>4, <1>5 DEF Collectors
<1>7. Evidence' = Evidence BY <1>1, <1>3, <1>4, <1>6 DEF Evidence
<1>8. Types' BY <1>1, <1>2, <1>3, <1>6 DEF IInv, Types, Collectors
<1>9. Tokens' BY <1>1, <1>6 DEF IInv, Tokens
<1>10. RecordsAreTrue'
  BY <1>1, <1>7 DEF IInv, RecordsAreTrue, Shows, Authorised, HooksPassed
<1>11. EndingsAreTrue' BY <1>1, <1>6, <1>7 DEF IInv, EndingsAreTrue
<1>12. Lifetime' BY <1>1, <1>2, <1>6 DEF Lifetime
<1> QED BY <1>1, <1>2, <1>8, <1>9, <1>10, <1>11, <1>12 DEF IInv

\* What neither the collector, a call nor its history takes part in.
LEMMA WorldMoves ==
    ASSUME IInv, world' \in Worlds, drifts' \in 0..MaxDrifts, stopped' \in BOOLEAN,
           UNCHANGED <<collector, call, history, reported>>
    PROVE  IInv'
<1> USE DEF IInv
<1>1. Types' BY DEF Types
<1>2. (call # NoCall => Authority(call) /\ Fresh(call))'
  BY DEF Authority, HooksPassed, Authorised, Fresh, Held
<1>3. Tokens' BY DEF Tokens, Held
<1>4. RecordsAreTrue' BY DEF RecordsAreTrue, Evidence, Shows, Authorised, HooksPassed
<1>5. EndingsAreTrue' BY DEF EndingsAreTrue, Evidence
<1>6. Lifetime' BY DEF Lifetime
<1> QED BY <1>1, <1>2, <1>3, <1>4, <1>5, <1>6

LEMMA StopStep == ASSUME IInv, Stop PROVE IInv'
BY WorldMoves DEF Stop, IInv, Types

LEMMA DriftStep == ASSUME IInv, Drift PROVE IInv'
<1>1. world \in Worlds /\ drifts \in 0..MaxDrifts /\ stopped \in BOOLEAN
  BY DEF IInv, Types
<1>2. drifts' \in 0..MaxDrifts
  BY <1>1, GovernedAssumption DEF Drift, GovernedAssumption
<1>3. world' \in Worlds BY <1>1 DEF Drift, Worlds
<1> QED BY <1>1, <1>2, <1>3, WorldMoves DEF Drift

-----------------------------------------------------------------------------
(* The theorems. *)

LEMMA InitIInv == Init => IInv
<1> SUFFICES ASSUME Init PROVE IInv OBVIOUS
<1>1. /\ world \in Worlds /\ drifts = 0 /\ stopped = FALSE /\ call = NoCall
      /\ collector = [reserved |-> <<>>, records |-> <<>>, complete |-> TRUE,
                      closed |-> FALSE]
      /\ history = <<>> /\ reported = <<>>
  BY DEF Init
<1>2. /\ DOMAIN <<>> = 1..0 /\ <<>> \in [1..0 -> BOOLEAN] /\ <<>> \in Seq(Records)
      /\ DOMAIN <<>> = {} /\ <<>> \in Seq(Endings)
  BY EmptySeq, LenProperties
<1>3. 0 \in 0..MaxGovernedCalls /\ 0 \in 0..MaxDrifts
  BY GovernedAssumption DEF GovernedAssumption
<1>4. collector \in Collectors BY <1>1, <1>2, <1>3 DEF Collectors
<1>5. Types BY <1>1, <1>2, <1>3, <1>4 DEF Types
<1>6. Tokens BY <1>1, <1>2 DEF Tokens
<1>7. Evidence = {} BY <1>1, <1>2 DEF Evidence
<1>8. RecordsAreTrue /\ EndingsAreTrue BY <1>1, <1>2, <1>7 DEF RecordsAreTrue, EndingsAreTrue
<1>9. Lifetime BY <1>1 DEF Lifetime
<1> QED BY <1>1, <1>5, <1>6, <1>8, <1>9 DEF IInv

LEMMA NextIInv == IInv /\ [Next]_vars => IInv'
<1>1. ASSUME IInv, Next PROVE IInv'
  BY <1>1, BeginStep, RejectStep, EvaluateStep, EvaluateFailsStep, DenyStep, RequestStep,
     AnsweredStep, RevalidateStep, PreHookStep, BoundaryStep, ContextFailsStep, StartStep,
     ReturnsStep, StoppedStep, PostHookStep, ObserveStep, InterruptStep, CloseStep,
     StopStep, DriftStep
     DEF Next
<1>2. ASSUME IInv, UNCHANGED vars PROVE IInv'
  BY <1>2, WorldMoves DEF vars, IInv, Types
<1> QED BY <1>1, <1>2

\* The inductive invariant holds in every state of a run.
THEOREM Inductive == Spec => []IInv
BY InitIInv, NextIInv, PTL DEF Spec

\* The values of calls, records and collector are of their types.
THEOREM TypeCorrect == Spec => []TypeOK
<1>1. IInv => TypeOK
  <2> SUFFICES ASSUME IInv PROVE TypeOK OBVIOUS
  <2>1. /\ world \in Worlds /\ drifts \in 0..MaxDrifts /\ stopped \in BOOLEAN
        /\ collector \in Collectors
    BY DEF IInv, Types
  <2>2. collector.complete \in BOOLEAN /\ collector.closed \in BOOLEAN
        /\ collector.records \in Seq(Records)
    BY <2>1 DEF Collectors
  <2>3. ASSUME NEW i \in DOMAIN collector.records
        PROVE  collector.records[i] \in Records
    BY <2>2, LenProperties, ElementOfSeq
  <2>4. ASSUME NEW t \in DOMAIN collector.reserved
        PROVE  collector.reserved[t] \in BOOLEAN
    BY Holding DEF IInv
  <2>5. \A i \in DOMAIN history : history[i].outcome \in Outcomes
    BY HistoryTypes DEF IInv, Endings
  <2>6. ASSUME call.phase # "idle"
        PROVE  /\ call.action \in Actions
               /\ call.attempts \in 0..1 /\ call.effect \in EffectStates
               /\ call.phase # "prepared" => call.context \in Contexts
               /\ call.phase \in Phases
    BY <2>6, InFlight DEF IsCall, CallsWith
  <2> QED BY <2>1, <2>2, <2>3, <2>4, <2>5, <2>6 DEF TypeOK, Phases, Idle
<1> QED BY <1>1, Inductive, PTL

\* Two finished calls that held a reservation never held the same one.
LEMMA OneCallPerToken ==
    ASSUME Tokens, NEW i \in DOMAIN history, NEW j \in DOMAIN history,
           history[i].token = history[j].token, history[i].token # NoToken
    PROVE  i = j
BY DEF Tokens

\* A run never makes more attempts than the collector has room for: each has a
\* token of its own, and the tokens fit.
LEMMA AttemptsFit ==
    ASSUME Types, Tokens
    PROVE  Cardinality({i \in DOMAIN history : history[i].attempts = 1}) <= MaxGovernedCalls
<1> DEFINE A == {i \in DOMAIN history : history[i].attempts = 1}
           f == [i \in A |-> history[i].token]
<1>1. MaxGovernedCalls \in Nat BY GovernedAssumption DEF GovernedAssumption
<1>2. \A i \in A : history[i].token \in 1..MaxGovernedCalls
  BY <1>1, HistoryTypes DEF Tokens, Endings, NoToken
<1>3. f \in Injection(A, 1..MaxGovernedCalls)
  <2>1. f \in [A -> 1..MaxGovernedCalls] BY <1>2
  <2>2. \A i, j \in A : f[i] = f[j] => i = j
    BY OneCallPerToken DEF Tokens
  <2> QED BY <2>1, <2>2 DEF Injection, IsInjective
<1>4. IsFiniteSet(1..MaxGovernedCalls) /\ Cardinality(1..MaxGovernedCalls) = MaxGovernedCalls
  BY <1>1, FS_Interval
<1> HIDE DEF f, A
<1>5. Cardinality(A) <= Cardinality(1..MaxGovernedCalls)
  BY <1>3, <1>4, FS_Injection
<1> QED BY <1>4, <1>5 DEF A

\* Every recorded attempt shows the authority for it, a record without attempt
\* is of a call that changed nothing, and the capacity bounds the attempts.
THEOREM EffectsAreAuthorised == Spec => []AuthorisedEffects
<1>1. IInv => AuthorisedEffects
  <2> SUFFICES ASSUME IInv PROVE AuthorisedEffects OBVIOUS
  <2>1. Types /\ Tokens /\ RecordsAreTrue /\ EndingsAreTrue BY DEF IInv
  <2>2. ASSUME NEW r \in Evidence
        PROVE  /\ r.attempts = 1 =>
                     /\ r.guards = "passed"
                     /\ \/ r.policy = "allow"
                        \/ r.policy = "require_approval" /\ r.approval = "approve"
                     /\ Len(r.pre) = Len(PreHooks)
                     /\ \A h \in DOMAIN PreHooks : PreHooks[h] = "required" => r.pre[h]
               /\ r.guards # "max_governed_calls"
    <3>1. Shows(r) BY <2>1 DEF RecordsAreTrue
    <3>2. DOMAIN PreHooks = 1..Len(PreHooks)
      BY GovernedAssumption, LenProperties DEF GovernedAssumption
    <3> QED BY <3>1, <3>2 DEF Shows, Authorised, HooksPassed
  <2>3. ASSUME NEW r \in Evidence, r.attempts = 0,
               NEW i \in DOMAIN history, history[i].token = r.token
        PROVE  ~history[i].changed
    <3>1. PICK j \in DOMAIN history :
             history[j].token = r.token /\ history[j].attempts = r.attempts
      BY <2>1 DEF RecordsAreTrue
    <3>2. r \in Records
      <4>1. collector.records \in Seq(Records) /\ reported \in Seq(Records)
        BY <2>1 DEF Types, Collectors
      <4> QED BY <4>1, LenProperties, ElementOfSeq DEF Evidence
    <3>3. i = j
      BY <2>1, <2>3, <3>1, <3>2, OneCallPerToken DEF Records, NoToken
    <3> QED BY <2>1, <2>3, <3>1, <3>3 DEF EndingsAreTrue
  <2> QED BY <2>1, <2>2, <2>3, AttemptsFit DEF AuthorisedEffects
<1> QED BY <1>1, Inductive, PTL

\* No call that changed something and had a valid diagnostic is missing from
\* the evidence, unless the run knows its records are incomplete.
THEOREM EffectsAreAccounted == Spec => []EffectsAccounted
<1>1. IInv => EffectsAccounted
  <2> SUFFICES ASSUME IInv PROVE EffectsAccounted OBVIOUS
  <2>1. Tokens /\ EndingsAreTrue BY DEF IInv
  <2> QED BY <2>1, OneCallPerToken DEF EffectsAccounted, EndingsAreTrue
<1> QED BY <1>1, Inductive, PTL

\* Only the effect boundary admits a call, and it looks at the live world.
THEOREM EffectsAreFresh == Spec => NoStaleEffect
<1> DEFINE Fits == /\ world.scope = call.shown.scope
                   /\ world.contained
                   /\ call.action.sees \in {None, world.content}
                   /\ call.action.needs \subseteq world.offers
           Admits == call'.phase = "admitted" /\ call.phase # "admitted"
<1>1. ASSUME IInv, EffectBoundary, call'.phase = "admitted" PROVE Fits
  <2> DEFINE g == GuardContext(call.token)
             guards == EvaluateGuards(call.action, g, call.expected)
  <2>1. call.phase = "pre_hooks" BY <1>1 DEF EffectBoundary
  <2>2. /\ call \in CallsWith(Contexts) /\ Authority(call)
        /\ call.token \in Nat /\ call.token <= Held
    BY <1>1, <2>1, InFlight
  <2>3. guards = "passed"
    <3>1. guards = "passed"
             \/ FinishRecordedError([call EXCEPT !.guards = guards, !.policy = "deny"])
      BY <1>1 DEF EffectBoundary
    <3>2. FinishRecordedError([call EXCEPT !.guards = guards, !.policy = "deny"])
            => call' = NoCall
      BY DEF FinishRecordedError, StoreAndEnd, EndBare, End
    <3> HIDE DEF guards
    <3> QED BY <1>1, <3>1, <3>2 DEF NoCall
  <2>4. /\ call.expected = None \/ g.scope = call.expected
        /\ world.contained
        /\ call.action.sees = None \/ call.action.sees = g.content
        /\ call.action.needs \subseteq g.offers
    BY <2>3, Guards
  <2>5. g.scope = world.scope /\ g.content = world.content /\ g.offers = world.offers
    BY <1>1, <2>2, ContextType DEF IInv
  <2>6. call.expected = call.shown.scope /\ call.shown.scope \in Scopes
    BY <2>1, <2>2 DEF Authority, CallsWith, Contexts
  <2>7. call.expected # None
    BY <2>6, GovernedAssumption DEF GovernedAssumption, None
  <2> QED BY <2>4, <2>5, <2>6, <2>7
<1>2. ASSUME IInv, Next, Admits PROVE EffectBoundary
  <2>1. \A c, e, o : StoreAndEnd(c, e, o) => call' = NoCall
    BY DEF StoreAndEnd, EndBare, End
  <2>2. \A c : (FinishRecordedError(c) \/ ControlError(c)) => call' = NoCall
    BY <2>1 DEF FinishRecordedError, ControlError, EndBare, End
  <2>3. call' # NoCall BY <1>2 DEF NoCall
  <2>4. call.phase # "idle" => IsCall(call) BY <1>2, InFlight
  <2>5. CASE Begin BY <1>2, <2>5 DEF Begin
  <2>6. CASE RejectArguments \/ CloseRecords \/ Stop \/ Drift
    BY <1>2, <2>6 DEF RejectArguments, CloseRecords, Stop, Drift
  <2>7. CASE EvaluateFails \/ Deny \/ ContextFails \/ ExecutorStopped \/ Interrupt \/ Observe
    BY <2>1, <2>2, <2>3, <2>7
       DEF EvaluateFails, Deny, ContextFails, ExecutorStopped, Interrupt, Observe, EndBare, End
  <2>8. CASE Evaluate
    BY <1>2, <2>4, <2>8 DEF Evaluate, IsCall, CallsWith
  <2>9. CASE RequestApproval
    BY <1>2, <2>2, <2>3, <2>4, <2>9 DEF RequestApproval, IsCall, CallsWith
  <2>10. CASE ApprovalAnswered
    BY <1>2, <2>2, <2>3, <2>4, <2>10 DEF ApprovalAnswered, IsCall, CallsWith
  <2>11. CASE Revalidate
    BY <1>2, <2>2, <2>3, <2>4, <2>11 DEF Revalidate, IsCall, CallsWith
  <2>12. CASE PreHook
    BY <1>2, <2>2, <2>3, <2>4, <2>12 DEF PreHook, IsCall, CallsWith
  <2>13. CASE StartExecutor \/ PostHook
    BY <1>2, <2>4, <2>13 DEF StartExecutor, PostHook, IsCall, CallsWith
  <2>14. CASE ExecutorReturns
    BY <1>2, <2>2, <2>3, <2>4, <2>14 DEF ExecutorReturns, IsCall, CallsWith
  <2> QED BY <1>2, <2>5, <2>6, <2>7, <2>8, <2>9, <2>10, <2>11, <2>12, <2>13, <2>14 DEF Next
<1>3. IInv /\ [Next]_vars => [Admits => Fits]_vars
  BY <1>1, <1>2
<1> QED BY <1>3, Inductive, PTL DEF Spec, NoStaleEffect
=============================================================================
