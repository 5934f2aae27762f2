-------------------------------- MODULE Memory --------------------------------
(***************************************************************************)
(* Long-term memory of one scope: MemoryService (memory_service.py) with   *)
(* its consolidation and policy, over a MemoryStore (memory_store.py).     *)
(*                                                                         *)
(* Clients run one operation at a time, concurrently with each other, in   *)
(* three steps: read the clock (and assess the candidate), load the        *)
(* scope's snapshot and decide on a change set, apply the change set at    *)
(* the revision of that snapshot.  The store's apply is one transaction    *)
(* (a lock in the process, BEGIN IMMEDIATE in SQLite).  The clock is the   *)
(* wall clock: it may stand still between operations, and may be set back. *)
(* A client may crash, and its store may fail, at any step.                *)
(*                                                                         *)
(* Scopes share nothing, so one is enough.  A topic stands for the pair of *)
(* kind and topic.  recall and show without expiry materialization write   *)
(* nothing: what recall may return is the operator Recallable.             *)
(***************************************************************************)
EXTENDS Naturals, FiniteSets

CONSTANTS
    Clients,      \* callers of MemoryService
    Ids,          \* what the ID factory may return
    NoId,         \* supersedes_id None
    Topics,       \* (kind, topic) keys
    Contents,     \* contents of propositions
    Sensitive,    \* the contents admission denies
    Candidates,   \* the candidates clients may confirm
    MaxTime,      \* bound: the last clock value
    MaxSetBacks,  \* bound: how often the clock is set back
    MaxRevision   \* bound: no operation begins at this scope revision

Never == 0                          \* expires_at None; the clock starts at 1

\* What the constructor of MemoryCandidate accepts.
Candidate ==
    {c \in [topic : Topics, content : Contents, from : Nat, expires : Nat] :
        c.expires = Never \/ c.expires > c.from}

ASSUME MemoryAssumption ==
    /\ NoId \notin Ids
    /\ Sensitive \subseteq Contents
    /\ Candidates \subseteq Candidate
    /\ MaxTime \in Nat \ {0}
    /\ MaxSetBacks \in Nat
    /\ MaxRevision \in Nat

VARIABLES
    store,      \* the committed snapshot: revision, records, tombstones
    clock,      \* what clock() returns
    setbacks,   \* how often the clock was set back
    op          \* op[p]: the operation client p is in, or Idle

vars == <<store, clock, setbacks, op>>

\* What the constructor of MemoryRecord accepts.
Record ==
    {r \in [topic : Topics, content : Contents, from : Nat, expires : Nat,
            status : {"active", "superseded", "expired"}, revision : Nat \ {0},
            supersedes : Ids \cup {NoId}, created : Nat, updated : Nat] :
        /\ r.created <= r.updated
        /\ r.status = "expired" => r.expires # Never /\ r.expires <= r.updated}
Tombstone == [revision : Nat \ {0}, forgotten : Nat]
NoRecord == [status |-> "none"]
NoTombstone == [revision |-> 0]

Snapshot == [revision : Nat,
             records : [Ids -> Record \cup {NoRecord}],
             tombstones : [Ids -> Tombstone \cup {NoTombstone}]]

Change ==
    [type : {"add", "refresh", "expire"}, id : Ids, record : Record]
    \cup [type : {"supersede"}, id : Ids, record : Record,
          newid : Ids, replacement : Record]
    \cup [type : {"forget"}, id : Ids, tombstone : Tombstone]

Idle == [phase |-> "idle"]
Begun ==
    [phase : {"begun"}, call : {"confirm"}, now : Nat, candidate : Candidates]
    \cup [phase : {"begun"}, call : {"correct"}, now : Nat,
          id : Ids, candidate : Candidates]
    \cup [phase : {"begun"}, call : {"inspect"}, now : Nat]
    \cup [phase : {"begun"}, call : {"forget"}, now : Nat, id : Ids]
Decided == [phase : {"decided"}, expected : Nat, changes : SUBSET Change]

\* Every variable has the shape its Python counterpart has.
TypeOK ==
    /\ store \in Snapshot
    /\ clock \in Nat
    /\ setbacks \in Nat
    /\ op \in [Clients -> {Idle} \cup Begun \cup Decided]

-----------------------------------------------------------------------------
(***************************************************************************)
(* The store: validation and application of a change set.                  *)
(***************************************************************************)

IsRecord(s, i) == s.records[i] # NoRecord
Taken(s, i)    == IsRecord(s, i) \/ s.tombstones[i] # NoTombstone
IsActive(s, i) == s.records[i].status = "active"

\* The IDs a change claims: no ID is changed twice in one change set.
Claims(ch) == IF ch.type = "supersede" THEN {ch.id, ch.newid} ELSE {ch.id}

\* A change of status and of nothing but status, revision and update time.
LifecycleStep(old, new, status) ==
    new = [old EXCEPT !.status = status, !.revision = @ + 1, !.updated = new.updated]

FirstRevision(r) == r.revision = 1 /\ r.status = "active"

AddAllowed(s, ch) ==
    /\ ~Taken(s, ch.id)
    /\ FirstRevision(ch.record)
    /\ ch.record.supersedes = NoId

RefreshAllowed(s, ch) ==
    LET old == s.records[ch.id] IN
    /\ IsActive(s, ch.id)
    /\ ch.record.status = "active"
    /\ ch.record.revision = old.revision + 1
    /\ ch.record.topic = old.topic
    /\ ch.record.content = old.content
    /\ ch.record.supersedes = old.supersedes
    /\ ch.record.created = old.created
    /\ ch.record.updated > old.updated

SupersedeAllowed(s, ch) ==
    LET old == s.records[ch.id] IN
    /\ ch.id # ch.newid
    /\ IsActive(s, ch.id)
    /\ LifecycleStep(old, ch.record, "superseded")
    /\ ch.record.updated > old.updated
    /\ ~Taken(s, ch.newid)
    /\ FirstRevision(ch.replacement)
    /\ ch.replacement.supersedes = ch.id
    /\ ch.replacement.topic = old.topic
    /\ ch.replacement.created = ch.record.updated

ExpireAllowed(s, ch) ==
    /\ IsActive(s, ch.id)
    /\ LifecycleStep(s.records[ch.id], ch.record, "expired")
    /\ ch.record.updated > s.records[ch.id].updated

ForgetAllowed(s, ch) ==
    /\ IsRecord(s, ch.id)
    /\ ch.tombstone.revision = s.records[ch.id].revision
    /\ ch.tombstone.forgotten >= s.records[ch.id].updated

ChangeAllowed(s, ch) ==
    \/ ch.type = "add" /\ AddAllowed(s, ch)
    \/ ch.type = "refresh" /\ RefreshAllowed(s, ch)
    \/ ch.type = "supersede" /\ SupersedeAllowed(s, ch)
    \/ ch.type = "expire" /\ ExpireAllowed(s, ch)
    \/ ch.type = "forget" /\ ForgetAllowed(s, ch)

\* Mutant: forgetting leaves no tombstone behind.
TombstonesLost(s, C) == s.tombstones

\* The tombstones after the changes C.
Tombstones(s, C) ==
    [i \in Ids |-> IF \E ch \in C : ch.type = "forget" /\ ch.id = i
                   THEN (CHOOSE ch \in C : ch.type = "forget" /\ ch.id = i).tombstone
                   ELSE s.tombstones[i]]

\* The records C writes under i: one at most, as C claims i once at most.
Written(C, i) ==
    {ch.record : ch \in {c \in C : c.type # "forget" /\ c.id = i}}
    \cup {ch.replacement : ch \in {c \in C : c.type = "supersede" /\ c.newid = i}}

\* The records after the changes C.
Records(s, C) ==
    [i \in Ids |-> IF \E ch \in C : ch.type = "forget" /\ ch.id = i THEN NoRecord
                   ELSE IF Written(C, i) # {} THEN CHOOSE r \in Written(C, i) : TRUE
                   ELSE s.records[i]]

ApplyTo(s, C) == [revision   |-> s.revision + 1,
                  records    |-> Records(s, C),
                  tombstones |-> Tombstones(s, C)]

\* The invariants every snapshot is constructed under.
ValidSnapshot(s) ==
    /\ \A i, j \in Ids :
          /\ IsActive(s, i) /\ IsActive(s, j)
          /\ s.records[i].topic = s.records[j].topic
          => i = j
    /\ \A i \in Ids : ~(IsRecord(s, i) /\ s.tombstones[i] # NoTombstone)

\* Changes to distinct IDs commute, so a change set is a set: either all of
\* it is applied, or the transaction is rolled back.
ChangesAllowed(s, C) ==
    /\ C # {}
    /\ \A ch \in C : ChangeAllowed(s, ch)
    /\ \A ch, other \in C : ch # other => Claims(ch) \cap Claims(other) = {}
    /\ ValidSnapshot(ApplyTo(s, C))

-----------------------------------------------------------------------------
(***************************************************************************)
(* The service: admission, consolidation, and the change set of each       *)
(* operation.  An operation that is refused decides on nothing: {}.        *)
(***************************************************************************)

\* Mutant: the candidate's expiry is not looked at again.
AdmittedWithoutExpiry(c, now) == c.content \notin Sensitive

Admitted(c, now) ==
    /\ c.content \notin Sensitive
    /\ c.expires = Never \/ c.expires > now

\* Mutant: a record is expired one tick too early.
DueTooSoon(r, now) == r.status = "active" /\ r.expires # Never /\ r.expires <= now + 1

Due(r, now) == r.status = "active" /\ r.expires # Never /\ r.expires <= now

FromCandidate(c, revision, created, now, supersedes) ==
    [topic |-> c.topic, content |-> c.content, from |-> c.from,
     expires |-> c.expires, status |-> "active", revision |-> revision,
     supersedes |-> supersedes, created |-> created, updated |-> now]

Retired(r, status, now) ==
    [r EXCEPT !.status = status, !.revision = @ + 1, !.updated = now]

AddMemory(c, now, i) ==
    [type |-> "add", id |-> i, record |-> FromCandidate(c, 1, now, now, NoId)]

ExpireMemory(s, i, now) ==
    [type |-> "expire", id |-> i, record |-> Retired(s.records[i], "expired", now)]

RefreshMemory(s, c, i, now) ==
    [type |-> "refresh", id |-> i,
     record |-> FromCandidate(c, s.records[i].revision + 1, s.records[i].created,
                              now, s.records[i].supersedes)]

\* The active record that stands where the candidate would.
Existing(s, c) == {i \in Ids : IsActive(s, i) /\ s.records[i].topic = c.topic}

\* Mutant: a duplicate is refreshed without looking at the clock.
ConsolidateIgnoringClock(s, c, now, i, e) ==
    IF Due(s.records[e], now) THEN {ExpireMemory(s, e, now), AddMemory(c, now, i)}
    ELSE IF s.records[e].content = c.content THEN {RefreshMemory(s, c, e, now)}
    ELSE {}

\* The candidate meets the active record e of its topic: one whose time is
\* over expires and makes room, the same content is refreshed, and another is
\* a conflict; the clock has to be past the last update of e.
Consolidate(s, c, now, i, e) ==
    IF now <= s.records[e].updated THEN {}
    ELSE IF Due(s.records[e], now) THEN {ExpireMemory(s, e, now), AddMemory(c, now, i)}
    ELSE IF s.records[e].content = c.content THEN {RefreshMemory(s, c, e, now)}
    ELSE {}

\* confirm, with i the ID that the factory gives if one is needed.
ConfirmChanges(s, c, now, i) ==
    IF Existing(s, c) = {} THEN {AddMemory(c, now, i)}
    ELSE Consolidate(s, c, now, i, CHOOSE e \in Existing(s, c) : TRUE)

\* correct: supersede the explicit target k by the candidate, under the new ID i.
CorrectChanges(s, c, now, k, i) ==
    LET r == s.records[k] IN
    IF /\ IsActive(s, k) /\ ~Due(r, now)
       /\ r.topic = c.topic
       /\ now > r.updated
       /\ ~Taken(s, i)
    THEN {[type |-> "supersede", id |-> k, record |-> Retired(r, "superseded", now),
           newid |-> i, replacement |-> FromCandidate(c, 1, now, now, k)]}
    ELSE {}

\* forget: a tombstone for k, unless the clock is behind its last update.
ForgetChanges(s, now, k) ==
    IF IsRecord(s, k) /\ now >= s.records[k].updated
    THEN {[type |-> "forget", id |-> k,
           tombstone |-> [revision |-> s.records[k].revision, forgotten |-> now]]}
    ELSE {}

\* list and show: expire all that is due, or fail when the clock is behind.
InspectChanges(s, now) ==
    LET due == {i \in Ids : Due(s.records[i], now)} IN
    IF \A i \in due : now > s.records[i].updated
    THEN {ExpireMemory(s, i, now) : i \in due}
    ELSE {}

\* Mutant: recall looks at times only.
RecallableByTime(s, now) ==
    {i \in Ids : /\ IsRecord(s, i)
                 /\ s.records[i].from <= now
                 /\ s.records[i].expires = Never \/ s.records[i].expires > now}

\* Mutant: a record is still recalled at the very moment it expires.
RecallableAtExpiry(s, now) ==
    {i \in Ids : /\ IsActive(s, i)
                 /\ s.records[i].from <= now
                 /\ s.records[i].expires = Never \/ s.records[i].expires >= now}

\* What recall may return at `now`; the selection by score and budget and
\* the request's allowed kinds only make it smaller.
Recallable(s, now) ==
    {i \in Ids : /\ IsActive(s, i)
                 /\ s.records[i].content \notin Sensitive
                 /\ s.records[i].from <= now
                 /\ s.records[i].expires = Never \/ s.records[i].expires > now}

-----------------------------------------------------------------------------
Init ==
    /\ store = [revision |-> 0,
                records |-> [i \in Ids |-> NoRecord],
                tombstones |-> [i \in Ids |-> NoTombstone]]
    /\ clock = 1
    /\ setbacks = 0
    /\ op = [p \in Clients |-> Idle]

Begin(p, request) ==
    /\ op[p] = Idle
    /\ store.revision < MaxRevision
    /\ op' = [op EXCEPT ![p] = request]
    /\ UNCHANGED <<store, clock, setbacks>>

\* The candidate may have been previewed at any time before; it is assessed
\* again.  One that is denied, or whose digest is not the previewed one, is
\* refused here, and nothing happens.
BeginConfirm(p) ==
    \E c \in Candidates :
        /\ Admitted(c, clock)
        /\ Begin(p, [phase |-> "begun", call |-> "confirm", now |-> clock,
                     candidate |-> c])

BeginCorrect(p) ==
    \E c \in Candidates, k \in Ids :
        /\ Admitted(c, clock)
        /\ Begin(p, [phase |-> "begun", call |-> "correct", now |-> clock,
                     id |-> k, candidate |-> c])

BeginInspect(p) ==
    Begin(p, [phase |-> "begun", call |-> "inspect", now |-> clock])

BeginForget(p) ==
    \E k \in Ids :
        Begin(p, [phase |-> "begun", call |-> "forget", now |-> clock, id |-> k])

\* The snapshot is loaded and the change set decided; with nothing to change
\* the operation returns, or raises.
Load(p, call, C) ==
    /\ op[p].phase = "begun"
    /\ op[p].call = call
    /\ op' = [op EXCEPT ![p] =
                 IF C = {} THEN Idle
                 ELSE [phase |-> "decided", expected |-> store.revision, changes |-> C]]
    /\ UNCHANGED <<store, clock, setbacks>>

\* The ID factory may return any ID, one in use included.
LoadConfirm(p) ==
    \E i \in Ids :
        Load(p, "confirm", ConfirmChanges(store, op[p].candidate, op[p].now, i))

LoadCorrect(p) ==
    \E i \in Ids :
        Load(p, "correct", CorrectChanges(store, op[p].candidate, op[p].now, op[p].id, i))

LoadInspect(p) ==
    Load(p, "inspect", InspectChanges(store, op[p].now))

LoadForget(p) ==
    Load(p, "forget", ForgetChanges(store, op[p].now, op[p].id))

\* The transaction: a stale revision or a change set that the store finds
\* corrupt is rolled back as a whole.
Apply(p) ==
    /\ op[p].phase = "decided"
    /\ \/ /\ op[p].expected = store.revision
          /\ ChangesAllowed(store, op[p].changes)
          /\ store' = ApplyTo(store, op[p].changes)
       \/ /\ \/ op[p].expected # store.revision
             \/ ~ChangesAllowed(store, op[p].changes)
          /\ UNCHANGED store
    /\ op' = [op EXCEPT ![p] = Idle]
    /\ UNCHANGED <<clock, setbacks>>

\* The client crashes, or its database, clock, policy or ID factory fails.
Abandon(p) ==
    /\ op[p] # Idle
    /\ op' = [op EXCEPT ![p] = Idle]
    /\ UNCHANGED <<store, clock, setbacks>>

Tick ==
    /\ clock < MaxTime
    /\ clock' = clock + 1
    /\ UNCHANGED <<store, setbacks, op>>

SetBack ==
    /\ setbacks < MaxSetBacks
    /\ setbacks' = setbacks + 1
    /\ clock' \in 1..(clock - 1)
    /\ UNCHANGED <<store, op>>

Next ==
    \/ \E p \in Clients :
          \/ BeginConfirm(p) \/ BeginCorrect(p) \/ BeginInspect(p) \/ BeginForget(p)
          \/ LoadConfirm(p) \/ LoadCorrect(p) \/ LoadInspect(p) \/ LoadForget(p)
          \/ Apply(p) \/ Abandon(p)
    \/ Tick
    \/ SetBack

Spec == Init /\ [][Next]_vars

-----------------------------------------------------------------------------
(* Properties. *)

\* What the service decides is sound for the store: a change set decided on
\* the current revision is never found corrupt, unless the ID factory gave an
\* ID in use.  So the store answers a client that lost a race with a conflict,
\* and never with MemoryCorruptChangeError or a snapshot it cannot construct
\* (the clock checks of memory_service.py 679, 1055 and 1071 against the
\* validation of memory_store.py 720 to 910).
SoundDecisions ==
    \A p \in Clients :
        op[p].phase = "decided" /\ op[p].expected = store.revision =>
            \/ ChangesAllowed(store, op[p].changes)
            \/ \E ch \in op[p].changes : ch.type = "add" /\ Taken(store, ch.id)

\* Inspection is never blocked: whatever clock list or show have read, and
\* even if it has been set back, a record that is due was updated before, so
\* that its expiry, and with it every other record of the scope, can be
\* written and shown (memory_service.py 841 and 1059).
InspectionNotBlocked ==
    \A now \in 0..MaxTime, i \in Ids :
        Due(store.records[i], now) => now > store.records[i].updated

\* Whenever a caller has read its clock, and however far the clock has been
\* set back: recall never offers two propositions of a topic, nor one that
\* has been corrected (the filters of memory_service.py 858 and 1222).
RecallIsUnambiguous ==
    \A now \in 0..MaxTime : \A i \in Recallable(store, now) :
        /\ \A j \in Recallable(store, now) :
              store.records[i].topic = store.records[j].topic => i = j
        /\ \A k \in Ids : ~(IsRecord(store, k) /\ store.records[k].supersedes = i)

\* Inspection looks like a read: the expiry that list and show write changes
\* nothing that a recall may return from that time on (memory_service.py 1042
\* against 1240).
ExpiryIsInvisible ==
    [][\A p \in Clients :
          /\ op[p].phase = "decided" /\ store' # store /\ op'[p] # op[p]
          /\ \A ch \in op[p].changes : ch.type = "expire"
          => \A ch \in op[p].changes : \A now \in ch.record.updated..MaxTime :
                 Recallable(store', now) = Recallable(store, now)]_vars

\* The scope is a lifecycle of propositions: see MemoryLifecycle.
Ledger ==
    [i \in Ids |->
        CASE IsRecord(store, i) ->
               [state |-> store.records[i].status, topic |-> store.records[i].topic,
                content |-> store.records[i].content,
                replaces |-> store.records[i].supersedes]
          [] ~IsRecord(store, i) /\ store.tombstones[i] # NoTombstone ->
               [state |-> "forgotten"]
          [] OTHER -> [state |-> "absent"]]

Lifecycle == INSTANCE MemoryLifecycle WITH ledger <- Ledger

\* memory_service.py and memory_store.py implement the lifecycle.
ImplementsLifecycle == Lifecycle!LSpec
=============================================================================
