----------------------------- MODULE MemoryProofs -----------------------------
(***************************************************************************)
(* Proofs about Memory for every set of clients, IDs, topics and           *)
(* candidates, every clock and every number of steps.                      *)
(***************************************************************************)
EXTENDS Memory, TLAPS

-----------------------------------------------------------------------------
(* Types of the operators *)

LEMMA CandidateTypes ==
    ASSUME NEW c \in Candidates
    PROVE  /\ c.topic \in Topics /\ c.content \in Contents
           /\ c.from \in Nat /\ c.expires \in Nat
BY MemoryAssumption DEF MemoryAssumption, Candidate

LEMMA RecordTypes ==
    ASSUME NEW r \in Record
    PROVE  /\ r.topic \in Topics /\ r.content \in Contents
           /\ r.from \in Nat /\ r.expires \in Nat
           /\ r.status \in {"active", "superseded", "expired"}
           /\ r.revision \in Nat \ {0} /\ r.supersedes \in Ids \cup {NoId}
           /\ r.created \in Nat /\ r.updated \in Nat
           /\ r.created <= r.updated
           /\ r # NoRecord
BY DEF Record, NoRecord

LEMMA SnapshotTypes ==
    ASSUME NEW s \in Snapshot, NEW i \in Ids
    PROVE  /\ s.revision \in Nat
           /\ s.records[i] \in Record \cup {NoRecord}
           /\ IsRecord(s, i) => s.records[i] \in Record
           /\ IsActive(s, i) => IsRecord(s, i) /\ s.records[i] \in Record
           /\ s.tombstones[i] \in Tombstone \cup {NoTombstone}
BY DEF Snapshot, IsRecord, IsActive, NoRecord

LEMMA FromCandidateType ==
    ASSUME NEW c \in Candidates, NEW v \in Nat \ {0}, NEW created \in Nat,
           NEW now \in Nat, created <= now, NEW j \in Ids \cup {NoId}
    PROVE  FromCandidate(c, v, created, now, j) \in Record
BY CandidateTypes DEF FromCandidate, Record

LEMMA RetiredType ==
    ASSUME NEW r \in Record, NEW now \in Nat, r.updated <= now,
           NEW st \in {"superseded", "expired"},
           st = "expired" => r.expires # Never /\ r.expires <= now
    PROVE  Retired(r, st, now) \in Record
<1>1. r \in [topic : Topics, content : Contents, from : Nat, expires : Nat,
             status : {"active", "superseded", "expired"}, revision : Nat \ {0},
             supersedes : Ids \cup {NoId}, created : Nat, updated : Nat]
  BY DEF Record
<1> DEFINE new == Retired(r, st, now)
<1>3. r.revision + 1 \in Nat \ {0} /\ r.created <= now
  BY RecordTypes
<1>4. new \in [topic : Topics, content : Contents, from : Nat, expires : Nat,
              status : {"active", "superseded", "expired"}, revision : Nat \ {0},
              supersedes : Ids \cup {NoId}, created : Nat, updated : Nat]
  BY <1>1, <1>3 DEF Retired
<1>5. new.status = st /\ new.expires = r.expires /\ new.created = r.created
      /\ new.updated = now
  BY <1>1 DEF Retired
<1> QED BY <1>3, <1>4, <1>5 DEF Record

LEMMA ChangeTypes ==
    ASSUME NEW ch \in Change
    PROVE  /\ ch.type \in {"add", "refresh", "expire", "supersede", "forget"}
           /\ ch.id \in Ids
           /\ ch.type # "forget" => ch.record \in Record
           /\ ch.type = "supersede" => ch.newid \in Ids /\ ch.replacement \in Record
           /\ ch.type = "forget" => ch.tombstone \in Tombstone
BY DEF Change

LEMMA ExpireType ==
    ASSUME NEW s \in Snapshot, NEW i \in Ids, NEW now \in Nat,
           Due(s.records[i], now), now > s.records[i].updated
    PROVE  /\ ExpireMemory(s, i, now) \in Change
           /\ s.records[i] \in Record
<1>1. s.records[i] \in Record BY SnapshotTypes DEF Due, IsActive
<1>2. Retired(s.records[i], "expired", now) \in Record
  BY <1>1, RetiredType, RecordTypes DEF Due
<1> QED BY <1>1, <1>2 DEF ExpireMemory, Change

LEMMA ConfirmType ==
    ASSUME NEW s \in Snapshot, NEW c \in Candidates, NEW now \in Nat, NEW i \in Ids
    PROVE  ConfirmChanges(s, c, now, i) \in SUBSET Change
<1>1. AddMemory(c, now, i) \in Change
  BY FromCandidateType DEF AddMemory, Change
<1>2. ASSUME NEW e \in Existing(s, c)
      PROVE  Consolidate(s, c, now, i, e) \in SUBSET Change
  <2> DEFINE r == s.records[e]
  <2>1. e \in Ids /\ IsActive(s, e) BY DEF Existing
  <2>2. r \in Record BY <2>1, SnapshotTypes
  <2>3. CASE now <= r.updated
    BY <2>3 DEF Consolidate
  <2>4. CASE now > r.updated
    <3>1. Due(r, now) => ExpireMemory(s, e, now) \in Change
      BY <2>1, <2>4, ExpireType
    <3>2. /\ r.revision + 1 \in Nat \ {0} /\ r.supersedes \in Ids \cup {NoId}
          /\ r.created \in Nat /\ r.created <= now
      BY <2>2, <2>4, RecordTypes
    <3>3. FromCandidate(c, r.revision + 1, r.created, now, r.supersedes) \in Record
      BY <3>2, FromCandidateType
    <3>4. RefreshMemory(s, c, e, now) \in Change
      BY <2>1, <3>3 DEF RefreshMemory, Change
    <3> QED BY <1>1, <3>1, <3>4 DEF Consolidate
  <2> QED BY <2>2, <2>3, <2>4, RecordTypes
<1> QED BY <1>1, <1>2 DEF ConfirmChanges

LEMMA CorrectType ==
    ASSUME NEW s \in Snapshot, NEW c \in Candidates, NEW now \in Nat,
           NEW k \in Ids, NEW i \in Ids
    PROVE  CorrectChanges(s, c, now, k, i) \in SUBSET Change
<1> DEFINE r == s.records[k]
<1>1. CASE IsActive(s, k) /\ now > r.updated
  <2>1. r \in Record BY <1>1, SnapshotTypes
  <2>2. Retired(r, "superseded", now) \in Record
    BY <1>1, <2>1, RetiredType, RecordTypes
  <2>3. FromCandidate(c, 1, now, now, k) \in Record BY FromCandidateType
  <2> QED BY <2>2, <2>3 DEF CorrectChanges, Change
<1>2. CASE ~(IsActive(s, k) /\ now > r.updated)
  BY <1>2 DEF CorrectChanges
<1> QED BY <1>1, <1>2

LEMMA ForgetType ==
    ASSUME NEW s \in Snapshot, NEW now \in Nat, NEW k \in Ids
    PROVE  ForgetChanges(s, now, k) \in SUBSET Change
<1>1. CASE IsRecord(s, k)
  <2>1. s.records[k].revision \in Nat \ {0} BY <1>1, SnapshotTypes, RecordTypes
  <2> QED BY <2>1 DEF ForgetChanges, Change, Tombstone
<1>2. CASE ~IsRecord(s, k)
  BY <1>2 DEF ForgetChanges
<1> QED BY <1>1, <1>2

LEMMA InspectType ==
    ASSUME NEW s \in Snapshot, NEW now \in Nat
    PROVE  InspectChanges(s, now) \in SUBSET Change
BY ExpireType DEF InspectChanges

LEMMA WrittenType ==
    ASSUME NEW C \in SUBSET Change, NEW i \in Ids
    PROVE  Written(C, i) \subseteq Record
BY ChangeTypes DEF Written

LEMMA ApplyToType ==
    ASSUME NEW s \in Snapshot, NEW C \in SUBSET Change
    PROVE  ApplyTo(s, C) \in Snapshot
<1>1. Records(s, C) \in [Ids -> Record \cup {NoRecord}]
  BY SnapshotTypes, WrittenType DEF Records
<1>2. Tombstones(s, C) \in [Ids -> Tombstone \cup {NoTombstone}]
  BY SnapshotTypes, ChangeTypes DEF Tombstones
<1>3. s.revision + 1 \in Nat BY DEF Snapshot
<1> QED BY <1>1, <1>2, <1>3 DEF ApplyTo, Snapshot

-----------------------------------------------------------------------------
(* Type correctness *)

LEMMA OpTypes ==
    ASSUME TypeOK, NEW p \in Clients
    PROVE  /\ op[p].phase \in {"idle", "begun", "decided"}
           /\ op[p].phase = "begun" =>
                /\ op[p].call \in {"confirm", "correct", "inspect", "forget"}
                /\ op[p].now \in Nat
                /\ op[p].call \in {"confirm", "correct"} => op[p].candidate \in Candidates
                /\ op[p].call \in {"correct", "forget"} => op[p].id \in Ids
           /\ op[p].phase = "decided" =>
                op[p].expected \in Nat /\ op[p].changes \in SUBSET Change
BY DEF TypeOK, Idle, Begun, Decided

LEMMA LoadType ==
    ASSUME TypeOK, NEW p \in Clients, NEW call, NEW C \in SUBSET Change, Load(p, call, C)
    PROVE  TypeOK'
<1>1. store.revision \in Nat BY DEF TypeOK, Snapshot
<1>2. [phase |-> "decided", expected |-> store.revision, changes |-> C] \in Decided
  BY <1>1 DEF Decided
<1> QED BY <1>2 DEF TypeOK, Load

LEMMA TypeStep == TypeOK /\ [Next]_vars => TypeOK'
<1> SUFFICES ASSUME TypeOK, [Next]_vars PROVE TypeOK'
  OBVIOUS
<1>1. ASSUME NEW p \in Clients,
             BeginConfirm(p) \/ BeginCorrect(p) \/ BeginInspect(p) \/ BeginForget(p)
      PROVE  TypeOK'
  <2>1. \E q \in Begun : Begin(p, q)
    BY <1>1 DEF TypeOK, BeginConfirm, BeginCorrect, BeginInspect, BeginForget, Begun
  <2> QED BY <2>1 DEF TypeOK, Begin
<1>2. ASSUME NEW p \in Clients, LoadConfirm(p) PROVE TypeOK'
  <2>1. PICK i \in Ids : Load(p, "confirm", ConfirmChanges(store, op[p].candidate, op[p].now, i))
    BY <1>2 DEF LoadConfirm
  <2>2. store \in Snapshot /\ op[p].candidate \in Candidates /\ op[p].now \in Nat
    BY <2>1, OpTypes DEF Load, TypeOK
  <2> QED BY <2>1, <2>2, ConfirmType, LoadType
<1>3. ASSUME NEW p \in Clients, LoadCorrect(p) PROVE TypeOK'
  <2>1. PICK i \in Ids : Load(p, "correct",
            CorrectChanges(store, op[p].candidate, op[p].now, op[p].id, i))
    BY <1>3 DEF LoadCorrect
  <2>2. store \in Snapshot /\ op[p].candidate \in Candidates /\ op[p].now \in Nat
        /\ op[p].id \in Ids
    BY <2>1, OpTypes DEF Load, TypeOK
  <2> QED BY <2>1, <2>2, CorrectType, LoadType
<1>4. ASSUME NEW p \in Clients, LoadInspect(p) PROVE TypeOK'
  <2>1. store \in Snapshot /\ op[p].now \in Nat
    BY <1>4, OpTypes DEF LoadInspect, Load, TypeOK
  <2> QED BY <1>4, <2>1, InspectType, LoadType DEF LoadInspect
<1>5. ASSUME NEW p \in Clients, LoadForget(p) PROVE TypeOK'
  <2>1. store \in Snapshot /\ op[p].now \in Nat /\ op[p].id \in Ids
    BY <1>5, OpTypes DEF LoadForget, Load, TypeOK
  <2> QED BY <1>5, <2>1, ForgetType, LoadType DEF LoadForget
<1>6. ASSUME NEW p \in Clients, Apply(p) PROVE TypeOK'
  <2>1. op[p].changes \in SUBSET Change BY <1>6, OpTypes DEF Apply
  <2>2. ApplyTo(store, op[p].changes) \in Snapshot BY <2>1, ApplyToType DEF TypeOK
  <2> QED BY <1>6, <2>2 DEF Apply, TypeOK
<1>7. ASSUME NEW p \in Clients, Abandon(p) PROVE TypeOK'
  BY <1>7 DEF Abandon, TypeOK
<1>8. CASE Tick
  BY <1>8 DEF Tick, TypeOK
<1>9. CASE SetBack
  BY <1>9 DEF SetBack, TypeOK
<1>10. CASE UNCHANGED vars
  BY <1>10 DEF vars, TypeOK
<1> QED BY <1>1, <1>2, <1>3, <1>4, <1>5, <1>6, <1>7, <1>8, <1>9, <1>10 DEF Next

\* Every variable keeps the shape its Python counterpart has.
THEOREM TypeCorrect == Spec => []TypeOK
<1>1. Init => TypeOK
  BY DEF Init, TypeOK, Snapshot
<1> QED BY <1>1, TypeStep, PTL DEF Spec

-----------------------------------------------------------------------------
(***************************************************************************)
(* The inductive invariant.  A client's decision is sound as long as the   *)
(* scope is at the revision it was decided on, because apply is the only   *)
(* step that changes the store and it always moves the revision.  Two      *)
(* facts make a decision sound when it is taken: the store has at most one *)
(* active record of a topic, and a record that is active was not due when  *)
(* it was last updated, which rests on the admission of its candidate at   *)
(* the very clock value it was confirmed with.                             *)
(***************************************************************************)

NotDueYet(r) == r.status = "active" /\ r.expires # Never => r.updated < r.expires

Sound(s, C) ==
    \/ ChangesAllowed(s, C)
    \/ \E ch \in C : ch.type = "add" /\ Taken(s, ch.id)

\* The change sets the service makes.
Shape(C) ==
    \/ \E ch \in C : C = {ch}
    \/ \E old, new \in C : /\ C = {old, new}
                           /\ old.type = "expire" /\ new.type = "add"
                           /\ old.record.topic = new.record.topic
    \/ \A ch \in C : ch.type = "expire"

StoreInv ==
    /\ ValidSnapshot(store)
    /\ \A i \in Ids : NotDueYet(store.records[i])

RequestInv(p) ==
    op[p].phase = "begun" /\ op[p].call \in {"confirm", "correct"} =>
        Admitted(op[p].candidate, op[p].now)

DecisionInv(p) ==
    op[p].phase = "decided" =>
        /\ op[p].expected <= store.revision
        /\ op[p].expected = store.revision => Sound(store, op[p].changes)
        /\ Shape(op[p].changes)
        /\ \A ch \in op[p].changes :
              /\ ch.type # "forget" => NotDueYet(ch.record)
              /\ ch.type = "supersede" => NotDueYet(ch.replacement)

IInv == /\ TypeOK
        /\ StoreInv
        /\ \A p \in Clients : RequestInv(p) /\ DecisionInv(p)

-----------------------------------------------------------------------------
(* What a change set does to the store *)

WellClaimed(C) ==
    /\ \A ch, other \in C : ch # other => Claims(ch) \cap Claims(other) = {}
    /\ \A ch \in C : ch.type = "supersede" => ch.id # ch.newid

\* Every ID is written by the one change that claims it, or not at all.
LEMMA ApplyAt ==
    ASSUME NEW s \in Snapshot, NEW C \in SUBSET Change, WellClaimed(C), NEW j \in Ids
    PROVE  LET t == ApplyTo(s, C) IN
           /\ \A ch \in C : ch.id = j /\ ch.type # "forget" =>
                 t.records[j] = ch.record /\ t.tombstones[j] = s.tombstones[j]
           /\ \A ch \in C : ch.type = "supersede" /\ ch.newid = j =>
                 t.records[j] = ch.replacement /\ t.tombstones[j] = s.tombstones[j]
           /\ \A ch \in C : ch.id = j /\ ch.type = "forget" =>
                 t.records[j] = NoRecord /\ t.tombstones[j] = ch.tombstone
           /\ (\A ch \in C : j \notin Claims(ch)) =>
                 t.records[j] = s.records[j] /\ t.tombstones[j] = s.tombstones[j]
<1> DEFINE t == ApplyTo(s, C)
<1>1. /\ t.records[j] = Records(s, C)[j]
      /\ t.tombstones[j] = Tombstones(s, C)[j]
  BY DEF ApplyTo
<1>2. \A ch, other \in C : j \in Claims(ch) /\ j \in Claims(other) => ch = other
  BY DEF WellClaimed
<1>3. ASSUME NEW ch \in C, ch.id = j, ch.type # "forget"
      PROVE  t.records[j] = ch.record /\ t.tombstones[j] = s.tombstones[j]
  <2>1. j \in Claims(ch) BY <1>3 DEF Claims
  <2>2. ~\E o \in C : o.type = "forget" /\ o.id = j
    BY <1>2, <1>3, <2>1 DEF Claims
  <2>3. \A o \in C : o.type # "forget" /\ o.id = j => o = ch
    BY <1>2, <2>1 DEF Claims
  <2>4. \A o \in C : ~(o.type = "supersede" /\ o.newid = j)
    BY <1>2, <1>3, <2>1 DEF Claims, WellClaimed
  <2>5. Written(C, j) = {ch.record}
    BY <1>3, <2>3, <2>4 DEF Written
  <2> QED BY <1>1, <2>2, <2>5 DEF Records, Tombstones
<1>4. ASSUME NEW ch \in C, ch.type = "supersede", ch.newid = j
      PROVE  t.records[j] = ch.replacement /\ t.tombstones[j] = s.tombstones[j]
  <2>1. j \in Claims(ch) BY <1>4 DEF Claims
  <2>2. \A o \in C : o.id # j
    BY <1>2, <1>4, <2>1 DEF Claims, WellClaimed
  <2>3. \A o \in C : o.type = "supersede" /\ o.newid = j => o = ch
    BY <1>2, <2>1 DEF Claims
  <2>4. Written(C, j) = {ch.replacement}
    BY <1>4, <2>2, <2>3 DEF Written
  <2> QED BY <1>1, <2>2, <2>4 DEF Records, Tombstones
<1>5. ASSUME NEW ch \in C, ch.id = j, ch.type = "forget"
      PROVE  t.records[j] = NoRecord /\ t.tombstones[j] = ch.tombstone
  <2>1. \A o \in C : o.type = "forget" /\ o.id = j => o = ch
    BY <1>2, <1>5 DEF Claims
  <2>2. (CHOOSE o \in C : o.type = "forget" /\ o.id = j) = ch
    BY <1>5, <2>1
  <2> QED BY <1>1, <1>5, <2>2 DEF Records, Tombstones
<1>6. ASSUME \A ch \in C : j \notin Claims(ch)
      PROVE  t.records[j] = s.records[j] /\ t.tombstones[j] = s.tombstones[j]
  <2>1. \A o \in C : o.id # j /\ (o.type = "supersede" => o.newid # j)
    BY <1>6 DEF Claims
  <2>2. Written(C, j) = {}
    BY <2>1 DEF Written
  <2> QED BY <1>1, <2>1, <2>2 DEF Records, Tombstones
<1> QED BY <1>3, <1>4, <1>5, <1>6

LEMMA AllowedTypes ==
    ASSUME NEW s \in Snapshot, NEW ch \in Change, ChangeAllowed(s, ch)
    PROVE  /\ ch.type = "add" => AddAllowed(s, ch)
           /\ ch.type = "refresh" => RefreshAllowed(s, ch)
           /\ ch.type = "supersede" => SupersedeAllowed(s, ch)
           /\ ch.type = "expire" => ExpireAllowed(s, ch)
           /\ ch.type = "forget" => ForgetAllowed(s, ch)
BY DEF ChangeAllowed

\* Where the record at j comes from.
LEMMA Origin ==
    ASSUME NEW s \in Snapshot, NEW C \in SUBSET Change, WellClaimed(C),
           \A ch \in C : ChangeAllowed(s, ch),
           NEW j \in Ids, IsActive(ApplyTo(s, C), j)
    PROVE  LET r == ApplyTo(s, C).records[j] IN
           \/ \E ch \in C : ch.type = "add" /\ ch.id = j /\ ch.record = r
           \/ \E ch \in C : /\ ch.type = "refresh" /\ ch.id = j /\ IsActive(s, j)
                            /\ s.records[j].topic = r.topic
           \/ \E ch \in C : /\ ch.type = "supersede" /\ ch.newid = j /\ IsActive(s, ch.id)
                            /\ s.records[ch.id].topic = r.topic
           \/ /\ \A ch \in C : j \notin Claims(ch)
              /\ IsActive(s, j) /\ s.records[j].topic = r.topic
<1> DEFINE t == ApplyTo(s, C)
<1>1. CASE \A ch \in C : j \notin Claims(ch)
  BY <1>1, ApplyAt DEF IsActive
<1>2. ASSUME NEW ch \in C, ch.id = j, ch.type \in {"add", "refresh"}
      PROVE  \/ ch.type = "add" /\ ch.record = t.records[j]
             \/ /\ ch.type = "refresh" /\ IsActive(s, j)
                /\ s.records[j].topic = t.records[j].topic
  <2>1. t.records[j] = ch.record BY <1>2, ApplyAt
  <2> QED BY <1>2, <2>1, AllowedTypes DEF RefreshAllowed
<1>3. ASSUME NEW ch \in C, ch.id = j
      PROVE  ch.type \in {"add", "refresh"}
  <2>1. ch.type # "forget" BY <1>3, ApplyAt DEF IsActive, NoRecord
  <2>2. t.records[j] = ch.record BY <1>3, <2>1, ApplyAt
  <2>3. ch.record.status = "active" BY <2>2 DEF IsActive
  <2>4. ch.type # "supersede"
    <3> SUFFICES ASSUME ch.type = "supersede" PROVE FALSE OBVIOUS
    <3>1. IsActive(s, j) /\ LifecycleStep(s.records[j], ch.record, "superseded")
      BY <1>3, AllowedTypes DEF SupersedeAllowed
    <3>2. s.records[j] \in Record BY <3>1, SnapshotTypes
    <3>3. ch.record.status = "superseded" BY <3>1, <3>2 DEF LifecycleStep, Record
    <3> QED BY <2>3, <3>3
  <2>5. ch.type # "expire"
    <3> SUFFICES ASSUME ch.type = "expire" PROVE FALSE OBVIOUS
    <3>1. IsActive(s, j) /\ LifecycleStep(s.records[j], ch.record, "expired")
      BY <1>3, AllowedTypes DEF ExpireAllowed
    <3>2. s.records[j] \in Record BY <3>1, SnapshotTypes
    <3>3. ch.record.status = "expired" BY <3>1, <3>2 DEF LifecycleStep, Record
    <3> QED BY <2>3, <3>3
  <2> QED BY <2>1, <2>4, <2>5, ChangeTypes
<1>4. ASSUME NEW ch \in C, ch.type = "supersede", ch.newid = j
      PROVE  IsActive(s, ch.id) /\ s.records[ch.id].topic = t.records[j].topic
  <2>1. t.records[j] = ch.replacement BY <1>4, ApplyAt
  <2> QED BY <1>4, <2>1, AllowedTypes DEF SupersedeAllowed
<1> QED BY <1>1, <1>2, <1>3, <1>4 DEF Claims

\* A change set that adds one record at most, and only to a topic that has no
\* active record it leaves active, keeps the snapshot valid.
LEMMA ValidAfter ==
    ASSUME NEW s \in Snapshot, ValidSnapshot(s), NEW C \in SUBSET Change,
           WellClaimed(C), \A ch \in C : ChangeAllowed(s, ch),
           \A ch, o \in C : ch.type = "add" /\ o.type = "add" => ch = o,
           \A ch \in C, k \in Ids :
              ch.type = "add" /\ IsActive(s, k) /\ s.records[k].topic = ch.record.topic =>
                 \E o \in C : o.type = "expire" /\ o.id = k
    PROVE  ValidSnapshot(ApplyTo(s, C))
<1> DEFINE t == ApplyTo(s, C)
           From(j, k) ==
              /\ IsActive(s, k) /\ s.records[k].topic = t.records[j].topic
              /\ \/ \E ch \in C : ch.type = "refresh" /\ ch.id = j /\ k = j
                 \/ \E ch \in C : ch.type = "supersede" /\ ch.newid = j /\ k = ch.id
                 \/ (\A ch \in C : j \notin Claims(ch)) /\ k = j
           Added(j) == \E ch \in C : /\ ch.type = "add" /\ ch.id = j
                                     /\ ch.record = t.records[j]
<1>1. \A j \in Ids : IsActive(t, j) => Added(j) \/ \E k \in Ids : From(j, k)
  BY Origin, ChangeTypes
<1>2. \A ch, o \in C : \A k \in Ids : k \in Claims(ch) /\ k \in Claims(o) => ch = o
  BY DEF WellClaimed
<1>3. \A i, j, k \in Ids : From(i, k) /\ From(j, k) => i = j
  BY <1>2 DEF Claims
<1>4. \A j, k \in Ids : From(j, k) => ~\E o \in C : o.type = "expire" /\ o.id = k
  BY <1>2 DEF Claims
<1> HIDE DEF From, t
<1>5. ASSUME NEW i \in Ids, NEW j \in Ids, IsActive(t, i), IsActive(t, j),
             t.records[i].topic = t.records[j].topic
      PROVE  i = j
  <2>1. CASE Added(i) /\ Added(j)
    BY <2>1
  <2>2. ASSUME NEW x \in Ids, NEW y \in Ids, Added(x), NEW k \in Ids, From(y, k),
               t.records[x].topic = t.records[y].topic
        PROVE  FALSE
    BY <1>4, <2>2 DEF From
  <2>3. ASSUME NEW k \in Ids, NEW m \in Ids, From(i, k), From(j, m)
        PROVE  i = j
    <3>1. k = m BY <1>5, <2>3 DEF From, ValidSnapshot
    <3> QED BY <1>3, <2>3, <3>1
  <2> QED BY <1>1, <1>5, <2>1, <2>2, <2>3
<1>6. ASSUME NEW j \in Ids, IsRecord(t, j), t.tombstones[j] # NoTombstone
      PROVE  FALSE
  <2>1. CASE \A ch \in C : j \notin Claims(ch)
    BY <1>6, <2>1, ApplyAt DEF IsRecord, ValidSnapshot, t
  <2>2. ASSUME NEW ch \in C, j \in Claims(ch)
        PROVE  FALSE
    <3>1. CASE ch.type = "forget"
      BY <1>6, <2>2, <3>1, ApplyAt DEF Claims, IsRecord, t
    <3>2. CASE ch.type # "forget"
      <4>1. s.tombstones[j] # NoTombstone
        BY <1>6, <2>2, <3>2, ApplyAt DEF Claims, t
      <4>2. ~IsRecord(s, j) BY <4>1 DEF ValidSnapshot
      <4>3. ~IsActive(s, j) /\ Taken(s, j)
        BY <4>1, <4>2, SnapshotTypes DEF Taken
      <4> QED BY <2>2, <3>2, <4>3, ChangeTypes, AllowedTypes
            DEF Claims, AddAllowed, RefreshAllowed, SupersedeAllowed, ExpireAllowed
    <3> QED BY <3>1, <3>2
  <2> QED BY <2>1, <2>2
<1> QED BY <1>5, <1>6 DEF ValidSnapshot, t

-----------------------------------------------------------------------------
(* The decisions of the service *)

\* What the inductive invariant says of a change set C decided on snapshot s.
Good(s, C) ==
    /\ Sound(s, C)
    /\ Shape(C)
    /\ \A ch \in C : /\ ch.type # "forget" => NotDueYet(ch.record)
                     /\ ch.type = "supersede" => NotDueYet(ch.replacement)

ValidStore(s) == /\ s \in Snapshot
                 /\ ValidSnapshot(s)
                 /\ \A i \in Ids : NotDueYet(s.records[i])

LEMMA SingleChange ==
    ASSUME NEW s, ValidStore(s), NEW ch \in Change, ChangeAllowed(s, ch),
           ch.type = "add" => \A k \in Ids :
              ~(IsActive(s, k) /\ s.records[k].topic = ch.record.topic)
    PROVE  ChangesAllowed(s, {ch}) /\ Shape({ch})
<1>1. WellClaimed({ch}) BY AllowedTypes DEF ValidStore, WellClaimed, SupersedeAllowed
<1>2. ValidSnapshot(ApplyTo(s, {ch})) BY <1>1, ValidAfter DEF ValidStore
<1> QED BY <1>1, <1>2 DEF ChangesAllowed, Shape, WellClaimed

LEMMA AddGood ==
    ASSUME NEW s \in Snapshot, NEW c \in Candidates, NEW now \in Nat, NEW i \in Ids,
           Admitted(c, now)
    PROVE  LET ch == AddMemory(c, now, i) IN
           /\ ch \in Change /\ ch.type = "add" /\ ch.id = i
           /\ ch.record.topic = c.topic
           /\ NotDueYet(ch.record)
           /\ ~Taken(s, i) => ChangeAllowed(s, ch)
<1>1. AddMemory(c, now, i) \in Change
  BY FromCandidateType DEF AddMemory, Change
<1> QED BY <1>1, CandidateTypes
    DEF AddMemory, FromCandidate, NotDueYet, Admitted, ChangeAllowed, AddAllowed, FirstRevision

LEMMA ExpireGood ==
    ASSUME NEW s, ValidStore(s), NEW i \in Ids, NEW now \in Nat, Due(s.records[i], now)
    PROVE  LET ch == ExpireMemory(s, i, now) IN
           /\ now > s.records[i].updated
           /\ ch \in Change /\ ch.type = "expire" /\ ch.id = i
           /\ ch.record.topic = s.records[i].topic
           /\ NotDueYet(ch.record)
           /\ ChangeAllowed(s, ch)
<1> DEFINE r == s.records[i]
<1>1. IsActive(s, i) /\ r \in Record
  BY SnapshotTypes DEF Due, IsActive, ValidStore
<1>2. now > r.updated
  BY <1>1, RecordTypes DEF ValidStore, NotDueYet, Due
<1>3. ExpireMemory(s, i, now) \in Change
  BY <1>2, ExpireType DEF ValidStore
<1>4. LET new == Retired(r, "expired", now) IN
      /\ new.topic = r.topic /\ new.status = "expired" /\ new.updated = now
  BY <1>1 DEF Retired, Record
<1>5. LifecycleStep(r, Retired(r, "expired", now), "expired")
  BY <1>4 DEF LifecycleStep, Retired
<1> QED BY <1>1, <1>2, <1>3, <1>4, <1>5
    DEF ExpireMemory, NotDueYet, ChangeAllowed, ExpireAllowed

LEMMA RefreshGood ==
    ASSUME NEW s, ValidStore(s), NEW c \in Candidates, NEW now \in Nat, NEW e \in Ids,
           Admitted(c, now), IsActive(s, e), s.records[e].topic = c.topic,
           s.records[e].content = c.content, now > s.records[e].updated
    PROVE  Good(s, {RefreshMemory(s, c, e, now)})
<1> DEFINE r == s.records[e]
           ch == RefreshMemory(s, c, e, now)
<1>1. r \in Record BY SnapshotTypes DEF ValidStore
<1>2. /\ r.revision + 1 \in Nat \ {0} /\ r.supersedes \in Ids \cup {NoId}
      /\ r.created \in Nat /\ r.created <= now
  BY <1>1, RecordTypes
<1>3. ch.record \in Record
  BY <1>2, FromCandidateType DEF RefreshMemory
<1>4. ch \in Change BY <1>3 DEF RefreshMemory, Change
<1>5. /\ ch.type = "refresh" /\ ch.id = e /\ NotDueYet(ch.record)
  BY CandidateTypes DEF RefreshMemory, FromCandidate, NotDueYet, Admitted
<1>6. ChangeAllowed(s, ch)
  BY <1>5 DEF ChangeAllowed, RefreshAllowed, RefreshMemory, FromCandidate
<1> HIDE DEF ch
<1>7. ChangesAllowed(s, {ch}) /\ Shape({ch}) BY <1>4, <1>5, <1>6, SingleChange
<1> QED BY <1>5, <1>7 DEF Good, Sound, ch

\* An expired proposition makes room for another of its topic.
LEMMA RenewGood ==
    ASSUME NEW s, ValidStore(s), NEW c \in Candidates, NEW now \in Nat, NEW i \in Ids,
           NEW e \in Ids, Admitted(c, now), Due(s.records[e], now),
           s.records[e].topic = c.topic
    PROVE  Good(s, {ExpireMemory(s, e, now), AddMemory(c, now, i)})
<1> DEFINE old == ExpireMemory(s, e, now)
           new == AddMemory(c, now, i)
           C   == {old, new}
<1>1. /\ old \in Change /\ old.type = "expire" /\ old.id = e
      /\ old.record.topic = s.records[e].topic
      /\ NotDueYet(old.record) /\ ChangeAllowed(s, old)
  BY ExpireGood
<1>2. /\ new \in Change /\ new.type = "add" /\ new.id = i
      /\ new.record.topic = c.topic
      /\ NotDueYet(new.record) /\ (~Taken(s, i) => ChangeAllowed(s, new))
  BY AddGood DEF ValidStore
<1> HIDE DEF old, new
<1>3. Shape(C) BY <1>1, <1>2 DEF Shape
<1>4. ASSUME ~Taken(s, i) PROVE ChangesAllowed(s, C)
  <2>1. i # e BY <1>1, <1>4, AllowedTypes, SnapshotTypes
                 DEF ExpireAllowed, Taken, ValidStore
  <2>2. \A ch, other \in C : ch # other => Claims(ch) \cap Claims(other) = {}
    BY <1>1, <1>2, <2>1 DEF Claims
  <2>3. WellClaimed(C) BY <1>1, <1>2, <2>2 DEF WellClaimed
  <2>4. \A ch \in C : ChangeAllowed(s, ch) BY <1>1, <1>2, <1>4
  <2>5. IsActive(s, e) BY <1>1, AllowedTypes DEF ExpireAllowed, ValidStore
  <2>6. ASSUME NEW ch \in C, NEW k \in Ids, ch.type = "add", IsActive(s, k),
               s.records[k].topic = ch.record.topic
        PROVE  \E o \in C : o.type = "expire" /\ o.id = k
    <3>1. ch = new BY <1>1, <2>6
    <3>2. k = e BY <1>2, <2>5, <2>6, <3>1 DEF ValidStore, ValidSnapshot
    <3> QED BY <1>1, <3>2
  <2>7. \A ch, o \in C : ch.type = "add" /\ o.type = "add" => ch = o BY <1>1, <1>2
  <2>8. ValidSnapshot(ApplyTo(s, C))
    BY <1>1, <1>2, <2>3, <2>4, <2>6, <2>7, ValidAfter DEF ValidStore
  <2> QED BY <2>2, <2>4, <2>8 DEF ChangesAllowed
<1>5. Sound(s, C) BY <1>2, <1>4 DEF Sound
<1> QED BY <1>1, <1>2, <1>3, <1>5 DEF Good, old, new

LEMMA ConfirmGood ==
    ASSUME NEW s, ValidStore(s), NEW c \in Candidates, NEW now \in Nat, NEW i \in Ids,
           Admitted(c, now), ConfirmChanges(s, c, now, i) # {}
    PROVE  Good(s, ConfirmChanges(s, c, now, i))
<1>1. CASE Existing(s, c) = {}
  <2> DEFINE ch == AddMemory(c, now, i)
  <2>1. /\ ch \in Change /\ ch.type = "add" /\ ch.id = i
        /\ ch.record.topic = c.topic /\ NotDueYet(ch.record)
        /\ (~Taken(s, i) => ChangeAllowed(s, ch))
    BY AddGood DEF ValidStore
  <2> HIDE DEF ch
  <2>2. \A k \in Ids : ~(IsActive(s, k) /\ s.records[k].topic = ch.record.topic)
    BY <1>1, <2>1 DEF Existing
  <2>3. ~Taken(s, i) => ChangesAllowed(s, {ch}) BY <2>1, <2>2, SingleChange
  <2>4. Shape({ch}) BY DEF Shape
  <2>5. Good(s, {ch}) BY <2>1, <2>3, <2>4 DEF Good, Sound
  <2> QED BY <1>1, <2>5 DEF ConfirmChanges, ch
<1>2. CASE Existing(s, c) # {}
  <2> DEFINE e == CHOOSE e \in Existing(s, c) : TRUE
  <2>1. e \in Ids /\ IsActive(s, e) /\ s.records[e].topic = c.topic
    BY <1>2 DEF Existing
  <2> HIDE DEF e
  <2>2. ConfirmChanges(s, c, now, i) = Consolidate(s, c, now, i, e)
    BY <1>2 DEF ConfirmChanges, e
  <2>3. s.records[e].updated \in Nat
    BY <2>1, SnapshotTypes, RecordTypes DEF ValidStore
  <2>4. now > s.records[e].updated
    BY <2>2, <2>3 DEF Consolidate
  <2>5. CASE Due(s.records[e], now)
    <3>1. Consolidate(s, c, now, i, e) = {ExpireMemory(s, e, now), AddMemory(c, now, i)}
      BY <2>3, <2>4, <2>5 DEF Consolidate
    <3> QED BY <2>1, <2>2, <2>5, <3>1, RenewGood
  <2>6. CASE ~Due(s.records[e], now)
    <3>1. /\ s.records[e].content = c.content
          /\ Consolidate(s, c, now, i, e) = {RefreshMemory(s, c, e, now)}
      BY <2>2, <2>3, <2>4, <2>6 DEF Consolidate
    <3> QED BY <2>1, <2>2, <2>4, <3>1, RefreshGood
  <2> QED BY <2>5, <2>6
<1> QED BY <1>1, <1>2

LEMMA CorrectGood ==
    ASSUME NEW s, ValidStore(s), NEW c \in Candidates, NEW now \in Nat,
           NEW k \in Ids, NEW i \in Ids, Admitted(c, now),
           CorrectChanges(s, c, now, k, i) # {}
    PROVE  Good(s, CorrectChanges(s, c, now, k, i))
<1> DEFINE r   == s.records[k]
           old == Retired(r, "superseded", now)
           new == FromCandidate(c, 1, now, now, k)
           ch  == [type |-> "supersede", id |-> k, record |-> old,
                   newid |-> i, replacement |-> new]
<1>1. /\ IsActive(s, k) /\ r.topic = c.topic /\ now > r.updated /\ ~Taken(s, i)
      /\ CorrectChanges(s, c, now, k, i) = {ch}
  BY DEF CorrectChanges
<1>2. r \in Record BY <1>1, SnapshotTypes DEF ValidStore
<1>3. old \in Record /\ new \in Record
  BY <1>1, <1>2, RetiredType, FromCandidateType, RecordTypes
<1>4. ch \in Change BY <1>3 DEF Change
<1>5. old.status = "superseded" /\ old.updated = now
  BY <1>2 DEF Retired, Record
<1>6. LifecycleStep(r, old, "superseded") BY <1>5 DEF LifecycleStep, Retired
<1>7. i # k BY <1>1, SnapshotTypes DEF Taken, ValidStore
<1>8. /\ FirstRevision(new) /\ new.supersedes = k /\ new.topic = r.topic
      /\ new.created = now /\ NotDueYet(new)
  BY <1>1, CandidateTypes DEF FromCandidate, FirstRevision, NotDueYet, Admitted
<1> HIDE DEF old, new
<1>9. ChangeAllowed(s, ch)
  BY <1>1, <1>5, <1>6, <1>7, <1>8 DEF ChangeAllowed, SupersedeAllowed
<1>10. NotDueYet(old) BY <1>5 DEF NotDueYet
<1>11. /\ ch.type = "supersede" /\ ch.record = old /\ ch.replacement = new
  OBVIOUS
<1> HIDE DEF ch
<1>12. ChangesAllowed(s, {ch}) /\ Shape({ch}) BY <1>4, <1>9, <1>11, SingleChange
<1> QED BY <1>1, <1>8, <1>10, <1>11, <1>12 DEF Good, Sound

LEMMA ForgetGood ==
    ASSUME NEW s, ValidStore(s), NEW now \in Nat, NEW k \in Ids,
           ForgetChanges(s, now, k) # {}
    PROVE  Good(s, ForgetChanges(s, now, k))
<1> DEFINE ch == [type |-> "forget", id |-> k,
                  tombstone |-> [revision |-> s.records[k].revision, forgotten |-> now]]
<1>1. /\ IsRecord(s, k) /\ now >= s.records[k].updated
      /\ ForgetChanges(s, now, k) = {ch}
  BY DEF ForgetChanges
<1>2. ch \in Change BY <1>1, ForgetType DEF ValidStore
<1>3. ChangeAllowed(s, ch) BY <1>1 DEF ChangeAllowed, ForgetAllowed
<1>4. ch.type = "forget" OBVIOUS
<1> HIDE DEF ch
<1>5. ChangesAllowed(s, {ch}) /\ Shape({ch}) BY <1>2, <1>3, <1>4, SingleChange
<1> QED BY <1>1, <1>4, <1>5 DEF Good, Sound

LEMMA InspectGood ==
    ASSUME NEW s, ValidStore(s), NEW now \in Nat, InspectChanges(s, now) # {}
    PROVE  Good(s, InspectChanges(s, now))
<1> DEFINE due == {i \in Ids : Due(s.records[i], now)}
           C   == {ExpireMemory(s, i, now) : i \in due}
<1>1. InspectChanges(s, now) = C /\ C # {} BY DEF InspectChanges
<1>2. \A ch \in C : \E i \in due :
        /\ ch = ExpireMemory(s, i, now)
        /\ ch \in Change /\ ch.type = "expire" /\ ch.id = i
        /\ NotDueYet(ch.record) /\ ChangeAllowed(s, ch)
  BY ExpireGood
<1> HIDE DEF C
<1>3. C \in SUBSET Change /\ (\A ch \in C : ch.type = "expire" /\ ChangeAllowed(s, ch))
  BY <1>2
<1>4. \A ch, other \in C : ch # other => Claims(ch) \cap Claims(other) = {}
  BY <1>2 DEF Claims
<1>5. WellClaimed(C) BY <1>3, <1>4 DEF WellClaimed
<1>6. ValidSnapshot(ApplyTo(s, C)) BY <1>3, <1>5, ValidAfter DEF ValidStore
<1>7. Sound(s, C) BY <1>1, <1>3, <1>4, <1>6 DEF Sound, ChangesAllowed
<1>8. Shape(C) BY <1>3 DEF Shape
<1> QED BY <1>1, <1>2, <1>3, <1>7, <1>8 DEF Good

-----------------------------------------------------------------------------
(* The invariant *)

LEMMA AllowedClaims ==
    ASSUME NEW s \in Snapshot, NEW C \in SUBSET Change, ChangesAllowed(s, C)
    PROVE  WellClaimed(C)
BY AllowedTypes DEF ChangesAllowed, WellClaimed, SupersedeAllowed

LEMMA StoreStep ==
    ASSUME NEW s, ValidStore(s), NEW C \in SUBSET Change, ChangesAllowed(s, C),
           \A ch \in C : /\ ch.type # "forget" => NotDueYet(ch.record)
                         /\ ch.type = "supersede" => NotDueYet(ch.replacement)
    PROVE  ValidStore(ApplyTo(s, C)) /\ ApplyTo(s, C).revision = s.revision + 1
<1> DEFINE t == ApplyTo(s, C)
<1>1. t \in Snapshot /\ ValidSnapshot(t) /\ t.revision = s.revision + 1
  BY ApplyToType DEF ValidStore, ChangesAllowed, ApplyTo
<1>2. WellClaimed(C) BY AllowedClaims DEF ValidStore
<1>3. ASSUME NEW j \in Ids PROVE NotDueYet(t.records[j])
  <2>1. CASE \A ch \in C : j \notin Claims(ch)
    BY <1>2, <2>1, ApplyAt DEF ValidStore
  <2>2. ASSUME NEW ch \in C, j \in Claims(ch) PROVE NotDueYet(t.records[j])
    <3>1. CASE ch.id = j /\ ch.type # "forget"
      <4>1. t.records[j] = ch.record BY <1>2, <3>1, ApplyAt DEF ValidStore
      <4>2. NotDueYet(ch.record) BY <3>1
      <4> QED BY <4>1, <4>2 DEF NotDueYet
    <3>2. CASE ch.type = "supersede" /\ ch.newid = j
      <4>1. t.records[j] = ch.replacement BY <1>2, <3>2, ApplyAt DEF ValidStore
      <4>2. NotDueYet(ch.replacement) BY <3>2
      <4> QED BY <4>1, <4>2 DEF NotDueYet
    <3>3. CASE ch.id = j /\ ch.type = "forget"
      BY <1>2, <3>3, ApplyAt DEF ValidStore, NotDueYet, NoRecord
    <3> QED BY <2>2, <3>1, <3>2, <3>3 DEF Claims
  <2> QED BY <2>1, <2>2
<1> QED BY <1>1, <1>3 DEF ValidStore

LEMMA BeginStep ==
    ASSUME IInv, NEW p \in Clients, NEW q \in Begun, Begin(p, q),
           q.call \in {"confirm", "correct"} => Admitted(q.candidate, q.now)
    PROVE  StoreInv' /\ (\A x \in Clients : RequestInv(x)' /\ DecisionInv(x)')
<1>1. q.phase = "begun" BY DEF Begun
<1>2. op' = [op EXCEPT ![p] = q] /\ store' = store BY DEF Begin
<1>3. StoreInv' BY <1>2 DEF IInv, StoreInv
<1>4. ASSUME NEW x \in Clients PROVE RequestInv(x)' /\ DecisionInv(x)'
  <2>1. CASE x = p
    BY <1>1, <1>2, <2>1 DEF IInv, TypeOK, RequestInv, DecisionInv
  <2>2. CASE x # p
    BY <1>2, <2>2 DEF IInv, TypeOK, RequestInv, DecisionInv
  <2> QED BY <2>1, <2>2
<1> QED BY <1>3, <1>4

LEMMA IdleStep ==
    ASSUME IInv, NEW p \in Clients, op' = [op EXCEPT ![p] = Idle], store' = store
    PROVE  StoreInv' /\ (\A x \in Clients : RequestInv(x)' /\ DecisionInv(x)')
<1>1. StoreInv' BY DEF IInv, StoreInv
<1>2. ASSUME NEW x \in Clients PROVE RequestInv(x)' /\ DecisionInv(x)'
  <2>1. CASE x = p
    BY <2>1 DEF IInv, TypeOK, RequestInv, DecisionInv, Idle
  <2>2. CASE x # p
    BY <2>2 DEF IInv, TypeOK, RequestInv, DecisionInv
  <2> QED BY <2>1, <2>2
<1> QED BY <1>1, <1>2

LEMMA LoadStep ==
    ASSUME IInv, NEW p \in Clients, NEW call, NEW C, Load(p, call, C),
           C # {} => Good(store, C)
    PROVE  StoreInv' /\ (\A x \in Clients : RequestInv(x)' /\ DecisionInv(x)')
<1>1. CASE C = {}
  BY <1>1, IdleStep DEF Load
<1>2. CASE C # {}
  <2>1. /\ op' = [op EXCEPT ![p] = [phase |-> "decided", expected |-> store.revision,
                                    changes |-> C]]
        /\ store' = store
    BY <1>2 DEF Load
  <2>2. StoreInv' BY <2>1 DEF IInv, StoreInv
  <2>3. ASSUME NEW x \in Clients PROVE RequestInv(x)' /\ DecisionInv(x)'
    <3>1. CASE x = p
      <4>1. store.revision \in Nat BY DEF IInv, TypeOK, Snapshot
      <4>2. /\ op'[x].phase = "decided" /\ op'[x].expected = store.revision
            /\ op'[x].changes = C
        BY <2>1, <3>1 DEF IInv, TypeOK
      <4> QED BY <1>2, <2>1, <4>1, <4>2 DEF RequestInv, DecisionInv, Good
    <3>2. CASE x # p
      BY <2>1, <3>2 DEF IInv, TypeOK, RequestInv, DecisionInv
    <3> QED BY <3>1, <3>2
  <2> QED BY <2>2, <2>3
<1> QED BY <1>1, <1>2

LEMMA ApplyStep ==
    ASSUME IInv, NEW p \in Clients, Apply(p)
    PROVE  StoreInv' /\ (\A x \in Clients : RequestInv(x)' /\ DecisionInv(x)')
<1>1. CASE store' = store
  BY <1>1, IdleStep DEF Apply
<1>2. CASE store' # store
  <2> DEFINE C == op[p].changes
  <2>1. /\ op[p].phase = "decided" /\ ChangesAllowed(store, C)
        /\ store' = ApplyTo(store, C)
        /\ op' = [op EXCEPT ![p] = Idle]
    BY <1>2 DEF Apply
  <2>2. C \in SUBSET Change /\ ValidStore(store)
    BY <2>1, OpTypes DEF IInv, StoreInv, ValidStore, TypeOK
  <2>3. ValidStore(store') /\ store'.revision = store.revision + 1
    BY <2>1, <2>2, StoreStep DEF IInv, DecisionInv
  <2>4. StoreInv' BY <2>3 DEF StoreInv, ValidStore
  <2>5. ASSUME NEW x \in Clients PROVE RequestInv(x)' /\ DecisionInv(x)'
    <3>1. CASE x = p
      BY <2>1, <3>1 DEF IInv, TypeOK, RequestInv, DecisionInv, Idle
    <3>2. CASE x # p
      <4>1. op'[x] = op[x] BY <2>1, <3>2 DEF IInv, TypeOK
      <4>2. store.revision \in Nat BY DEF IInv, TypeOK, Snapshot
      <4>3. op[x].phase = "decided" => op[x].expected \in Nat BY OpTypes DEF IInv
      <4> QED BY <2>3, <4>1, <4>2, <4>3 DEF IInv, RequestInv, DecisionInv
    <3> QED BY <3>1, <3>2
  <2> QED BY <2>4, <2>5
<1> QED BY <1>1, <1>2

LEMMA InvariantInit == Init => IInv
<1> SUFFICES ASSUME Init PROVE IInv OBVIOUS
<1>1. TypeOK BY DEF Init, TypeOK, Snapshot
<1>2. StoreInv
  BY DEF Init, StoreInv, ValidSnapshot, IsActive, IsRecord, NoRecord, NotDueYet
<1>3. \A p \in Clients : RequestInv(p) /\ DecisionInv(p)
  BY DEF Init, Idle, RequestInv, DecisionInv
<1> QED BY <1>1, <1>2, <1>3 DEF IInv

LEMMA InvariantStep == IInv /\ [Next]_vars => IInv'
<1> SUFFICES ASSUME IInv, [Next]_vars PROVE IInv'
  OBVIOUS
<1> DEFINE Rest == StoreInv /\ \A x \in Clients : RequestInv(x) /\ DecisionInv(x)
<1>1. ValidStore(store) BY DEF IInv, StoreInv, ValidStore, TypeOK
<1>2. TypeOK' BY TypeStep DEF IInv
<1>3. ASSUME NEW p \in Clients,
             BeginConfirm(p) \/ BeginCorrect(p) \/ BeginInspect(p) \/ BeginForget(p)
      PROVE  Rest'
  <2> DEFINE Requests(q) ==
        /\ q \in Begun
        /\ Begin(p, q)
        /\ q.call \in {"confirm", "correct"} => Admitted(q.candidate, q.now)
  <2>1. clock \in Nat BY DEF IInv, TypeOK
  <2>2. ASSUME BeginConfirm(p) PROVE \E q : Requests(q)
    <3>1. PICK c \in Candidates :
            /\ Admitted(c, clock)
            /\ Begin(p, [phase |-> "begun", call |-> "confirm", now |-> clock,
                         candidate |-> c])
      BY <2>2 DEF BeginConfirm
    <3> QED BY <2>1, <3>1 DEF Begun
  <2>3. ASSUME BeginCorrect(p) PROVE \E q : Requests(q)
    <3>1. PICK c \in Candidates, k \in Ids :
            /\ Admitted(c, clock)
            /\ Begin(p, [phase |-> "begun", call |-> "correct", now |-> clock,
                         id |-> k, candidate |-> c])
      BY <2>3 DEF BeginCorrect
    <3> QED BY <2>1, <3>1 DEF Begun
  <2>4. ASSUME BeginInspect(p) PROVE \E q : Requests(q)
    BY <2>1, <2>4 DEF BeginInspect, Begun
  <2>5. ASSUME BeginForget(p) PROVE \E q : Requests(q)
    <3>1. PICK k \in Ids :
            Begin(p, [phase |-> "begun", call |-> "forget", now |-> clock, id |-> k])
      BY <2>5 DEF BeginForget
    <3> QED BY <2>1, <3>1 DEF Begun
  <2> QED BY <1>3, <2>2, <2>3, <2>4, <2>5, BeginStep
<1>4. ASSUME NEW p \in Clients, LoadConfirm(p) PROVE Rest'
  <2>1. PICK i \in Ids :
          Load(p, "confirm", ConfirmChanges(store, op[p].candidate, op[p].now, i))
    BY <1>4 DEF LoadConfirm
  <2>2. /\ op[p].candidate \in Candidates /\ op[p].now \in Nat
        /\ Admitted(op[p].candidate, op[p].now)
    BY <2>1, OpTypes DEF Load, IInv, RequestInv
  <2> QED BY <1>1, <2>1, <2>2, ConfirmGood, LoadStep
<1>5. ASSUME NEW p \in Clients, LoadCorrect(p) PROVE Rest'
  <2>1. PICK i \in Ids :
          Load(p, "correct", CorrectChanges(store, op[p].candidate, op[p].now, op[p].id, i))
    BY <1>5 DEF LoadCorrect
  <2>2. /\ op[p].candidate \in Candidates /\ op[p].now \in Nat /\ op[p].id \in Ids
        /\ Admitted(op[p].candidate, op[p].now)
    BY <2>1, OpTypes DEF Load, IInv, RequestInv
  <2> QED BY <1>1, <2>1, <2>2, CorrectGood, LoadStep
<1>6. ASSUME NEW p \in Clients, LoadInspect(p) PROVE Rest'
  <2>1. op[p].now \in Nat BY <1>6, OpTypes DEF LoadInspect, Load, IInv
  <2> QED BY <1>1, <1>6, <2>1, InspectGood, LoadStep DEF LoadInspect
<1>7. ASSUME NEW p \in Clients, LoadForget(p) PROVE Rest'
  <2>1. op[p].now \in Nat /\ op[p].id \in Ids
    BY <1>7, OpTypes DEF LoadForget, Load, IInv
  <2> QED BY <1>1, <1>7, <2>1, ForgetGood, LoadStep DEF LoadForget
<1>8. ASSUME NEW p \in Clients, Apply(p) PROVE Rest'
  BY <1>8, ApplyStep
<1>9. ASSUME NEW p \in Clients, Abandon(p) PROVE Rest'
  BY <1>9, IdleStep DEF Abandon
<1>10. ASSUME Tick \/ SetBack \/ UNCHANGED vars PROVE Rest'
  BY <1>10 DEF Tick, SetBack, vars, IInv, StoreInv, RequestInv, DecisionInv
<1>11. Rest' BY <1>3, <1>4, <1>5, <1>6, <1>7, <1>8, <1>9, <1>10 DEF Next
<1> QED BY <1>2, <1>11 DEF IInv

THEOREM Invariant == Spec => []IInv
BY InvariantInit, InvariantStep, PTL DEF Spec

\* No client, race, clock or failure makes the store find a decision of the
\* service corrupt: what is decided on the current revision applies, unless
\* the ID factory gave an ID in use.
THEOREM DecisionsAreSound == Spec => []SoundDecisions
<1>1. IInv => SoundDecisions BY DEF IInv, DecisionInv, SoundDecisions, Sound
<1> QED BY <1>1, Invariant, PTL

\* Whatever clock list and show have read, what is due can be expired.
THEOREM InspectionIsNeverBlocked == Spec => []InspectionNotBlocked
<1>1. IInv => InspectionNotBlocked
  <2> SUFFICES ASSUME IInv, NEW now \in 0..MaxTime, NEW i \in Ids, Due(store.records[i], now)
               PROVE  now > store.records[i].updated
    BY DEF InspectionNotBlocked
  <2>1. ValidStore(store) BY DEF IInv, StoreInv, ValidStore, TypeOK
  <2>2. now \in Nat OBVIOUS
  <2> QED BY <2>1, <2>2, ExpireGood
<1> QED BY <1>1, Invariant, PTL

-----------------------------------------------------------------------------
(***************************************************************************)
(* What recall may offer.  One active record of a topic is ValidSnapshot.  *)
(* That the corrected proposition never comes back needs the past: the     *)
(* target of a correction is superseded by the change set that writes the  *)
(* correction, a record that is not active never becomes active again, and *)
(* its ID is taken for ever, by a tombstone once it is forgotten.          *)
(***************************************************************************)

Corrections(s) ==
    \A k \in Ids : IsRecord(s, k) /\ s.records[k].supersedes \in Ids =>
        /\ Taken(s, s.records[k].supersedes)
        /\ ~IsActive(s, s.records[k].supersedes)

\* An ID that is taken stays taken, and one that is out of use stays so.
LEMMA RetiredForGood ==
    ASSUME NEW s \in Snapshot, NEW C \in SUBSET Change, WellClaimed(C),
           \A ch \in C : ChangeAllowed(s, ch),
           NEW j \in Ids, Taken(s, j), ~IsActive(s, j)
    PROVE  Taken(ApplyTo(s, C), j) /\ ~IsActive(ApplyTo(s, C), j)
<1> DEFINE t == ApplyTo(s, C)
<1>1. CASE \A ch \in C : j \notin Claims(ch)
  <2>1. t.records[j] = s.records[j] /\ t.tombstones[j] = s.tombstones[j]
    BY <1>1, ApplyAt
  <2> QED BY <2>1 DEF Taken, IsRecord, IsActive
<1>2. ASSUME NEW ch \in C, j \in Claims(ch)
      PROVE  Taken(t, j) /\ ~IsActive(t, j)
  <2>1. ch.type = "forget" /\ ch.id = j
    BY <1>2, AllowedTypes, ChangeTypes
    DEF Claims, AddAllowed, RefreshAllowed, SupersedeAllowed, ExpireAllowed
  <2>2. t.records[j] = NoRecord /\ t.tombstones[j] = ch.tombstone
    BY <2>1, ApplyAt
  <2>3. ch.tombstone # NoTombstone
    BY <2>1, ChangeTypes DEF Tombstone, NoTombstone
  <2> QED BY <2>2, <2>3 DEF Taken, IsActive, NoRecord
<1> QED BY <1>1, <1>2

\* The target of a correction is superseded together with it.
LEMMA TargetRetires ==
    ASSUME NEW s \in Snapshot, NEW C \in SUBSET Change, WellClaimed(C),
           NEW ch \in C, ChangeAllowed(s, ch), ch.type = "supersede"
    PROVE  Taken(ApplyTo(s, C), ch.id) /\ ~IsActive(ApplyTo(s, C), ch.id)
<1>1. ch.id \in Ids /\ ch.record \in Record BY ChangeTypes
<1>2. ApplyTo(s, C).records[ch.id] = ch.record BY <1>1, ApplyAt
<1>3. IsActive(s, ch.id) /\ LifecycleStep(s.records[ch.id], ch.record, "superseded")
  BY AllowedTypes DEF SupersedeAllowed
<1>4. s.records[ch.id] \in Record BY <1>1, <1>3, SnapshotTypes
<1>5. ch.record.status = "superseded" BY <1>3, <1>4 DEF LifecycleStep, Record
<1> QED BY <1>1, <1>2, <1>5, RecordTypes DEF Taken, IsRecord, IsActive

\* What a record supersedes, it has superseded before, or does now.
LEMMA SupersedesSource ==
    ASSUME NEW s \in Snapshot, NEW C \in SUBSET Change, WellClaimed(C),
           \A ch \in C : ChangeAllowed(s, ch),
           NEW k \in Ids, IsRecord(ApplyTo(s, C), k),
           ApplyTo(s, C).records[k].supersedes \in Ids
    PROVE  LET x == ApplyTo(s, C).records[k].supersedes IN
           \/ IsRecord(s, k) /\ s.records[k].supersedes = x
           \/ \E ch \in C : ch.type = "supersede" /\ ch.id = x
<1> DEFINE t == ApplyTo(s, C)
           r == s.records[k]
<1>1. CASE \A ch \in C : k \notin Claims(ch)
  <2>1. t.records[k] = r BY <1>1, ApplyAt
  <2> QED BY <2>1 DEF IsRecord
<1>2. ASSUME NEW ch \in C, ch.type = "supersede", ch.newid = k
      PROVE  ch.id = t.records[k].supersedes
  <2>1. t.records[k] = ch.replacement BY <1>2, ApplyAt
  <2> QED BY <1>2, <2>1, AllowedTypes DEF SupersedeAllowed
<1>3. ASSUME NEW ch \in C, ch.id = k
      PROVE  IsRecord(s, k) /\ r.supersedes = t.records[k].supersedes
  <2>1. ch.type # "forget"
    BY <1>3, ApplyAt DEF IsRecord
  <2>2. t.records[k] = ch.record BY <1>3, <2>1, ApplyAt
  <2>3. ch.type # "add"
    BY <1>3, <2>2, AllowedTypes, MemoryAssumption DEF AddAllowed, MemoryAssumption
  <2>4. CASE ch.type = "refresh"
    BY <1>3, <2>2, <2>4, AllowedTypes, SnapshotTypes DEF RefreshAllowed
  <2>5. ASSUME NEW st, LifecycleStep(r, ch.record, st), IsActive(s, k)
        PROVE  IsRecord(s, k) /\ r.supersedes = ch.record.supersedes
    <3>1. IsRecord(s, k) /\ r \in Record BY <2>5, SnapshotTypes
    <3> QED BY <2>5, <3>1 DEF LifecycleStep, Record
  <2>6. CASE ch.type \in {"expire", "supersede"}
    BY <1>3, <2>2, <2>5, <2>6, AllowedTypes DEF ExpireAllowed, SupersedeAllowed
  <2> QED BY <2>1, <2>3, <2>4, <2>6, ChangeTypes
<1> QED BY <1>1, <1>2, <1>3 DEF Claims

LEMMA CorrectionsApply ==
    ASSUME NEW s \in Snapshot, Corrections(s), NEW C \in SUBSET Change,
           ChangesAllowed(s, C)
    PROVE  Corrections(ApplyTo(s, C))
<1> DEFINE t == ApplyTo(s, C)
<1>1. WellClaimed(C) /\ \A ch \in C : ChangeAllowed(s, ch)
  BY AllowedClaims DEF ChangesAllowed
<1>2. ASSUME NEW k \in Ids, IsRecord(t, k), t.records[k].supersedes \in Ids
      PROVE  /\ Taken(t, t.records[k].supersedes)
             /\ ~IsActive(t, t.records[k].supersedes)
  <2>1. PICK x \in Ids : x = t.records[k].supersedes BY <1>2
  <2>2. CASE IsRecord(s, k) /\ s.records[k].supersedes = x
    <3>1. Taken(s, x) /\ ~IsActive(s, x) BY <2>2 DEF Corrections
    <3> QED BY <1>1, <2>1, <3>1, RetiredForGood
  <2>3. CASE \E ch \in C : ch.type = "supersede" /\ ch.id = x
    BY <1>1, <2>1, <2>3, TargetRetires
  <2> QED BY <1>1, <1>2, <2>1, <2>2, <2>3, SupersedesSource
<1> QED BY <1>2 DEF Corrections

LEMMA CorrectionsStep == IInv /\ Corrections(store) /\ [Next]_vars => Corrections(store')
<1> SUFFICES ASSUME IInv, Corrections(store), [Next]_vars PROVE Corrections(store')
  OBVIOUS
<1>1. ASSUME NEW p \in Clients, Apply(p), store' # store
      PROVE  Corrections(store')
  <2>1. /\ op[p].phase = "decided" /\ ChangesAllowed(store, op[p].changes)
        /\ store' = ApplyTo(store, op[p].changes)
    BY <1>1 DEF Apply
  <2>2. store \in Snapshot /\ op[p].changes \in SUBSET Change
    BY <2>1, OpTypes DEF IInv, TypeOK
  <2> QED BY <2>1, <2>2, CorrectionsApply
<1>2. store' = store \/ \E p \in Clients : Apply(p)
  BY DEF Next, vars, BeginConfirm, BeginCorrect, BeginInspect, BeginForget, Begin,
         LoadConfirm, LoadCorrect, LoadInspect, LoadForget, Load, Abandon, Tick, SetBack
<1> QED BY <1>1, <1>2

\* Whatever clock a caller reads, recall never offers two propositions of a
\* topic, nor one that has been corrected.
THEOREM RecallNeverContradicts == Spec => []RecallIsUnambiguous
<1>1. Init => Corrections(store)
  BY DEF Init, Corrections, IsRecord
<1>2. ASSUME IInv, Corrections(store), NEW now \in 0..MaxTime,
             NEW i \in Recallable(store, now)
      PROVE  /\ \A j \in Recallable(store, now) :
                   store.records[i].topic = store.records[j].topic => i = j
             /\ \A k \in Ids : ~(IsRecord(store, k) /\ store.records[k].supersedes = i)
  <2>1. \A j \in Recallable(store, now) : j \in Ids /\ IsActive(store, j)
    BY DEF Recallable
  <2> QED BY <1>2, <2>1 DEF IInv, StoreInv, ValidSnapshot, Corrections
<1>3. IInv /\ Corrections(store) => RecallIsUnambiguous
  BY <1>2 DEF RecallIsUnambiguous
<1>4. IInv /\ Corrections(store) /\ [Next]_vars => Corrections(store)'
  BY CorrectionsStep DEF Corrections, IsRecord, IsActive, Taken
<1> QED BY <1>1, <1>3, <1>4, Invariant, PTL DEF Spec

-----------------------------------------------------------------------------
(***************************************************************************)
(* Inspection looks like a read.  A record expires at a time that is past  *)
(* its expiry, so recall has not offered it from that time on; and the     *)
(* expiries of one inspection carry the same time, the clock of its begin. *)
(***************************************************************************)

OneClock(C) ==
    \A ch, other \in C : ch.type = "expire" /\ other.type = "expire" =>
        ch.record.updated = other.record.updated

OneClockInv == \A p \in Clients : op[p].phase = "decided" => OneClock(op[p].changes)

LEMMA ConfirmOneClock ==
    ASSUME NEW s, NEW c, NEW now, NEW i
    PROVE  OneClock(ConfirmChanges(s, c, now, i))
<1>1. AddMemory(c, now, i).type = "add" BY DEF AddMemory
<1>2. ASSUME NEW e PROVE RefreshMemory(s, c, e, now).type = "refresh"
  BY DEF RefreshMemory
<1>3. ASSUME NEW e PROVE OneClock(Consolidate(s, c, now, i, e))
  BY <1>1, <1>2 DEF OneClock, Consolidate
<1> QED BY <1>1, <1>3 DEF OneClock, ConfirmChanges

LEMMA InspectOneClock ==
    ASSUME NEW s \in Snapshot, NEW now \in Nat
    PROVE  OneClock(InspectChanges(s, now))
<1>1. ASSUME NEW i \in Ids, Due(s.records[i], now)
      PROVE  ExpireMemory(s, i, now).record.updated = now
  <2>1. s.records[i] \in Record BY <1>1, SnapshotTypes DEF Due, IsActive
  <2>2. Retired(s.records[i], "expired", now).updated = now
    BY <2>1 DEF Retired, Record
  <2> QED BY <2>2 DEF ExpireMemory
<1> QED BY <1>1 DEF OneClock, InspectChanges

LEMMA OneClockStep == TypeOK /\ OneClockInv /\ [Next]_vars => OneClockInv'
<1> SUFFICES ASSUME TypeOK, OneClockInv, [Next]_vars, NEW p \in Clients,
                    op'[p].phase = "decided"
             PROVE  OneClock(op'[p].changes)
  BY DEF OneClockInv, OneClock
<1>1. CASE op'[p] = op[p] BY <1>1 DEF OneClockInv
<1>2. ASSUME NEW call, NEW C, Load(p, call, C)
      PROVE  op'[p].changes = C
  BY <1>2 DEF TypeOK, Load, Idle
<1>3. ASSUME LoadConfirm(p) PROVE OneClock(op'[p].changes)
  BY <1>2, <1>3, ConfirmOneClock DEF LoadConfirm
<1>4. ASSUME LoadCorrect(p) PROVE OneClock(op'[p].changes)
  <2>1. \A i \in Ids : OneClock(CorrectChanges(store, op[p].candidate, op[p].now, op[p].id, i))
    BY DEF CorrectChanges, OneClock
  <2> QED BY <1>2, <1>4, <2>1 DEF LoadCorrect
<1>5. ASSUME LoadInspect(p) PROVE OneClock(op'[p].changes)
  <2>1. store \in Snapshot /\ op[p].now \in Nat
    BY <1>5, OpTypes DEF LoadInspect, Load, TypeOK
  <2> QED BY <1>2, <1>5, <2>1, InspectOneClock DEF LoadInspect
<1>6. ASSUME LoadForget(p) PROVE OneClock(op'[p].changes)
  <2>1. OneClock(ForgetChanges(store, op[p].now, op[p].id))
    BY DEF ForgetChanges, OneClock
  <2> QED BY <1>2, <1>6, <2>1 DEF LoadForget
<1>7. ASSUME NEW x \in Clients,
             \/ BeginConfirm(x) \/ BeginCorrect(x) \/ BeginInspect(x) \/ BeginForget(x)
             \/ Apply(x) \/ Abandon(x)
      PROVE  op'[p] = op[p]
  <2>1. \E q \in Begun \cup {Idle} : op' = [op EXCEPT ![x] = q]
    BY <1>7 DEF TypeOK, BeginConfirm, BeginCorrect, BeginInspect, BeginForget, Begin,
                Apply, Abandon, Begun
  <2>2. \A q \in Begun \cup {Idle} : q.phase # "decided" BY DEF Begun, Idle
  <2> QED BY <2>1, <2>2 DEF TypeOK
<1>8. ASSUME NEW x \in Clients, x # p,
             LoadConfirm(x) \/ LoadCorrect(x) \/ LoadInspect(x) \/ LoadForget(x)
      PROVE  op'[p] = op[p]
  BY <1>8 DEF TypeOK, LoadConfirm, LoadCorrect, LoadInspect, LoadForget, Load
<1>9. ASSUME Tick \/ SetBack \/ UNCHANGED vars PROVE op'[p] = op[p]
  BY <1>9 DEF Tick, SetBack, vars
<1> QED BY <1>1, <1>3, <1>4, <1>5, <1>6, <1>7, <1>8, <1>9 DEF Next

\* A change set of expiries only hides what recall would not offer any more.
LEMMA ExpiryHidesNothing ==
    ASSUME NEW s \in Snapshot, NEW C \in SUBSET Change, ChangesAllowed(s, C), OneClock(C),
           \A ch \in C : ch.type = "expire", NEW ch \in C,
           NEW now \in Nat, now >= ch.record.updated
    PROVE  Recallable(ApplyTo(s, C), now) = Recallable(s, now)
<1> DEFINE t == ApplyTo(s, C)
<1>1. WellClaimed(C) /\ \A o \in C : ChangeAllowed(s, o)
  BY AllowedClaims DEF ChangesAllowed
<1>2. ASSUME NEW j \in Ids, \A o \in C : j \notin Claims(o)
      PROVE  t.records[j] = s.records[j]
  BY <1>1, <1>2, ApplyAt
<1>3. ASSUME NEW o \in C
      PROVE  o.id \notin Recallable(t, now) /\ o.id \notin Recallable(s, now)
  <2>1. o.id \in Ids /\ o.record \in Record /\ t.records[o.id] = o.record
    BY <1>1, ChangeTypes, ApplyAt
  <2>2. IsActive(s, o.id) /\ LifecycleStep(s.records[o.id], o.record, "expired")
    BY <1>1, AllowedTypes DEF ExpireAllowed
  <2>3. s.records[o.id] \in Record BY <2>1, <2>2, SnapshotTypes
  <2>4. o.record.status = "expired" /\ o.record.expires = s.records[o.id].expires
    BY <2>2, <2>3 DEF LifecycleStep, Record
  <2>5. /\ o.record.expires # Never /\ o.record.expires <= o.record.updated
        /\ o.record.expires \in Nat /\ o.record.updated \in Nat
    BY <2>1, <2>4 DEF Record
  <2>6. o.record.updated = ch.record.updated BY DEF OneClock
  <2>7. ~(o.record.expires > now) BY <2>5, <2>6
  <2> QED BY <2>1, <2>4, <2>5, <2>7 DEF Recallable, IsActive
<1>4. ASSUME NEW j \in Ids
      PROVE  j \in Recallable(t, now) <=> j \in Recallable(s, now)
  <2>1. CASE \A o \in C : j \notin Claims(o)
    BY <1>2, <2>1 DEF Recallable, IsActive
  <2>2. CASE \E o \in C : o.id = j
    BY <1>3, <2>2
  <2> QED BY <2>1, <2>2 DEF Claims
<1> HIDE DEF t
<1>5. Recallable(t, now) \subseteq Ids /\ Recallable(s, now) \subseteq Ids
  BY DEF Recallable
<1> QED BY <1>4, <1>5 DEF t

\* The expiry that list and show write changes nothing that a recall may
\* return from that time on.
THEOREM InspectionIsARead == Spec => ExpiryIsInvisible
<1> DEFINE Invisible ==
      \A p \in Clients :
          /\ op[p].phase = "decided" /\ store' # store /\ op'[p] # op[p]
          /\ \A ch \in op[p].changes : ch.type = "expire"
          => \A ch \in op[p].changes : \A now \in ch.record.updated..MaxTime :
                 Recallable(store', now) = Recallable(store, now)
<1>1. Init => OneClockInv BY DEF Init, Idle, OneClockInv
<1>2. TypeOK /\ OneClockInv /\ [Next]_vars => Invisible
  <2> SUFFICES ASSUME TypeOK, OneClockInv, [Next]_vars, NEW p \in Clients,
                      op[p].phase = "decided", store' # store, op'[p] # op[p],
                      \A ch \in op[p].changes : ch.type = "expire",
                      NEW ch \in op[p].changes, NEW now \in ch.record.updated..MaxTime
               PROVE  Recallable(store', now) = Recallable(store, now)
    OBVIOUS
  <2>1. PICK x \in Clients : Apply(x)
    BY DEF Next, vars, BeginConfirm, BeginCorrect, BeginInspect, BeginForget, Begin,
           LoadConfirm, LoadCorrect, LoadInspect, LoadForget, Load, Abandon, Tick, SetBack
  <2>2. x = p BY <2>1 DEF Apply, TypeOK
  <2>3. ChangesAllowed(store, op[p].changes) /\ store' = ApplyTo(store, op[p].changes)
    BY <2>1, <2>2 DEF Apply
  <2>4. store \in Snapshot /\ op[p].changes \in SUBSET Change /\ OneClock(op[p].changes)
    BY OpTypes DEF TypeOK, OneClockInv
  <2>5. ch.record.updated \in Nat /\ MaxTime \in Nat
    BY <2>4, ChangeTypes, RecordTypes, MemoryAssumption DEF MemoryAssumption
  <2>6. now \in Nat /\ now >= ch.record.updated BY <2>5
  <2> QED BY <2>3, <2>4, <2>6, ExpiryHidesNothing
<1>3. Spec => [][Invisible]_vars
  BY <1>1, <1>2, OneClockStep, TypeCorrect, PTL DEF Spec
<1> QED BY <1>3 DEF ExpiryIsInvisible

-----------------------------------------------------------------------------
(***************************************************************************)
(* Memory implements MemoryLifecycle.  Only apply changes the ledger, and  *)
(* the shape of its change set says which step of the lifecycle it is.     *)
(***************************************************************************)

Account(s, i) ==
    CASE IsRecord(s, i) ->
           [state |-> s.records[i].status, topic |-> s.records[i].topic,
            content |-> s.records[i].content, replaces |-> s.records[i].supersedes]
      [] ~IsRecord(s, i) /\ s.tombstones[i] # NoTombstone -> [state |-> "forgotten"]
      [] OTHER -> [state |-> "absent"]

LEMMA LedgerAccount == Ledger = [i \in Ids |-> Account(store, i)]
BY DEF Ledger, Account

LEMMA Accounts ==
    ASSUME NEW s \in Snapshot, NEW i \in Ids
    PROVE  /\ IsRecord(s, i) => Account(s, i) =
                [state |-> s.records[i].status, topic |-> s.records[i].topic,
                 content |-> s.records[i].content, replaces |-> s.records[i].supersedes]
           /\ ~IsRecord(s, i) /\ s.tombstones[i] # NoTombstone =>
                Account(s, i) = [state |-> "forgotten"]
           /\ ~Taken(s, i) => Account(s, i) = [state |-> "absent"]
           /\ Account(s, i).state = "active" <=> IsActive(s, i)
<1>1. CASE IsRecord(s, i)
  BY <1>1 DEF Account, IsActive, Taken
<1>2. CASE ~IsRecord(s, i)
  BY <1>2, SnapshotTypes DEF Account, Taken
<1> QED BY <1>1, <1>2

LEMMA AccountUnclaimed ==
    ASSUME NEW s \in Snapshot, NEW C \in SUBSET Change, WellClaimed(C), NEW j \in Ids,
           \A ch \in C : j \notin Claims(ch)
    PROVE  Account(ApplyTo(s, C), j) = Account(s, j)
<1>1. /\ ApplyTo(s, C).records[j] = s.records[j]
      /\ ApplyTo(s, C).tombstones[j] = s.tombstones[j]
  BY ApplyAt
<1> QED BY <1>1 DEF Account, IsRecord

\* The account of the ID of each kind of change, before and after it.
LEMMA AccountClaimed ==
    ASSUME NEW s \in Snapshot, NEW C \in SUBSET Change, WellClaimed(C),
           NEW ch \in C, ChangeAllowed(s, ch)
    PROVE  LET old == Account(s, ch.id)
               new == Account(ApplyTo(s, C), ch.id) IN
           /\ ch.type = "add" =>
                /\ old = [state |-> "absent"]
                /\ new = [state |-> "active", topic |-> ch.record.topic,
                          content |-> ch.record.content, replaces |-> NoId]
           /\ ch.type = "refresh" => new = old
           /\ ch.type = "expire" =>
                /\ old = [state |-> "active", topic |-> s.records[ch.id].topic,
                          content |-> s.records[ch.id].content,
                          replaces |-> s.records[ch.id].supersedes]
                /\ new = [state |-> "expired", topic |-> s.records[ch.id].topic,
                          content |-> s.records[ch.id].content,
                          replaces |-> s.records[ch.id].supersedes]
                /\ ch.record.topic = s.records[ch.id].topic
           /\ ch.type = "supersede" =>
                /\ old = [state |-> "active", topic |-> s.records[ch.id].topic,
                          content |-> s.records[ch.id].content,
                          replaces |-> s.records[ch.id].supersedes]
                /\ new = [state |-> "superseded", topic |-> s.records[ch.id].topic,
                          content |-> s.records[ch.id].content,
                          replaces |-> s.records[ch.id].supersedes]
                /\ Account(s, ch.newid) = [state |-> "absent"]
                /\ Account(ApplyTo(s, C), ch.newid) =
                      [state |-> "active", topic |-> s.records[ch.id].topic,
                       content |-> ch.replacement.content, replaces |-> ch.id]
           /\ ch.type = "forget" =>
                /\ old.state \in {"active", "superseded", "expired"}
                /\ new = [state |-> "forgotten"]
<1> DEFINE t == ApplyTo(s, C)
           i == ch.id
           r == s.records[i]
<1>1. ch \in Change /\ i \in Ids /\ t \in Snapshot BY ChangeTypes, ApplyToType
<1>2. ch.type # "forget" => t.records[i] = ch.record /\ ch.record \in Record
  BY <1>1, ApplyAt, ChangeTypes
<1>3. ch.type # "forget" => IsRecord(t, i)
  BY <1>2, RecordTypes DEF IsRecord
<1>4. CASE ch.type = "add"
  <2>1. AddAllowed(s, ch) BY <1>1, <1>4, AllowedTypes
  <2> QED BY <1>1, <1>2, <1>3, <1>4, <2>1, Accounts DEF AddAllowed, FirstRevision
<1>5. CASE ch.type = "refresh"
  <2>1. RefreshAllowed(s, ch) BY <1>1, <1>5, AllowedTypes
  <2>2. IsRecord(s, i) /\ r.status = "active"
    BY <1>1, <2>1, SnapshotTypes DEF RefreshAllowed, IsActive
  <2> QED BY <1>1, <1>2, <1>3, <1>5, <2>1, <2>2, Accounts DEF RefreshAllowed
<1>6. ASSUME NEW st \in {"expired", "superseded"}, IsActive(s, i), ch.type # "forget",
             LifecycleStep(r, ch.record, st)
      PROVE  /\ Account(s, i) =
                  [state |-> "active", topic |-> r.topic, content |-> r.content,
                   replaces |-> r.supersedes]
             /\ Account(t, i) =
                  [state |-> st, topic |-> r.topic, content |-> r.content,
                   replaces |-> r.supersedes]
             /\ ch.record.topic = r.topic
  <2>1. IsRecord(s, i) /\ r \in Record /\ r.status = "active"
    BY <1>1, <1>6, SnapshotTypes DEF IsActive
  <2>2. /\ ch.record.status = st /\ ch.record.topic = r.topic
        /\ ch.record.content = r.content /\ ch.record.supersedes = r.supersedes
    BY <1>6, <2>1 DEF LifecycleStep, Record
  <2> QED BY <1>1, <1>2, <1>3, <1>6, <2>1, <2>2, Accounts
<1>7. CASE ch.type = "expire"
  BY <1>1, <1>6, <1>7, AllowedTypes DEF ExpireAllowed
<1>8. CASE ch.type = "supersede"
  <2>1. SupersedeAllowed(s, ch) /\ ch.newid \in Ids /\ ch.replacement \in Record
    BY <1>1, <1>8, AllowedTypes, ChangeTypes
  <2>2. t.records[ch.newid] = ch.replacement BY <1>8, <2>1, ApplyAt
  <2>3. IsRecord(t, ch.newid) BY <2>1, <2>2, RecordTypes DEF IsRecord
  <2>4. /\ Account(s, ch.newid) = [state |-> "absent"]
        /\ Account(t, ch.newid) =
              [state |-> "active", topic |-> r.topic,
               content |-> ch.replacement.content, replaces |-> i]
    BY <1>1, <2>1, <2>2, <2>3, Accounts DEF SupersedeAllowed, FirstRevision
  <2> QED BY <1>6, <1>8, <2>1, <2>4 DEF SupersedeAllowed
<1>9. CASE ch.type = "forget"
  <2>1. IsRecord(s, i) /\ r \in Record
    BY <1>1, <1>9, AllowedTypes, SnapshotTypes DEF ForgetAllowed
  <2>2. t.records[i] = NoRecord /\ t.tombstones[i] \in Tombstone
    BY <1>1, <1>9, ApplyAt, ChangeTypes
  <2>3. ~IsRecord(t, i) /\ t.tombstones[i] # NoTombstone
    BY <2>2 DEF IsRecord, Tombstone, NoTombstone
  <2> QED BY <1>1, <1>9, <2>1, <2>3, Accounts, RecordTypes
<1> QED BY <1>1, <1>4, <1>5, <1>7, <1>8, <1>9, ChangeTypes

\* The account of an ID that expires or is superseded changes in its state only.
LEMMA AccountMoves ==
    ASSUME NEW s \in Snapshot, NEW C \in SUBSET Change, WellClaimed(C),
           NEW ch \in C, ChangeAllowed(s, ch)
    PROVE  /\ ch.type = "expire" =>
                /\ Account(s, ch.id).state = "active"
                /\ Account(s, ch.id).topic = ch.record.topic
                /\ Account(ApplyTo(s, C), ch.id) =
                      [Account(s, ch.id) EXCEPT !.state = "expired"]
           /\ ch.type = "supersede" =>
                /\ Account(s, ch.id).state = "active"
                /\ Account(ApplyTo(s, C), ch.id) =
                      [Account(s, ch.id) EXCEPT !.state = "superseded"]
                /\ Account(s, ch.newid) = [state |-> "absent"]
                /\ Account(ApplyTo(s, C), ch.newid) =
                      [state |-> "active", topic |-> Account(s, ch.id).topic,
                       content |-> ch.replacement.content, replaces |-> ch.id]
<1> DEFINE old == Account(s, ch.id)
           new == Account(ApplyTo(s, C), ch.id)
           r   == s.records[ch.id]
           Entry(st) == [state |-> st, topic |-> r.topic, content |-> r.content,
                         replaces |-> r.supersedes]
<1>1. CASE ch.type = "expire"
  <2>1. old = Entry("active") /\ new = Entry("expired") /\ ch.record.topic = r.topic
    BY <1>1, AccountClaimed
  <2> HIDE DEF old, new
  <2>2. new = [old EXCEPT !.state = "expired"] BY <2>1
  <2> QED BY <1>1, <2>1, <2>2 DEF old, new
<1>2. CASE ch.type = "supersede"
  <2>1. /\ old = Entry("active") /\ new = Entry("superseded")
        /\ Account(s, ch.newid) = [state |-> "absent"]
        /\ Account(ApplyTo(s, C), ch.newid) =
              [state |-> "active", topic |-> r.topic,
               content |-> ch.replacement.content, replaces |-> ch.id]
    BY <1>2, AccountClaimed
  <2> HIDE DEF old, new
  <2>2. /\ new = [old EXCEPT !.state = "superseded"]
        /\ old.state = "active" /\ old.topic = r.topic
    BY <2>1
  <2> QED BY <1>2, <2>1, <2>2 DEF old, new
<1> QED BY <1>1, <1>2

LEMMA LedgerStep ==
    ASSUME store \in Snapshot, NEW C \in SUBSET Change, WellClaimed(C),
           store' = ApplyTo(store, C)
    PROVE  /\ Ledger = [j \in Ids |-> Account(store, j)]
           /\ Ledger' = [j \in Ids |-> Account(ApplyTo(store, C), j)]
           /\ \A j \in Ids : (\A ch \in C : j \notin Claims(ch)) => Ledger'[j] = Ledger[j]
<1>1. /\ Ledger = [j \in Ids |-> Account(store, j)]
      /\ Ledger' = [j \in Ids |-> Account(store', j)]
  BY DEF Ledger, Account, IsRecord
<1> QED BY <1>1, AccountUnclaimed

\* A change set of one change is one step of the lifecycle, or none.
LEMMA SingleImplements ==
    ASSUME ValidStore(store), NEW ch \in Change, ChangesAllowed(store, {ch}),
           store' = ApplyTo(store, {ch})
    PROVE  [Lifecycle!LNext]_Ledger
<1> DEFINE C == {ch}
           i == ch.id
<1>1. store \in Snapshot /\ C \in SUBSET Change /\ ch \in C /\ ChangeAllowed(store, ch)
  BY DEF ValidStore, ChangesAllowed
<1>2. WellClaimed(C) /\ i \in Ids BY <1>1, AllowedClaims, ChangeTypes
<1>3. /\ Ledger = [j \in Ids |-> Account(store, j)]
      /\ Ledger' = [j \in Ids |-> Account(ApplyTo(store, C), j)]
      /\ \A j \in Ids : j \notin Claims(ch) => Ledger'[j] = Ledger[j]
  BY <1>1, <1>2, LedgerStep
<1>4. ch.type # "forget" =>
        ch.record.topic \in Topics /\ ch.record.content \in Contents
  BY ChangeTypes, RecordTypes
<1> HIDE DEF C
<1>5. CASE ch.type = "add"
  <2>1. Claims(ch) = {i} BY <1>5 DEF Claims
  <2>2. /\ Ledger[i] = Lifecycle!Absent
        /\ Ledger'[i] = Lifecycle!Entry("active", ch.record.topic, ch.record.content, NoId)
    BY <1>1, <1>2, <1>3, <1>5, AccountClaimed DEF Lifecycle!Absent, Lifecycle!Entry
  <2>3. Ledger' = [Ledger EXCEPT ![i] =
          Lifecycle!Entry("active", ch.record.topic, ch.record.content, NoId)]
    BY <1>2, <1>3, <2>1, <2>2
  <2>4. ASSUME NEW k \in Lifecycle!Alive(ch.record.topic) PROVE FALSE
    <3>1. k \in Ids /\ IsActive(store, k) /\ store.records[k].topic = ch.record.topic
      <4>1. /\ k \in Ids /\ Account(store, k).state = "active"
            /\ Account(store, k).topic = ch.record.topic
        BY <1>3, <2>4 DEF Lifecycle!Alive
      <4>2. IsActive(store, k) /\ IsRecord(store, k)
        BY <1>1, <4>1, Accounts, SnapshotTypes
      <4> QED BY <1>1, <4>1, <4>2, Accounts
    <3>2. k # i
      BY <1>1, <1>2, <1>5, <3>1, AllowedTypes, SnapshotTypes DEF AddAllowed, Taken
    <3>3. /\ ApplyTo(store, C).records[k] = store.records[k]
          /\ ApplyTo(store, C).records[i] = ch.record
      BY <1>1, <1>2, <1>5, <2>1, <3>1, <3>2, ApplyAt DEF C
    <3>4. ch.record.status = "active"
      BY <1>1, <1>5, AllowedTypes DEF AddAllowed, FirstRevision
    <3>5. ValidSnapshot(ApplyTo(store, C)) BY DEF ChangesAllowed, C
    <3> QED BY <1>2, <3>1, <3>2, <3>3, <3>4, <3>5 DEF ValidSnapshot, IsActive
  <2>5. Lifecycle!Remember(i, ch.record.topic, ch.record.content)
    BY <2>2, <2>3, <2>4 DEF Lifecycle!Remember
  <2> QED BY <1>2, <1>4, <1>5, <2>5 DEF Lifecycle!LNext
<1>6. CASE ch.type = "refresh"
  <2>1. Claims(ch) = {i} BY <1>6 DEF Claims
  <2>2. Ledger'[i] = Ledger[i] BY <1>1, <1>2, <1>3, <1>6, AccountClaimed
  <2> QED BY <1>3, <2>1, <2>2
<1>7. CASE ch.type = "expire"
  <2>1. Claims(ch) = {i} BY <1>7 DEF Claims
  <2> DEFINE x == Account(store, i)
             y == Account(ApplyTo(store, C), i)
  <2>2. x.state = "active" /\ y = [x EXCEPT !.state = "expired"]
    BY <1>1, <1>2, <1>7, AccountMoves
  <2>3. Ledger[i] = x /\ Ledger'[i] = y BY <1>2, <1>3
  <2> HIDE DEF x, y
  <2>4. Ledger[i].state = "active" /\ Ledger'[i] = [Ledger[i] EXCEPT !.state = "expired"]
    BY <2>2, <2>3
  <2>5. Lifecycle!Expire({i}) BY <1>3, <2>1, <2>4 DEF Lifecycle!Expire
  <2> QED BY <1>2, <2>5 DEF Lifecycle!LNext
<1>8. CASE ch.type = "supersede"
  <2> DEFINE k == ch.newid
  <2>1. /\ Claims(ch) = {i, k} /\ k \in Ids /\ i # k
        /\ ch.replacement.content \in Contents
    BY <1>1, <1>8, AllowedTypes, ChangeTypes, RecordTypes DEF Claims, SupersedeAllowed
  <2>2. /\ Ledger[i].state = "active"
        /\ Ledger'[i] = [Ledger[i] EXCEPT !.state = "superseded"]
        /\ Ledger[k] = Lifecycle!Absent
        /\ Ledger'[k] = Lifecycle!Entry("active", Ledger[i].topic, ch.replacement.content, i)
    <3> DEFINE x == Account(store, i)
               y == Account(ApplyTo(store, C), i)
               w == Account(store, k)
               z == Account(ApplyTo(store, C), k)
    <3>1. /\ x.state = "active" /\ y = [x EXCEPT !.state = "superseded"]
          /\ w = [state |-> "absent"]
          /\ z = [state |-> "active", topic |-> x.topic,
                  content |-> ch.replacement.content, replaces |-> i]
      BY <1>1, <1>2, <1>8, AccountMoves
    <3>2. Ledger[i] = x /\ Ledger'[i] = y /\ Ledger[k] = w /\ Ledger'[k] = z
      BY <1>2, <1>3, <2>1
    <3> HIDE DEF x, y, w, z
    <3> QED BY <3>1, <3>2 DEF Lifecycle!Absent, Lifecycle!Entry
  <2>3. Lifecycle!Correct(i, k, ch.replacement.content)
    BY <1>2, <1>3, <2>1, <2>2 DEF Lifecycle!Correct
  <2> QED BY <1>2, <2>1, <2>3 DEF Lifecycle!LNext
<1>9. CASE ch.type = "forget"
  <2>1. Claims(ch) = {i} BY <1>9 DEF Claims
  <2>2. /\ Ledger[i].state \in {"active", "superseded", "expired"}
        /\ Ledger'[i] = Lifecycle!Forgotten
    BY <1>1, <1>2, <1>3, <1>9, AccountClaimed DEF Lifecycle!Forgotten
  <2>3. Lifecycle!Forget(i) BY <1>2, <1>3, <2>1, <2>2 DEF Lifecycle!Forget
  <2> QED BY <1>2, <2>3 DEF Lifecycle!LNext
<1> QED BY <1>5, <1>6, <1>7, <1>8, <1>9, ChangeTypes

\* Expiring one record and adding another of its topic renews the topic.
LEMMA RenewImplements ==
    ASSUME ValidStore(store), NEW C \in SUBSET Change, ChangesAllowed(store, C),
           store' = ApplyTo(store, C), NEW old \in C, NEW new \in C, C = {old, new},
           old.type = "expire", new.type = "add", old.record.topic = new.record.topic
    PROVE  [Lifecycle!LNext]_Ledger
<1> DEFINE i == old.id
           j == new.id
<1>1. /\ store \in Snapshot /\ WellClaimed(C)
      /\ ChangeAllowed(store, old) /\ ChangeAllowed(store, new)
  BY AllowedClaims DEF ValidStore, ChangesAllowed
<1>2. /\ Ledger = [k \in Ids |-> Account(store, k)]
      /\ Ledger' = [k \in Ids |-> Account(ApplyTo(store, C), k)]
      /\ \A k \in Ids : (\A ch \in C : k \notin Claims(ch)) => Ledger'[k] = Ledger[k]
  BY <1>1, LedgerStep
<1>3. Claims(old) = {i} /\ Claims(new) = {j} /\ i \in Ids /\ j \in Ids
  BY ChangeTypes DEF Claims
<1>4. i # j BY <1>1, <1>3 DEF WellClaimed
<1>5. new.record.content \in Contents BY ChangeTypes, RecordTypes
<1>6. /\ Ledger[i].state = "active" /\ Ledger[i].topic = new.record.topic
      /\ Ledger'[i] = [Ledger[i] EXCEPT !.state = "expired"]
  BY <1>1, <1>2, <1>3, AccountMoves
<1>7. /\ Ledger[j] = Lifecycle!Absent
      /\ Ledger'[j] = Lifecycle!Entry("active", new.record.topic, new.record.content, NoId)
  BY <1>1, <1>2, <1>3, AccountClaimed DEF Lifecycle!Absent, Lifecycle!Entry
<1>8. \A k \in Ids : k # i /\ k # j => Ledger'[k] = Ledger[k] BY <1>2, <1>3
<1>9. Lifecycle!Renew(i, j, new.record.content)
  BY <1>2, <1>3, <1>4, <1>6, <1>7, <1>8 DEF Lifecycle!Renew
<1> QED BY <1>3, <1>5, <1>9 DEF Lifecycle!LNext

LEMMA ExpireImplements ==
    ASSUME ValidStore(store), NEW C \in SUBSET Change, ChangesAllowed(store, C),
           store' = ApplyTo(store, C), \A ch \in C : ch.type = "expire"
    PROVE  [Lifecycle!LNext]_Ledger
<1> DEFINE S == {ch.id : ch \in C}
<1>1. /\ store \in Snapshot /\ WellClaimed(C)
      /\ \A ch \in C : ChangeAllowed(store, ch) /\ Claims(ch) = {ch.id} /\ ch.id \in Ids
  BY AllowedClaims, ChangeTypes DEF ValidStore, ChangesAllowed, Claims
<1>2. /\ Ledger = [k \in Ids |-> Account(store, k)]
      /\ Ledger' = [k \in Ids |-> Account(ApplyTo(store, C), k)]
      /\ \A k \in Ids : (\A ch \in C : k \notin Claims(ch)) => Ledger'[k] = Ledger[k]
  BY <1>1, LedgerStep
<1>3. ASSUME NEW ch \in C
      PROVE  /\ Ledger[ch.id].state = "active"
             /\ Ledger'[ch.id] = [Ledger[ch.id] EXCEPT !.state = "expired"]
  <2> DEFINE x == Account(store, ch.id)
             y == Account(ApplyTo(store, C), ch.id)
  <2>1. ch.type = "expire" /\ ChangeAllowed(store, ch) /\ ch.id \in Ids BY <1>1, <1>3
  <2>2. x.state = "active" /\ y = [x EXCEPT !.state = "expired"]
    BY <1>1, <1>3, <2>1, AccountMoves
  <2>3. Ledger[ch.id] = x /\ Ledger'[ch.id] = y BY <1>2, <2>1
  <2> HIDE DEF x, y
  <2> QED BY <2>2, <2>3
<1>4. \A k \in S : /\ Ledger[k].state = "active"
                   /\ Ledger'[k] = [Ledger[k] EXCEPT !.state = "expired"]
  BY <1>3
<1>5. \A k \in Ids : k \notin S => Ledger'[k] = Ledger[k] BY <1>1, <1>2
<1>6. S \in SUBSET Ids BY <1>1
<1> HIDE DEF S
<1>7. Lifecycle!Expire(S) BY <1>2, <1>4, <1>5 DEF Lifecycle!Expire
<1> QED BY <1>6, <1>7 DEF Lifecycle!LNext

LEMMA StepImplements == IInv /\ [Next]_vars => [Lifecycle!LNext]_Ledger
<1> SUFFICES ASSUME IInv, [Next]_vars PROVE [Lifecycle!LNext]_Ledger
  OBVIOUS
<1>1. ASSUME NEW p \in Clients, Apply(p), store' # store
      PROVE  [Lifecycle!LNext]_Ledger
  <2> DEFINE C == op[p].changes
  <2>1. /\ op[p].phase = "decided" /\ ChangesAllowed(store, C)
        /\ store' = ApplyTo(store, C)
    BY <1>1 DEF Apply
  <2>2. ValidStore(store) /\ C \in SUBSET Change /\ Shape(C)
    BY <2>1, OpTypes DEF IInv, StoreInv, DecisionInv, ValidStore, TypeOK
  <2> HIDE DEF C
  <2>3. CASE \E ch \in C : C = {ch} BY <2>1, <2>2, <2>3, SingleImplements
  <2>4. CASE \E old, new \in C : /\ C = {old, new}
                                 /\ old.type = "expire" /\ new.type = "add"
                                 /\ old.record.topic = new.record.topic
    BY <2>1, <2>2, <2>4, RenewImplements
  <2>5. CASE \A ch \in C : ch.type = "expire" BY <2>1, <2>2, <2>5, ExpireImplements
  <2> QED BY <2>2, <2>3, <2>4, <2>5 DEF Shape
<1>2. CASE store' = store
  BY <1>2 DEF Ledger, IsRecord
<1>3. store' = store \/ \E p \in Clients : Apply(p)
  BY DEF Next, vars, BeginConfirm, BeginCorrect, BeginInspect, BeginForget, Begin,
         LoadConfirm, LoadCorrect, LoadInspect, LoadForget, Load, Abandon, Tick, SetBack
<1> QED BY <1>1, <1>2, <1>3

\* Whatever clients, clocks, crashes and lost races do, the scope is a
\* lifecycle of propositions.
THEOREM MemoryImplementsLifecycle == Spec => ImplementsLifecycle
<1>1. Init => Lifecycle!LInit
  BY DEF Init, Ledger, IsRecord, Lifecycle!LInit, Lifecycle!Absent
<1> QED BY <1>1, StepImplements, Invariant, PTL DEF Spec, ImplementsLifecycle, Lifecycle!LSpec
=============================================================================
