-------------------------- MODULE CodingRunProofs --------------------------
(***************************************************************************)
(* What holds of every run of the coding application, whatever validators, *)
(* calls and limitations it is configured with and whoever else writes in  *)
(* the workspace: the types and the bound on the limitations, that a       *)
(* verdict "passed" was earned, and that the evidence hides no call.       *)
(***************************************************************************)
EXTENDS CodingRun, FiniteSetTheorems, SequenceTheorems, WellFoundedInduction, TLAPS

----------------------------------------------------------------------------
(* The inductive invariant *)

Early == {"idle", "targets", "baseline", "repository", "context"}
Late == {"final", "validate", "verdict", "finish"}

\* Before the agent has run there is nothing to show.
Untouched ==
    pc \in Early \cup {"agent"} =>
        /\ diff = None /\ final = None /\ limitations = << >>
        /\ raw = << >> /\ ran = << >> /\ complete
        /\ pc # "agent" => /\ attempts = {} /\ collected = {} /\ ~escaped
                           /\ toolComplete /\ ~touched

\* The snapshots that the later steps read: no governed call comes after the
\* final one, and until somebody else writes the workspace is what it shows.
Snapped ==
    /\ "call" \notin since
    /\ pc \in {"repository", "context", "agent", "salvage"} \cup Late
         => baseline \in Snapshots
    /\ pc \in {"validate", "verdict", "finish"}
         => final \in Snapshots /\ diff = Diff(baseline, final)
    /\ pc = "validate" /\ since = {}
         => \A scope \in DOMAIN final : world[scope] = final[scope]

\* Every call has its record in the run or the run knows that it has not, and
\* so has every effect.
Missing == escaped \/ ~toolComplete \/ ~complete

Calls ==
    /\ \A a \in attempts : IF a.recorded THEN a.effect \in collected ELSE Missing
    /\ touched => collected \ {"none"} # {} \/ Missing
    /\ pc \notin Early \cup {"agent"} => (complete => toolComplete)
    /\ pc \in Late => ~escaped

\* The missing records are named first, so that no later limitation pushes
\* them out, and only the configured ones come before them at the end.
Told ==
    ~complete /\ Len(Configured) < MaxLimitations =>
        /\ pc \in {"salvage", "final", "validate", "verdict"} =>
              limitations # << >> /\ limitations[1] = RecordsMissing
        /\ pc \in {"finish", "failing", "ended"} => RecordsMissing \in Range(limitations)

\* A process of the definition that ended accepted and clean.
Backed(one) ==
    /\ one.process \in DOMAIN ran
    /\ ran[one.process].id = one.id
    /\ ran[one.process].clean

Once == IsInjective(definitions) =>
            \A j, k \in DOMAIN ran : ran[j].id = ran[k].id => j = k

\* While the validators run, in their order.
Validating ==
    /\ Len(raw) <= Len(definitions)
    /\ \A i \in DOMAIN raw : raw[i].id = definitions[i]
    /\ \A p \in DOMAIN ran : \E i \in DOMAIN raw : ran[p].id = raw[i].id

\* What the runner returned answers every definition, or is too short.
Complete ==
    \/ Len(raw) < Len(definitions)
    \/ \A i \in DOMAIN definitions : i \in DOMAIN raw /\ raw[i].id = definitions[i]

Validated ==
    /\ Once
    /\ \A p \in DOMAIN ran : ran[p].shown
    /\ \A k \in DOMAIN raw : raw[k].status = "passed" => Backed(raw[k])
    /\ pc = "final" => raw = << >> /\ ran = << >>
    /\ pc = "validate" => Validating
    /\ pc = "verdict" => results = Normalise(raw) /\ Complete

Decided ==
    /\ pc = "finish" \/ answer = "result"
         => (verdict = "passed" => EachPassed /\ NothingOpen)
    /\ answer # "none" => pc = "ended"

IInv == TypeOK /\ Untouched /\ Snapped /\ Calls /\ Told /\ Validated /\ Decided

----------------------------------------------------------------------------
(* The bounded list of limitations *)

\* A set of naturals has a least element: of their initial intervals, one is minimal.
LEMMA LeastOf ==
    ASSUME NEW T \in SUBSET Nat, T # {}
    PROVE  \E x \in T : \A y \in T : x <= y
<1> DEFINE Initials == {1 .. x : x \in T}
<1>1. Initials \subseteq FiniteSubsetsOf(Nat) /\ Initials # {}
  <2>1. \A x \in T : IsFiniteSet(1 .. x) /\ 1 .. x \subseteq Nat
    BY FS_Interval
  <2> QED
    BY <2>1 DEF FiniteSubsetsOf
<1> HIDE DEF Initials
<1>2. \E B \in Initials : \A C \in Initials : ~ (<<C, B>> \in StrictSubsetOrdering(Nat))
  BY <1>1, FS_StrictSubsetOrderingWellFounded, WFMin
<1>3. PICK B \in Initials : \A C \in Initials : ~ (<<C, B>> \in StrictSubsetOrdering(Nat))
  BY <1>2
<1>4. PICK x \in T : B = 1 .. x
  BY DEF Initials
<1>5. ASSUME NEW y \in T, y < x
      PROVE  FALSE
  <2>1. x \in Nat /\ y \in Nat
    OBVIOUS
  <2>2. x \in 1 .. x /\ x \notin 1 .. y /\ 1 .. y \subseteq 1 .. x
    BY <2>1, <1>5
  <2>3. 1 .. y # 1 .. x
    BY <2>2
  <2>4. 1 .. y \subseteq Nat /\ 1 .. x \subseteq Nat
    BY <2>1
  <2>5. <<1 .. y, B>> \in StrictSubsetOrdering(Nat)
    BY <2>2, <2>3, <2>4, <1>4 DEF StrictSubsetOrdering
  <2>6. 1 .. y \in Initials
    BY DEF Initials
  <2> QED
    BY <2>5, <2>6, <1>3
<1> QED
  BY <1>5

\* What dict.fromkeys keeps: elements of the list, each one no later than the
\* list has it.
LEMMA DistinctTypes ==
    ASSUME NEW S, NEW values \in Seq(S)
    PROVE  /\ Distinct(values) \in Seq(S)
           /\ \A i \in DOMAIN values : \E n \in 1 .. Len(Distinct(values)) :
                 n <= i /\ Distinct(values)[n] = values[i]
<1> DEFINE first == {i \in DOMAIN values : \A j \in 1 .. i - 1 : values[j] # values[i]}
           Upto(i) == {j \in first : j <= i}
           Place(i) == Cardinality(Upto(i))
           place == [i \in first |-> Place(i)]
           size == Cardinality(first)
<1>0. DOMAIN values = 1 .. Len(values) /\ Len(values) \in Nat
  BY LenProperties
<1>1. IsFiniteSet(first) /\ size \in Nat /\ first \subseteq 1 .. Len(values)
  <2>1. first \subseteq 1 .. Len(values)
    BY <1>0
  <2>2. IsFiniteSet(1 .. Len(values))
    BY <1>0, FS_Interval
  <2> QED
    BY <2>1, <2>2, FS_Subset, FS_CardinalityType
<1>2. ASSUME NEW i \in first
      PROVE  IsFiniteSet(Upto(i)) /\ Place(i) \in 1 .. size /\ Place(i) <= i
  <2>1. i \in Nat /\ i >= 1
    BY <1>1, <1>0
  <2>2. IsFiniteSet(1 .. i) /\ Cardinality(1 .. i) = i
    BY <2>1, FS_Interval
  <2>3. Upto(i) \subseteq 1 .. i /\ Upto(i) \subseteq first
    BY <1>1, <2>1, <1>0
  <2>4. IsFiniteSet(Upto(i)) /\ Place(i) <= i
    BY <2>2, <2>3, FS_Subset
  <2>5. Place(i) <= size
    BY <1>1, <2>3, FS_Subset
  <2>6. i \in Upto(i)
    BY <2>1
  <2>7. Place(i) \in Nat /\ Place(i) # 0
    BY <2>4, <2>6, FS_CardinalityType, FS_EmptySet
  <2> HIDE DEF Upto, first
  <2> QED
    BY <2>4, <2>5, <2>7, <1>1
<1>3. ASSUME NEW i \in first, NEW k \in first, Place(i) = Place(k)
      PROVE  i = k
  <2>1. i \in Nat /\ k \in Nat
    BY <1>1, <1>0
  <2>2. ASSUME NEW a \in first, NEW b \in first, a < b
        PROVE  Place(a) # Place(b)
    <3>1. a \in Nat /\ b \in Nat
      BY <1>1, <1>0
    <3>2. Upto(a) \subseteq Upto(b) /\ b \in Upto(b) /\ b \notin Upto(a)
      BY <2>2, <3>1, <1>1, <1>0
    <3>3. Upto(a) # Upto(b)
      BY <3>2
    <3>4. IsFiniteSet(Upto(b)) /\ Upto(a) \in SUBSET Upto(b)
      BY <1>2, <3>2
    <3> HIDE DEF Upto
    <3> QED
      BY <3>3, <3>4, FS_Subset
  <2> HIDE DEF Place
  <2> QED
    BY <2>1, <2>2, <1>3
<1> HIDE DEF Place
<1>4. ASSUME NEW n \in 1 .. size
      PROVE  \E i \in first : Place(i) = n
  <2>1. place \in Injection(first, 1 .. size)
    BY <1>2, <1>3 DEF Injection, IsInjective
  <2>2. IsFiniteSet(1 .. size) /\ Cardinality(1 .. size) = size
    BY <1>1, FS_Interval
  <2>3. place \in Surjection(first, 1 .. size)
    <3> HIDE DEF place, first
    <3> QED
      BY <2>1, <2>2, FS_Injection
  <2> QED
    BY <2>3, <1>4 DEF Surjection
<1> DEFINE At(n) == CHOOSE i \in first : Place(i) = n
<1>5. Distinct(values) = [n \in 1 .. size |-> values[At(n)]]
  BY DEF Distinct, Place
<1>6. ASSUME NEW n \in 1 .. size
      PROVE  At(n) \in first /\ Place(At(n)) = n
  BY <1>4
<1>7. \A n \in 1 .. size : values[At(n)] \in S
  BY <1>6, <1>1, ElementOfSeq
<1> HIDE DEF At
<1>8. Distinct(values) \in [1 .. size -> S]
  BY <1>5, <1>7
<1>9. Distinct(values) \in Seq(S) /\ Len(Distinct(values)) = size
  <2> HIDE DEF size
  <2>1. Distinct(values) \in UNION {[1 .. n -> S] : n \in Nat}
    BY <1>8, <1>1
  <2>2. Distinct(values) \in Seq(S)
    BY <2>1, SeqDef
  <2>3. DOMAIN Distinct(values) = 1 .. size
    BY <1>8
  <2> QED
    BY <2>2, <2>3, <1>1, LenProperties
<1>10. ASSUME NEW i \in DOMAIN values
       PROVE  \E n \in 1 .. size : n <= i /\ Distinct(values)[n] = values[i]
  <2> DEFINE same == {j \in DOMAIN values : values[j] = values[i]}
  <2>1. same \in SUBSET Nat /\ i \in same
    BY <1>0
  <2>2. PICK x \in same : \A y \in same : x <= y
    <3> HIDE DEF same
    <3> QED
      BY <2>1, LeastOf
  <2>3. x \in first /\ x <= i /\ values[x] = values[i] /\ i \in Nat /\ x \in Nat
    BY <2>1, <2>2, <1>0
  <2>4. Place(x) \in 1 .. size /\ Place(x) <= x
    BY <1>2, <2>3
  <2>5. At(Place(x)) = x
    BY <1>3, <1>6, <2>3, <2>4
  <2> HIDE DEF same, first
  <2> DEFINE n == Place(x)
  <2>6. n \in 1 .. size /\ n <= i /\ Distinct(values)[n] = values[i]
    BY <2>3, <2>4, <2>5, <1>5, <1>1
  <2> QED
    BY <2>6
<1> QED
  BY <1>9, <1>10

\* What _append_limitation returns: a list within the bound that holds whatever
\* the values had within the bound, and the first of them first.
LEMMA BoundedTypes ==
    ASSUME NEW S, NEW values \in Seq(S)
    PROVE  /\ Bounded(values) \in Seq(S)
           /\ Len(Bounded(values)) <= MaxLimitations
           /\ \A i \in DOMAIN values : i <= MaxLimitations
                 => values[i] \in Range(Bounded(values))
           /\ values # << >> /\ MaxLimitations # 0
                 => Bounded(values) # << >> /\ Bounded(values)[1] = values[1]
<1> DEFINE kept == Distinct(values)
           most == IF Len(kept) < MaxLimitations THEN Len(kept) ELSE MaxLimitations
<1>0. MaxLimitations \in Nat
  BY CodingAssumption DEF CodingAssumption
<1>1. /\ kept \in Seq(S)
      /\ \A i \in DOMAIN values : \E n \in 1 .. Len(kept) : n <= i /\ kept[n] = values[i]
  BY DistinctTypes
<1>2. Bounded(values) = SubSeq(kept, 1, most)
  BY DEF Bounded
<1>3. DOMAIN values = 1 .. Len(values) /\ Len(values) \in Nat
  BY LenProperties
<1> HIDE DEF kept
<1>4. Len(kept) \in Nat /\ most \in Nat /\ most <= Len(kept) /\ most <= MaxLimitations
  BY <1>0, <1>1, LenProperties
<1>5. \A n \in 1 .. most : kept[n] \in S
  BY <1>1, <1>4, ElementOfSeq
<1>6. \A n \in 1 .. Len(kept) : n <= MaxLimitations => n \in 1 .. most
  BY <1>0, <1>4
<1> HIDE DEF most
<1>7. /\ SubSeq(kept, 1, most) \in Seq(S)
      /\ Len(SubSeq(kept, 1, most)) = most
      /\ \A n \in 1 .. most : SubSeq(kept, 1, most)[n] = kept[n]
  <2>1. /\ SubSeq(kept, 1, most) \in Seq(S)
        /\ Len(SubSeq(kept, 1, most)) = IF 1 <= most THEN most - 1 + 1 ELSE 0
        /\ \A n \in 1 .. most - 1 + 1 : SubSeq(kept, 1, most)[n] = kept[1 + n - 1]
    BY <1>4, <1>5, SubSeqProperties
  <2> QED
    BY <2>1, <1>4
<1>8. ASSUME NEW i \in DOMAIN values, i <= MaxLimitations
      PROVE  \E n \in 1 .. most : n <= i /\ Bounded(values)[n] = values[i]
  <2>1. PICK n \in 1 .. Len(kept) : n <= i /\ kept[n] = values[i]
    BY <1>1
  <2>2. n \in Nat /\ i \in Nat
    BY <1>3, <1>4
  <2>3. n \in 1 .. most
    BY <2>1, <2>2, <1>6, <1>8, <1>0
  <2> QED
    BY <2>1, <2>3, <1>2, <1>7
<1>9. DOMAIN Bounded(values) = 1 .. most
  BY <1>2, <1>7, LenProperties
<1>10. ASSUME values # << >>, MaxLimitations # 0
       PROVE  Bounded(values) # << >> /\ Bounded(values)[1] = values[1]
  <2>1. 1 \in DOMAIN values /\ 1 <= MaxLimitations
    BY <1>10, <1>3, <1>0, EmptySeq
  <2>2. PICK n \in 1 .. most : n <= 1 /\ Bounded(values)[n] = values[1]
    BY <2>1, <1>8
  <2>3. n = 1 /\ 1 \in DOMAIN Bounded(values)
    BY <2>2, <1>4, <1>9
  <2>4. Bounded(values) # << >>
    <3>1. Len(Bounded(values)) = most /\ most # 0
      BY <2>2, <1>2, <1>4, <1>7
    <3>2. Len(<< >>) = 0
      BY EmptySeq
    <3> QED
      BY <3>1, <3>2
  <2> QED
    BY <2>2, <2>3, <2>4
<1> QED
  BY <1>2, <1>4, <1>7, <1>8, <1>9, <1>10 DEF Range
----------------------------------------------------------------------------
(* Each action preserves the invariant *)

LEMMA Initially == Init => IInv
<1> SUFFICES ASSUME Init PROVE IInv
  OBVIOUS
<1> USE DEF Init
<1>1. TypeOK
  <2>1. limitations \in Seq(Limitations) /\ Len(limitations) <= MaxLimitations
    BY EmptySeq, CodingAssumption DEF CodingAssumption
  <2>2. raw \in Seq(Answers) /\ ran \in Seq(Processes)
    BY EmptySeq
  <2>3. world \in States
    BY CodingAssumption DEF CodingAssumption, States
  <2> QED
    BY <2>1, <2>2, <2>3 DEF TypeOK
<1>2. Untouched /\ Snapped /\ Calls /\ Told /\ Decided
  BY DEF Untouched, Snapped, Calls, Missing, Told, Decided, Early, Late
<1>3. Validated
  BY EmptySeq DEF Validated, Once
<1> QED
  BY <1>1, <1>2, <1>3 DEF IInv

\* What a step that leaves the evidence and the validators alone keeps of them.
LEMMA SameEvidence ==
    ASSUME IInv, UNCHANGED <<definitions, attempts, escaped, snapshots, validation>>
    PROVE  /\ EachPassed' = EachPassed /\ NothingOpen' = NothingOpen
           /\ Once' = Once /\ Validating' = Validating /\ Complete' = Complete
           /\ Normalise(raw)' = Normalise(raw)
           /\ \A k \in DOMAIN raw : Backed(raw[k])' = Backed(raw[k])
<1> USE DEF snapshots, validation
<1>1. EachPassed' = EachPassed
  BY DEF EachPassed
<1>2. NothingOpen' = NothingOpen
  BY DEF NothingOpen
<1>3. \A k \in DOMAIN raw : Backed(raw[k])' = Backed(raw[k])
  BY DEF Backed
<1>4. Once' = Once /\ Complete' = Complete
  BY DEF Once, Complete
<1>5. Validating' = Validating
  BY DEF Validating
<1>6. Normalise(raw)' = Normalise(raw)
  BY DEF Normalise
<1> QED
  BY <1>1, <1>2, <1>3, <1>4, <1>5, <1>6

\* The steps before the agent, and the coordinator's, move only the run itself.
LEMMA BeginPreserves == IInv /\ Begin => IInv'
<1> SUFFICES ASSUME IInv, Begin PROVE IInv'
  OBVIOUS
<1> USE DEF IInv, Begin, Stopped, Goto, Raise, workspace, evidence, snapshots, validation
<1>1. TypeOK'
  BY DEF TypeOK, Errors
<1>2. Untouched' /\ Snapped' /\ Calls'
  BY DEF Untouched, Snapped, Calls, Missing, Early, Late, Diff
<1>3. Told'
  BY DEF Told, Untouched, Early
<1>4. Validated'
  BY SameEvidence DEF Validated
<1>5. Decided'
  BY SameEvidence DEF Decided
<1> QED
  BY <1>1, <1>2, <1>3, <1>4, <1>5

LEMMA ValidateTargetsPreserves == IInv /\ ValidateTargets => IInv'
<1> SUFFICES ASSUME IInv, ValidateTargets PROVE IInv'
  OBVIOUS
<1> USE DEF IInv, ValidateTargets, Goto, Raise, workspace, evidence, snapshots, validation
<1>1. TypeOK'
  BY DEF TypeOK, Errors
<1>2. Untouched' /\ Snapped' /\ Calls'
  BY DEF Untouched, Snapped, Calls, Missing, Early, Late, Diff
<1>3. Told'
  BY DEF Told, Untouched, Early
<1>4. Validated'
  BY SameEvidence DEF Validated
<1>5. Decided'
  BY SameEvidence DEF Decided
<1> QED
  BY <1>1, <1>2, <1>3, <1>4, <1>5

\* A snapshot is what the workspace holds in the scopes it is clear in.
LEMMA TakenTypes ==
    ASSUME TypeOK, NEW phase \in {"baseline", "final"}, NEW s \in TakenNow(phase)
    PROVE  /\ s \in Snapshots
           /\ \A scope \in DOMAIN s : s[scope] = world[scope]
<1>1. PICK clear \in Clears[phase] : s = Restrict(world, clear)
  BY DEF TakenNow
<1>2. clear \in SUBSET Scopes
  BY CodingAssumption DEF CodingAssumption
<1>3. s = [scope \in clear |-> world[scope]]
  BY <1>1 DEF Restrict
<1>4. \A scope \in clear : world[scope] \in Contents
  BY <1>2 DEF TypeOK, States
<1>5. s \in [clear -> Contents]
  BY <1>3, <1>4
<1> QED
  BY <1>2, <1>3, <1>5 DEF Snapshots

\* The diff is of the scopes that both snapshots are clear in.
LEMMA DiffTypes ==
    ASSUME NEW before \in Snapshots, NEW after \in Snapshots
    PROVE  /\ Diff(before, after).clear = DOMAIN before \cap DOMAIN after
           /\ Diff(before, after).clear \subseteq Scopes
           /\ Diff(before, after).changes =
                {scope \in Diff(before, after).clear : before[scope] # after[scope]}
  BY DEF Diff, Snapshots

LEMMA CaptureBaselinePreserves == IInv /\ CaptureBaseline => IInv'
<1> SUFFICES ASSUME IInv, CaptureBaseline PROVE IInv'
  OBVIOUS
<1> USE DEF IInv, CaptureBaseline, Goto, Raise, workspace, evidence, validation
<1>0. /\ pc' = "repository" => baseline' \in Snapshots
      /\ baseline' \in Snapshots \cup {None}
      /\ pc = "baseline" /\ pc' \in {"repository", "failing"}
  <2>1. CASE baseline' \in TakenNow("baseline") /\ pc' = "repository"
    BY <2>1, TakenTypes
  <2>2. CASE UNCHANGED baseline /\ pc' = "failing"
    BY <2>2 DEF TypeOK
  <2> QED
    BY <2>1, <2>2
<1>1. TypeOK'
  BY <1>0 DEF TypeOK, Errors
<1>2. Untouched' /\ Snapped' /\ Calls'
  BY <1>0 DEF Untouched, Snapped, Calls, Missing, Early, Late
<1>3. Told'
  BY <1>0 DEF Told, Untouched, Early
<1>4. Validated'
  BY <1>0 DEF Validated, Once, Backed
<1>5. Decided'
  BY <1>0 DEF Decided
<1> QED
  BY <1>1, <1>2, <1>3, <1>4, <1>5

LEMMA LoadRepositoryPreserves == IInv /\ LoadRepository => IInv'
<1> SUFFICES ASSUME IInv, LoadRepository PROVE IInv'
  OBVIOUS
<1> USE DEF IInv, LoadRepository, Goto, Raise, workspace, evidence, snapshots, validation
<1>1. TypeOK'
  BY DEF TypeOK, Errors
<1>2. Untouched' /\ Snapped' /\ Calls'
  BY DEF Untouched, Snapped, Calls, Missing, Early, Late, Diff
<1>3. Told'
  BY DEF Told, Untouched, Early
<1>4. Validated'
  BY SameEvidence DEF Validated
<1>5. Decided'
  BY SameEvidence DEF Decided
<1> QED
  BY <1>1, <1>2, <1>3, <1>4, <1>5

LEMMA BuildContextPreserves == IInv /\ BuildContext => IInv'
<1> SUFFICES ASSUME IInv, BuildContext PROVE IInv'
  OBVIOUS
<1> USE DEF IInv, BuildContext, Stopped, Goto, Raise, workspace, evidence, snapshots, validation
<1>1. TypeOK'
  BY DEF TypeOK, Errors
<1>2. Untouched' /\ Snapped' /\ Calls'
  BY DEF Untouched, Snapped, Calls, Missing, Early, Late, Diff
<1>3. Told'
  BY DEF Told, Untouched, Early
<1>4. Validated'
  BY SameEvidence DEF Validated
<1>5. Decided'
  BY SameEvidence DEF Decided
<1> QED
  BY <1>1, <1>2, <1>3, <1>4, <1>5

LEMMA ToolCallPreserves == IInv /\ ToolCall => IInv'
<1> SUFFICES ASSUME IInv, ToolCall PROVE IInv'
  OBVIOUS
<1> USE DEF IInv
<1>0. PICK a \in Attempts, fate \in {"stored", "refused", "unbuilt"} :
        /\ attempts' = attempts \cup {[effect |-> a.effect, recorded |-> fate = "stored"]}
        /\ touched' = (touched \/ a.touches)
        /\ IF a.touches THEN Write("call") ELSE UNCHANGED <<world, since>>
        /\ collected' = IF fate = "stored" THEN collected \cup {a.effect} ELSE collected
        /\ toolComplete' = (toolComplete /\ fate # "refused")
        /\ escaped' = (fate = "unbuilt")
  BY DEF ToolCall
<1>1. a.effect \in Effects /\ a.touches \in BOOLEAN /\ (a.touches => a.effect # "none")
  BY DEF Attempts
<1>2. /\ pc = "agent" /\ pc' = pc /\ ~escaped
      /\ UNCHANGED <<stop, definitions, complete, limitations, baseline, final, diff>>
      /\ UNCHANGED <<raw, ran, results, verdict, err, terminal, answer>>
  BY DEF ToolCall, snapshots, validation, outcome
<1>3. final = None /\ diff = None /\ complete
  BY <1>2 DEF Untouched
<1>4. world' \in States /\ since' = since
  <2>1. CASE a.touches
    BY <2>1, <1>0, <1>3 DEF Write
  <2>2. CASE ~a.touches
    BY <2>2, <1>0 DEF TypeOK
  <2> QED
    BY <2>1, <2>2
<1>5. TypeOK'
  <2>1. attempts' \subseteq [effect : Effects, recorded : BOOLEAN]
    <3>1. [effect |-> a.effect, recorded |-> fate = "stored"]
            \in [effect : Effects, recorded : BOOLEAN]
      BY <1>1, Zenon
    <3>2. attempts \subseteq [effect : Effects, recorded : BOOLEAN]
      BY DEF TypeOK
    <3> QED
      BY <3>1, <3>2, <1>0, Zenon
  <2>2. collected' \subseteq Effects
    BY <1>0, <1>1 DEF TypeOK
  <2>3. toolComplete' \in BOOLEAN /\ escaped' \in BOOLEAN /\ touched' \in BOOLEAN
    BY <1>0
  <2> QED
    BY <1>2, <1>4, <2>1, <2>2, <2>3 DEF TypeOK
<1>6. Untouched' /\ Snapped'
  BY <1>2, <1>4 DEF Untouched, Snapped, Early, Late
<1>7. Calls'
  <2>1. Missing => Missing'
    BY <1>0, <1>2 DEF Missing
  <2>2. fate # "stored" => Missing'
    BY <1>0 DEF Missing
  <2>3. ASSUME NEW b \in attempts'
        PROVE  IF b.recorded THEN b.effect \in collected' ELSE Missing'
    <3>1. CASE b \in attempts
      BY <3>1, <2>1, <1>0 DEF Calls
    <3>2. CASE b = [effect |-> a.effect, recorded |-> fate = "stored"]
      BY <3>2, <2>2, <1>0
    <3> QED
      BY <3>1, <3>2, <1>0
  <2>4. touched' => collected' \ {"none"} # {} \/ Missing'
    <3>1. CASE touched
      BY <3>1, <2>1, <1>0 DEF Calls
    <3>2. CASE a.touches /\ fate = "stored"
      BY <3>2, <1>0, <1>1
    <3>3. CASE fate # "stored"
      BY <3>3, <2>2
    <3> QED
      BY <3>1, <3>2, <3>3, <1>0
  <2> QED
    BY <2>3, <2>4, <1>2 DEF Calls, Early, Late
<1>8. Told' /\ Validated' /\ Decided'
  BY <1>2 DEF Told, Validated, Once, Backed, Decided
<1> QED
  BY <1>5, <1>6, <1>7, <1>8

\* Merging says first of all that records are missing, and a call counts as
\* recorded only if its record is among those the run keeps.
LEMMA MergeTypes ==
    ASSUME TypeOK, MergeCollection, limitations = << >>, complete
    PROVE  /\ limitations' \in Seq(Limitations) /\ Len(limitations') <= MaxLimitations
           /\ ~complete' /\ Len(Configured) < MaxLimitations
                => limitations' # << >> /\ limitations'[1] = RecordsMissing
           /\ UNCHANGED toolComplete /\ complete' \in BOOLEAN
           /\ collected' \subseteq Effects
           /\ attempts' \subseteq [effect : Effects, recorded : BOOLEAN]
           /\ complete' => toolComplete /\ UNCHANGED <<collected, attempts>>
           /\ \A a \in attempts' : a.recorded => a \in attempts /\ collected' = collected
<1> DEFINE told == Append(limitations, RecordsMissing)
<1>1. told \in Seq(Limitations) /\ told # << >> /\ told[1] = RecordsMissing
  <2>1. limitations \in Seq(Limitations) /\ RecordsMissing \in Limitations
    BY DEF TypeOK, Limitations
  <2>2. Len(limitations) = 0 /\ Len(told) = Len(limitations) + 1
        /\ told \in Seq(Limitations) /\ told[Len(limitations) + 1] = RecordsMissing
    BY <2>1, AppendProperties, EmptySeq
  <2> HIDE DEF told
  <2>3. told[1] = RecordsMissing /\ Len(told) = 1
    BY <2>2
  <2>4. Len(<< >>) = 0
    BY EmptySeq
  <2> QED
    BY <2>2, <2>3, <2>4
<1>2. Len(Configured) \in Nat /\ MaxLimitations \in Nat
  BY CodingAssumption, LenProperties DEF CodingAssumption
<1>3. Bounded(told) \in Seq(Limitations) /\ Len(Bounded(told)) <= MaxLimitations
      /\ (MaxLimitations # 0 => Bounded(told) # << >> /\ Bounded(told)[1] = RecordsMissing)
  <2> HIDE DEF told
  <2> QED
    BY <1>1, BoundedTypes
<1>4. Len(Configured) < MaxLimitations => MaxLimitations # 0
  BY <1>2
<1>5. PICK closes \in BOOLEAN :
        /\ complete' = (complete /\ toolComplete /\ closes)
        /\ limitations' = IF toolComplete /\ closes THEN limitations ELSE Bounded(told)
        /\ collected' = IF closes THEN collected ELSE {}
        /\ attempts' = IF closes THEN attempts
                       ELSE {[a EXCEPT !.recorded = FALSE] : a \in attempts}
        /\ UNCHANGED toolComplete
  BY DEF MergeCollection
<1> HIDE DEF told
<1>6. /\ limitations' \in Seq(Limitations) /\ Len(limitations') <= MaxLimitations
      /\ ~complete' /\ Len(Configured) < MaxLimitations
           => limitations' # << >> /\ limitations'[1] = RecordsMissing
  BY <1>3, <1>4, <1>5 DEF TypeOK
<1>7. /\ attempts' \subseteq [effect : Effects, recorded : BOOLEAN]
      /\ \A a \in attempts' : a.recorded => a \in attempts /\ collected' = collected
  <2>1. attempts \subseteq [effect : Effects, recorded : BOOLEAN]
    BY DEF TypeOK
  <2>2. CASE closes
    BY <2>1, <2>2, <1>5
  <2>3. CASE ~closes
    <3>1. ASSUME NEW b \in attempts'
          PROVE  b \in [effect : Effects, recorded : BOOLEAN] /\ b.recorded = FALSE
      <4>1. PICK a \in attempts : b = [a EXCEPT !.recorded = FALSE]
        BY <2>3, <1>5
      <4>2. a \in [effect : Effects, recorded : BOOLEAN]
        BY <2>1
      <4> QED
        BY <4>1, <4>2
    <3> QED
      BY <3>1
  <2> QED
    BY <2>2, <2>3
<1> QED
  BY <1>5, <1>6, <1>7 DEF TypeOK

\* What merging the records, with nothing else of the evidence, keeps.
LEMMA MergeKeepsCalls ==
    ASSUME IInv, MergeCollection, limitations = << >>, complete,
           UNCHANGED <<touched, escaped>>, pc' \in {"salvage", "final"},
           pc' = "final" => ~escaped
    PROVE  Calls'
<1> USE DEF IInv
<1>1. /\ UNCHANGED toolComplete /\ complete' \in BOOLEAN
      /\ complete' => toolComplete /\ UNCHANGED <<collected, attempts>>
      /\ \A a \in attempts' : a.recorded => a \in attempts /\ collected' = collected
  BY MergeTypes
<1>2. CASE complete'
  <2>1. Missing' = Missing
    BY <1>1, <1>2 DEF Missing
  <2> QED
    BY <2>1, <1>1, <1>2 DEF Calls, Early, Late
<1>3. CASE ~complete'
  <2>1. Missing'
    BY <1>3 DEF Missing
  <2>2. \A a \in attempts' : a.recorded => a.effect \in collected'
    BY <1>1 DEF Calls
  <2> QED
    BY <2>1, <2>2, <1>3 DEF Calls, Late
<1> QED
  BY <1>1, <1>2, <1>3

LEMMA AgentAnswersPreserves == IInv /\ AgentAnswers => IInv'
<1> SUFFICES ASSUME IInv, AgentAnswers PROVE IInv'
  OBVIOUS
<1> USE DEF IInv
<1>0. /\ pc = "agent" /\ pc' = "final" /\ ~escaped /\ MergeCollection
      /\ UNCHANGED err
      /\ UNCHANGED <<stop, definitions, world, since, touched, escaped>>
      /\ UNCHANGED <<baseline, final, diff, raw, ran, results, verdict, terminal, answer>>
  BY DEF AgentAnswers, Goto, workspace, snapshots, validation
<1>1. /\ limitations = << >> /\ diff = None /\ raw = << >> /\ ran = << >> /\ complete
  BY <1>0 DEF Untouched
<1>2. /\ limitations' \in Seq(Limitations) /\ Len(limitations') <= MaxLimitations
      /\ ~complete' /\ Len(Configured) < MaxLimitations
           => limitations' # << >> /\ limitations'[1] = RecordsMissing
      /\ UNCHANGED toolComplete /\ complete' \in BOOLEAN
      /\ collected' \subseteq Effects
      /\ attempts' \subseteq [effect : Effects, recorded : BOOLEAN]
  BY <1>0, <1>1, MergeTypes
<1>3. TypeOK'
  BY <1>0, <1>2 DEF TypeOK
<1>4. Calls'
  BY <1>0, <1>1, MergeKeepsCalls
<1>5. Untouched' /\ Snapped'
  BY <1>0 DEF Untouched, Snapped, Early, Late
<1>6. Told'
  BY <1>0, <1>2 DEF Told
<1>7. Validated'
  BY <1>0, <1>1, EmptySeq DEF Validated, Once
<1>8. Decided'
  BY <1>0 DEF Decided
<1> QED
  BY <1>3, <1>4, <1>5, <1>6, <1>7, <1>8

LEMMA AgentFailsPreserves == IInv /\ AgentFails => IInv'
<1> SUFFICES ASSUME IInv, AgentFails PROVE IInv'
  OBVIOUS
<1> USE DEF IInv
<1>0. /\ pc = "agent" /\ pc' = "salvage" /\ MergeCollection
      /\ err' \in Errors
      /\ UNCHANGED <<stop, definitions, world, since, touched, escaped>>
      /\ UNCHANGED <<baseline, final, diff, raw, ran, results, verdict, terminal, answer>>
  BY DEF AgentFails, Goto, workspace, snapshots, validation
<1>1. /\ limitations = << >> /\ diff = None /\ raw = << >> /\ ran = << >> /\ complete
  BY <1>0 DEF Untouched
<1>2. /\ limitations' \in Seq(Limitations) /\ Len(limitations') <= MaxLimitations
      /\ ~complete' /\ Len(Configured) < MaxLimitations
           => limitations' # << >> /\ limitations'[1] = RecordsMissing
      /\ UNCHANGED toolComplete /\ complete' \in BOOLEAN
      /\ collected' \subseteq Effects
      /\ attempts' \subseteq [effect : Effects, recorded : BOOLEAN]
  BY <1>0, <1>1, MergeTypes
<1>3. TypeOK'
  BY <1>0, <1>2 DEF TypeOK
<1>4. Calls'
  <2>1. /\ UNCHANGED <<touched, escaped>> /\ MergeCollection
        /\ pc' \in {"salvage", "final"} /\ (pc' = "final" => ~escaped)
    BY <1>0
  <2> HIDE DEF IInv
  <2> QED
    BY <2>1, <1>1, MergeKeepsCalls
<1>5. Untouched' /\ Snapped'
  BY <1>0 DEF Untouched, Snapped, Early, Late
<1>6. Told'
  BY <1>0, <1>2 DEF Told
<1>7. Validated'
  BY <1>0, <1>1, EmptySeq DEF Validated, Once
<1>8. Decided'
  BY <1>0 DEF Decided
<1> QED
  BY <1>3, <1>4, <1>5, <1>6, <1>7, <1>8

\* One more limitation does not push the missing records out.
LEMMA AnotherLimitation ==
    ASSUME TypeOK, NEW value \in Limitations
    PROVE  /\ Bounded(Append(limitations, value)) \in Seq(Limitations)
           /\ Len(Bounded(Append(limitations, value))) <= MaxLimitations
           /\ Len(Configured) < MaxLimitations /\ limitations # << >>
                 /\ limitations[1] = RecordsMissing
                => RecordsMissing \in Range(Bounded(Append(limitations, value)))
<1> DEFINE more == Append(limitations, value)
<1>1. limitations \in Seq(Limitations) /\ Len(limitations) \in Nat
  BY LenProperties DEF TypeOK
<1>2. /\ more \in Seq(Limitations)
      /\ Len(more) = Len(limitations) + 1
      /\ \A i \in 1 .. Len(limitations) : more[i] = limitations[i]
  BY <1>1, AppendProperties
<1>3. DOMAIN more = 1 .. Len(more)
  BY <1>2, LenProperties
<1> HIDE DEF more
<1>4. 1 \in DOMAIN more
  BY <1>1, <1>2, <1>3
<1>5. Len(Configured) < MaxLimitations => 1 <= MaxLimitations
  BY CodingAssumption, LenProperties DEF CodingAssumption
<1>6. limitations # << >> => more[1] = limitations[1]
  BY <1>1, <1>2, EmptySeq
<1>7. /\ Bounded(more) \in Seq(Limitations) /\ Len(Bounded(more)) <= MaxLimitations
      /\ 1 <= MaxLimitations => more[1] \in Range(Bounded(more))
  BY <1>2, <1>4, BoundedTypes
<1> QED
  BY <1>5, <1>6, <1>7 DEF more

LEMMA SalvagePreserves == IInv /\ Salvage => IInv'
<1> SUFFICES ASSUME IInv, Salvage PROVE IInv'
  OBVIOUS
<1> USE DEF IInv
<1>0. /\ pc = "salvage" /\ pc' = "failing"
      /\ UNCHANGED <<stop, definitions, world, since, touched, attempts, escaped>>
      /\ UNCHANGED <<baseline, collected, toolComplete, complete>>
      /\ UNCHANGED <<raw, ran, results, verdict, err, terminal, answer>>
  BY DEF Salvage, Goto, workspace, validation
<1>1. baseline \in Snapshots
  BY <1>0 DEF Snapped
<1>2. \/ UNCHANGED <<final, diff, limitations>>
      \/ /\ final' \in TakenNow("final") /\ diff' = Diff(baseline, final')
         /\ UNCHANGED limitations
      \/ /\ final' \in TakenNow("final") \/ UNCHANGED final
         /\ limitations' = Bounded(Append(limitations,
                              "failure_final_observation_unavailable"))
         /\ UNCHANGED diff
  BY DEF Salvage
<1>3. final' \in Snapshots \cup {None}
  BY <1>2, TakenTypes DEF TypeOK
<1>4. /\ limitations' \in Seq(Limitations) /\ Len(limitations') <= MaxLimitations
      /\ ~complete /\ Len(Configured) < MaxLimitations
            => RecordsMissing \in Range(limitations')
  <2>1. ~complete /\ Len(Configured) < MaxLimitations
          => limitations # << >> /\ limitations[1] = RecordsMissing
    BY <1>0 DEF Told
  <2>2. CASE UNCHANGED limitations
    <3>1. limitations \in Seq(Limitations) /\ Len(limitations) <= MaxLimitations
      BY DEF TypeOK
    <3>2. limitations # << >> => limitations[1] \in Range(limitations)
      BY <3>1, EmptySeq, LenProperties DEF Range
    <3> QED
      BY <2>1, <2>2, <3>1, <3>2
  <2>3. CASE limitations' = Bounded(Append(limitations,
                              "failure_final_observation_unavailable"))
    BY <2>1, <2>3, AnotherLimitation DEF Limitations
  <2> QED
    BY <1>2, <2>2, <2>3
<1>5. diff' # None => diff'.changes \subseteq diff'.clear /\ diff'.clear \subseteq Scopes
  <2>1. CASE UNCHANGED diff
    BY <2>1 DEF TypeOK
  <2>2. CASE final' \in TakenNow("final") /\ diff' = Diff(baseline, final')
    <3>1. final' \in Snapshots
      BY <2>2, TakenTypes
    <3> QED
      BY <3>1, <2>2, <1>1, DiffTypes
  <2> QED
    BY <1>2, <2>1, <2>2
<1>6. TypeOK'
  BY <1>0, <1>3, <1>4, <1>5 DEF TypeOK
<1>7. Untouched' /\ Snapped' /\ Calls'
  BY <1>0 DEF Untouched, Snapped, Calls, Missing, Early, Late
<1>8. Told'
  BY <1>0, <1>4 DEF Told
<1>9. Validated'
  BY <1>0 DEF Validated, Once, Backed
<1>10. Decided'
  BY <1>0 DEF Decided
<1> QED
  BY <1>6, <1>7, <1>8, <1>9, <1>10

LEMMA CaptureFinalPreserves == IInv /\ CaptureFinal => IInv'
<1> SUFFICES ASSUME IInv, CaptureFinal PROVE IInv'
  OBVIOUS
<1> USE DEF IInv
<1>0. /\ pc = "final"
      /\ UNCHANGED <<stop, definitions, world, touched, attempts, escaped>>
      /\ UNCHANGED <<baseline, collected, toolComplete, complete, limitations>>
      /\ UNCHANGED <<raw, ran, results, verdict, terminal, answer>>
  BY DEF CaptureFinal, evidence, validation
<1>1. CASE /\ final' \in TakenNow("final") /\ diff' = Diff(baseline, final')
           /\ since' = {} /\ pc' = "validate" /\ UNCHANGED err
  <2>1. baseline \in Snapshots
    BY <1>0 DEF Snapped, Late
  <2>2. final' \in Snapshots /\ \A scope \in DOMAIN final' : final'[scope] = world[scope]
    BY <1>1, TakenTypes
  <2>3. diff'.changes \subseteq diff'.clear /\ diff'.clear \subseteq Scopes
    BY <1>1, <2>1, <2>2, DiffTypes
  <2>4. TypeOK'
    BY <1>0, <1>1, <2>2, <2>3 DEF TypeOK
  <2>5. Diff(baseline, final)' = Diff(baseline, final')
    BY <1>0 DEF Diff
  <2>6. Untouched' /\ Snapped' /\ Calls'
    BY <1>0, <1>1, <2>1, <2>2, <2>5 DEF Untouched, Snapped, Calls, Missing, Early, Late
  <2>7. Told' /\ Decided'
    BY <1>0, <1>1 DEF Told, Decided
  <2>8. raw' = << >> /\ ran' = << >> /\ Len(raw') = 0 /\ Len(definitions) \in Nat
    BY <1>0, EmptySeq, CodingAssumption, LenProperties DEF Validated, CodingAssumption, TypeOK
  <2>9. Validated'
    BY <2>8, <1>0, <1>1, EmptySeq DEF Validated, Once, Validating
  <2> QED
    BY <2>4, <2>6, <2>7, <2>9
<1>2. CASE pc' = "failing" /\ err' = "failed" /\ UNCHANGED <<final, diff, since>>
  <2>1. TypeOK' /\ Untouched' /\ Snapped' /\ Calls'
    BY <1>0, <1>2 DEF TypeOK, Errors, Untouched, Snapped, Calls, Missing, Early, Late
  <2>2. Told'
    <3>1. limitations # << >> => limitations[1] \in Range(limitations)
      BY EmptySeq, LenProperties DEF Range, TypeOK
    <3> QED
      BY <3>1, <1>0, <1>2 DEF Told
  <2>3. Validated' /\ Decided'
    BY <1>0, <1>2 DEF Validated, Once, Backed, Decided
  <2> QED
    BY <2>1, <2>2, <2>3
<1> QED
  BY <1>1, <1>2 DEF CaptureFinal, Goto, Raise

\* While the validators run, the workspace is what the diff shows until
\* somebody else than a governed call writes.
LEMMA ShownWhileValidating == IInv /\ pc = "validate" => AsShown
<1> SUFFICES ASSUME IInv, pc = "validate" PROVE AsShown
  OBVIOUS
<1>1. /\ "call" \notin since
      /\ baseline \in Snapshots /\ final \in Snapshots /\ diff = Diff(baseline, final)
      /\ since = {} => \A scope \in DOMAIN final : world[scope] = final[scope]
  BY DEF IInv, Snapped, Late
<1>2. /\ diff.clear = DOMAIN baseline \cap DOMAIN final
      /\ diff.changes = {scope \in diff.clear : baseline[scope] # final[scope]}
  BY <1>1, DiffTypes
<1> QED
  BY <1>1, <1>2 DEF AsShown

\* What one more answer, with or without a process of its own, is.
LEMMA ValidateStep ==
    ASSUME IInv, Validate
    PROVE  \E status \in Statuses, process \in Nat, clean \in BOOLEAN :
             /\ raw' = Append(raw, [id |-> definitions[Len(raw) + 1],
                                    status |-> status, process |-> process])
             /\ \/ status # "passed" /\ UNCHANGED <<world, since, ran>>
                \/ /\ process = Len(ran) + 1 /\ (status = "passed" => clean)
                   /\ ran' = Append(ran, [id |-> definitions[Len(raw) + 1],
                                          shown |-> TRUE, clean |-> clean])
                   /\ Write("other") \/ UNCHANGED <<world, since>>
<1> DEFINE id == definitions[Len(raw) + 1]
<1>1. pc = "validate" /\ AsShown = TRUE /\ Len(ran) + 1 \in Nat
  <2>1. pc = "validate"
    BY DEF Validate
  <2>2. AsShown
    BY <2>1, ShownWhileValidating
  <2>3. AsShown = TRUE
    BY <2>2 DEF AsShown
  <2>4. Len(ran) \in Nat
    BY LenProperties DEF IInv, TypeOK
  <2> QED
    BY <2>1, <2>3, <2>4
<1>2. CASE /\ raw' = Append(raw, [id |-> id, status |-> "unusable", process |-> 0])
           /\ UNCHANGED <<world, since, ran>>
  <2>1. "unusable" \in Statuses /\ "unusable" # "passed" /\ 0 \in Nat /\ TRUE \in BOOLEAN
    BY DEF Statuses, NotPassed
  <2> QED
    BY <1>2, <2>1, Zenon
<1>3. ASSUME NEW exited \in BOOLEAN, NEW accepted \in BOOLEAN, NEW cleaned \in BOOLEAN,
             NEW status \in FromSubprocess(exited, accepted, cleaned),
             raw' = Append(raw, [id |-> id, status |-> status, process |-> Len(ran) + 1]),
             ran' = Append(ran, [id |-> id, shown |-> AsShown,
                                 clean |-> exited /\ accepted /\ cleaned]),
             Write("other") \/ UNCHANGED <<world, since>>
      PROVE  \E s \in Statuses, process \in Nat, c \in BOOLEAN :
               /\ raw' = Append(raw, [id |-> id, status |-> s, process |-> process])
               /\ process = Len(ran) + 1 /\ (s = "passed" => c)
               /\ ran' = Append(ran, [id |-> id, shown |-> TRUE, clean |-> c])
               /\ Write("other") \/ UNCHANGED <<world, since>>
  <2>1. status \in Statuses /\ (status = "passed" => exited /\ accepted /\ cleaned)
    BY DEF FromSubprocess, Statuses, NotPassed
  <2>2. (exited /\ accepted /\ cleaned) \in BOOLEAN
    OBVIOUS
  <2>3. ran' = Append(ran, [id |-> id, shown |-> TRUE, clean |-> exited /\ accepted /\ cleaned])
    BY <1>1, <1>3, Zenon
  <2> HIDE DEF id
  <2> QED
    BY <1>1, <1>3, <2>1, <2>2, <2>3, Zenon
<1>4. \/ /\ raw' = Append(raw, [id |-> id, status |-> "unusable", process |-> 0])
         /\ UNCHANGED <<world, since, ran>>
      \/ \E exited, accepted, cleaned \in BOOLEAN :
           \E status \in FromSubprocess(exited, accepted, cleaned) :
             /\ raw' = Append(raw, [id |-> id, status |-> status, process |-> Len(ran) + 1])
             /\ ran' = Append(ran, [id |-> id, shown |-> AsShown,
                                    clean |-> exited /\ accepted /\ cleaned])
             /\ Write("other") \/ UNCHANGED <<world, since>>
  BY Zenon DEF Validate
<1> HIDE DEF id
<1>5. CASE \E exited, accepted, cleaned \in BOOLEAN :
           \E status \in FromSubprocess(exited, accepted, cleaned) :
             /\ raw' = Append(raw, [id |-> id, status |-> status, process |-> Len(ran) + 1])
             /\ ran' = Append(ran, [id |-> id, shown |-> AsShown,
                                    clean |-> exited /\ accepted /\ cleaned])
             /\ Write("other") \/ UNCHANGED <<world, since>>
  BY <1>3, <1>5, Zenon DEF id
<1> QED
  BY <1>2, <1>4, <1>5, Zenon DEF id

\* A process is started for a definition that has had none, if no two share an
\* ID, and its answer names it.
LEMMA ValidatePreserves == IInv /\ Validate => IInv'
<1> SUFFICES ASSUME IInv, Validate PROVE IInv'
  OBVIOUS
<1> USE DEF IInv
<1>0. /\ pc = "validate" /\ pc' = "validate" /\ Len(raw) < Len(definitions)
      /\ UNCHANGED <<stop, definitions, touched, attempts, escaped, collected>>
      /\ UNCHANGED <<toolComplete, complete, limitations, baseline, final, diff>>
      /\ UNCHANGED <<results, verdict, err, terminal, answer>>
  BY DEF Validate, evidence, snapshots, outcome
<1>1. /\ Len(raw) \in Nat /\ DOMAIN raw = 1 .. Len(raw)
      /\ Len(definitions) \in Nat /\ DOMAIN definitions = 1 .. Len(definitions)
      /\ Len(ran) \in Nat /\ DOMAIN ran = 1 .. Len(ran)
      /\ definitions \in Seq(STRING)
  BY CodingAssumption, LenProperties DEF CodingAssumption, TypeOK
<1>n. PICK n \in DOMAIN definitions : n = Len(raw) + 1
  BY <1>0, <1>1
<1>m. PICK m \in Nat : m = Len(ran) + 1
  BY <1>1
<1> DEFINE id == definitions[n]
<1>2. n \notin DOMAIN raw /\ id \in STRING
  BY <1>1, <1>n, ElementOfSeq
<1>3. PICK status \in Statuses, process \in Nat, clean \in BOOLEAN :
        /\ raw' = Append(raw, [id |-> id, status |-> status, process |-> process])
        /\ \/ status # "passed" /\ UNCHANGED <<world, since, ran>>
           \/ /\ process = m /\ (status = "passed" => clean)
              /\ ran' = Append(ran, [id |-> id, shown |-> TRUE, clean |-> clean])
              /\ Write("other") \/ UNCHANGED <<world, since>>
  BY ValidateStep, <1>n, <1>m
<1> DEFINE r == [id |-> id, status |-> status, process |-> process]
           p == [id |-> id, shown |-> TRUE, clean |-> clean]
<1>4. /\ r \in Answers /\ r.id = id /\ r.status = status /\ r.process = process
      /\ p \in Processes /\ p.id = id /\ p.shown /\ p.clean = clean
  BY <1>2 DEF Answers, Processes
<1>5. /\ raw' = Append(raw, r)
      /\ \/ status # "passed" /\ UNCHANGED <<world, since, ran>>
         \/ /\ process = m /\ (status = "passed" => clean)
            /\ ran' = Append(ran, p)
            /\ Write("other") \/ UNCHANGED <<world, since>>
  BY <1>3
<1> HIDE DEF r, p
<1>6. /\ raw' \in Seq(Answers)
      /\ DOMAIN raw' = 1 .. n /\ Len(raw') = n /\ raw'[n] = r
      /\ \A i \in DOMAIN raw : raw'[i] = raw[i]
  BY <1>1, <1>n, <1>4, <1>5, AppendProperties, LenProperties DEF TypeOK
<1>7. DOMAIN raw' = DOMAIN raw \cup {n} /\ n \in DOMAIN raw'
  BY <1>1, <1>n, <1>6
<1> HIDE DEF id
<1> DEFINE Kept ==
       /\ Once'
       /\ ran' \in Seq(Processes)
       /\ \A q \in DOMAIN ran' : ran'[q].shown
       /\ \A k \in DOMAIN raw' : raw'[k].status = "passed" => Backed(raw[k])'
       /\ \A q \in DOMAIN ran' : \E i \in DOMAIN raw' : ran'[q].id = raw'[i].id
<1>8. ASSUME ran' = Append(ran, p), status = "passed" => clean, process = m
      PROVE  Kept
  <2>1. /\ ran' \in Seq(Processes)
        /\ DOMAIN ran' = 1 .. m /\ ran'[m] = p
        /\ \A k \in DOMAIN ran : ran'[k] = ran[k]
    BY <1>1, <1>m, <1>4, <1>8, AppendProperties, LenProperties DEF TypeOK
  <2>2. ASSUME IsInjective(definitions), NEW k \in DOMAIN ran
        PROVE  ran[k].id # id
    <3>1. PICK i \in DOMAIN raw : ran[k].id = raw[i].id
      BY <1>0 DEF Validated, Validating
    <3>2. raw[i].id = definitions[i] /\ i \in DOMAIN definitions /\ i # n
      BY <1>0, <1>1, <1>n, <1>2 DEF Validated, Validating
    <3> QED
      BY <2>2, <3>1, <3>2, <1>1, <1>n DEF IsInjective, id
  <2>3. DOMAIN ran' = DOMAIN ran \cup {m} /\ m \in DOMAIN ran' /\ m \notin DOMAIN ran
    BY <1>1, <1>m, <2>1
  <2>4. Once'
    <3> SUFFICES ASSUME IsInjective(definitions),
                        NEW j \in DOMAIN ran', NEW k \in DOMAIN ran',
                        ran'[j].id = ran'[k].id
                 PROVE  j = k
      BY <1>0 DEF Once, IsInjective
    <3>1. CASE j \in DOMAIN ran /\ k \in DOMAIN ran
      BY <3>1, <2>1 DEF Validated, Once
    <3>2. CASE j = m \/ k = m
      BY <3>2, <2>1, <2>2, <2>3, <1>4
    <3> QED
      BY <3>1, <3>2, <2>3
  <2>5. \A q \in DOMAIN ran' : ran'[q].shown
    BY <2>1, <2>3, <1>4 DEF Validated
  <2>6. ASSUME NEW k \in DOMAIN raw', raw'[k].status = "passed"
        PROVE  Backed(raw[k])'
    <3>1. CASE k \in DOMAIN raw
      <4>1. Backed(raw[k]) /\ raw'[k] = raw[k]
        BY <3>1, <2>6, <1>6 DEF Validated
      <4> QED
        BY <4>1, <2>1, <2>3 DEF Backed
    <3>2. CASE k = n
      BY <3>2, <2>6, <2>1, <2>3, <1>4, <1>6, <1>8 DEF Backed
    <3> QED
      BY <3>1, <3>2, <1>7
  <2>7. \A q \in DOMAIN ran' : \E i \in DOMAIN raw' : ran'[q].id = raw'[i].id
    <3>1. raw'[n].id = id /\ ran'[m].id = id
      BY <1>4, <1>6, <2>1
    <3>2. ASSUME NEW k \in DOMAIN ran
          PROVE  \E i \in DOMAIN raw' : ran'[k].id = raw'[i].id
      BY <1>7, <2>1, <1>0, <1>6 DEF Validated, Validating
    <3> QED
      BY <3>1, <3>2, <2>3, <1>7
  <2> QED
    BY <2>1, <2>4, <2>5, <2>6, <2>7
<1>9. ASSUME status # "passed", UNCHANGED <<world, since, ran>>
      PROVE  Kept
  <2>1. Once' /\ ran' \in Seq(Processes) /\ \A q \in DOMAIN ran' : ran'[q].shown
    BY <1>0, <1>9 DEF Once, Validated, TypeOK
  <2>2. ASSUME NEW k \in DOMAIN raw', raw'[k].status = "passed"
        PROVE  Backed(raw[k])'
    <3>1. k \in DOMAIN raw /\ raw'[k] = raw[k]
      BY <2>2, <1>4, <1>6, <1>7, <1>9
    <3>2. Backed(raw[k])
      BY <2>2, <3>1 DEF Validated
    <3> QED
      BY <3>1, <3>2, <1>9 DEF Backed
  <2>3. \A q \in DOMAIN ran' : \E i \in DOMAIN raw' : ran'[q].id = raw'[i].id
    BY <1>7, <1>0, <1>6, <1>9 DEF Validated, Validating
  <2> QED
    BY <2>1, <2>2, <2>3
<1>10. Kept
  BY <1>5, <1>8, <1>9
<1>11. Validating'
  <2>1. Len(raw') <= Len(definitions)
    BY <1>0, <1>1, <1>n, <1>6
  <2>2. ASSUME NEW i \in DOMAIN raw'
        PROVE  raw'[i].id = definitions[i]
    BY <1>0, <1>4, <1>6, <1>7 DEF Validated, Validating, id
  <2> QED
    BY <2>1, <2>2, <1>0, <1>10 DEF Validating
<1>12. /\ world' \in States /\ since' \subseteq Editors /\ "call" \notin since'
       /\ since' = {} => UNCHANGED world /\ since = {}
  <2>1. final # None
    BY <1>0, CodingAssumption DEF Snapped, CodingAssumption
  <2> QED
    BY <2>1, <1>5 DEF Write, TypeOK, Editors, Snapped
<1>13. TypeOK'
  BY <1>0, <1>6, <1>10, <1>12 DEF TypeOK
<1>14. Untouched' /\ Snapped' /\ Calls'
  <2>1. Diff(baseline, final)' = Diff(baseline, final)
    BY <1>0 DEF Diff
  <2> QED
    BY <2>1, <1>0, <1>12 DEF Untouched, Snapped, Calls, Missing, Early, Late
<1>15. Told' /\ Decided'
  BY <1>0 DEF Told, Decided
<1>16. Validated'
  BY <1>0, <1>10, <1>11 DEF Validated
<1> QED
  BY <1>13, <1>14, <1>15, <1>16

\* Whatever the runner returns was the answer of one of its validators, and
\* unless it is shorter than what they answered it begins with that.
LEMMA ReturnedTypes ==
    ASSUME TypeOK, NEW returned \in Returned
    PROVE  /\ returned \in Seq(Answers)
           /\ \A k \in DOMAIN returned : \E j \in DOMAIN raw : returned[k] = raw[j]
           /\ \/ Len(returned) < Len(raw)
              \/ \A i \in DOMAIN raw : i \in DOMAIN returned /\ returned[i] = raw[i]
<1>1. raw \in Seq(Answers) /\ Len(raw) \in Nat /\ DOMAIN raw = 1 .. Len(raw)
  BY LenProperties DEF TypeOK
<1>2. ASSUME NEW n \in 0 .. Len(raw), returned = SubSeq(raw, 1, n)
      PROVE  /\ returned \in Seq(Answers) /\ Len(returned) = n
             /\ DOMAIN returned = 1 .. n
             /\ \A i \in 1 .. n : returned[i] = raw[i]
  <2>1. n \in Nat /\ n <= Len(raw)
    BY <1>1
  <2>2. \A i \in 1 .. n : raw[i] \in Answers
    BY <1>1, <2>1, ElementOfSeq
  <2>3. /\ returned \in Seq(Answers)
        /\ Len(returned) = IF 1 <= n THEN n - 1 + 1 ELSE 0
        /\ \A i \in 1 .. n - 1 + 1 : returned[i] = raw[1 + i - 1]
    BY <1>2, <2>1, <2>2, SubSeqProperties
  <2>4. n - 1 + 1 = n /\ \A i \in 1 .. n : 1 + i - 1 = i
    BY <2>1
  <2>5. Len(returned) = n
    BY <2>1, <2>3
  <2> QED
    BY <2>3, <2>4, <2>5, LenProperties
<1>3. CASE \E n \in 0 .. Len(raw) : returned = SubSeq(raw, 1, n)
  <2>1. PICK n \in 0 .. Len(raw) : returned = SubSeq(raw, 1, n)
    BY <1>3
  <2>2. /\ returned \in Seq(Answers) /\ Len(returned) = n
        /\ DOMAIN returned = 1 .. n
        /\ \A i \in 1 .. n : returned[i] = raw[i]
    BY <1>2, <2>1
  <2> QED
    BY <1>1, <2>2
<1>4. ASSUME NEW r \in Range(raw), returned = Append(raw, r)
      PROVE  /\ returned \in Seq(Answers)
             /\ \A k \in DOMAIN returned : \E j \in DOMAIN raw : returned[k] = raw[j]
             /\ \A i \in DOMAIN raw : i \in DOMAIN returned /\ returned[i] = raw[i]
  <2>1. PICK i \in DOMAIN raw : r = raw[i]
    BY DEF Range
  <2>2. r \in Answers
    BY <2>1, <1>1, ElementOfSeq
  <2>3. /\ returned \in Seq(Answers) /\ Len(returned) = Len(raw) + 1
        /\ \A j \in 1 .. Len(raw) : returned[j] = raw[j]
        /\ returned[Len(raw) + 1] = r
    BY <1>1, <1>4, <2>2, AppendProperties
  <2>4. DOMAIN returned = 1 .. Len(returned)
    BY <2>3, LenProperties
  <2> QED
    BY <1>1, <2>1, <2>3, <2>4
<1> QED
  BY <1>3, <1>4 DEF Returned

\* A slot says "passed" only if just one answer is for it, and that one does.
LEMMA NormalisedTypes ==
    ASSUME NEW returned \in Seq(Answers), NEW i \in DOMAIN definitions
    PROVE  /\ Normalise(returned)[i] \in Statuses
           /\ Normalise(returned)[i] = "passed" => \E k \in DOMAIN returned :
                /\ \A j \in DOMAIN returned : returned[j].id = definitions[i] <=> j = k
                /\ returned[k].status = "passed"
<1> DEFINE Matches(id) == {k \in DOMAIN returned : returned[k].id = id}
           matches == Matches(definitions[i])
<1>1. Normalise(returned)[i] =
          IF Cardinality(matches) = 1
          THEN returned[CHOOSE k \in matches : TRUE].status
          ELSE "not_run"
  BY DEF Normalise
<1>2. IsFiniteSet(matches)
  <2>1. matches \subseteq 1 .. Len(returned) /\ Len(returned) \in Nat
    BY LenProperties
  <2>2. IsFiniteSet(1 .. Len(returned))
    BY <2>1, FS_Interval
  <2> HIDE DEF matches
  <2> QED
    BY <2>1, <2>2, FS_Subset
<1>3. CASE Cardinality(matches) = 1
  <2>1. PICK k : matches = {k}
    <3> HIDE DEF matches
    <3> QED
      BY <1>2, <1>3, FS_Singleton
  <2>2. (CHOOSE j \in matches : TRUE) = k
    BY <2>1
  <2>3. k \in DOMAIN returned /\ \A j \in DOMAIN returned : returned[j].id = definitions[i] <=> j = k
    BY <2>1
  <2>4. Normalise(returned)[i] = returned[k].status
    <3> HIDE DEF matches
    <3> QED
      BY <1>1, <1>3, <2>2
  <2>5. returned[k].status \in Statuses
    <3>1. returned[k] \in Answers
      BY <2>3, ElementOfSeq, LenProperties
    <3> QED
      BY <3>1 DEF Answers
  <2> QED
    BY <2>3, <2>4, <2>5
<1>4. CASE Cardinality(matches) # 1
  <2>1. Normalise(returned)[i] = "not_run"
    <3> HIDE DEF matches
    <3> QED
      BY <1>1, <1>4
  <2> QED
    BY <2>1 DEF Statuses, NotPassed
<1> QED
  BY <1>3, <1>4

\* The results have a status for each definition.
LEMMA ResultTypes ==
    ASSUME NEW returned \in Seq(Answers)
    PROVE  Normalise(returned) \in [DOMAIN definitions -> Statuses]
<1>1. \A i \in DOMAIN definitions : Normalise(returned)[i] \in Statuses
  BY NormalisedTypes
<1>2. Normalise(returned) = [i \in DOMAIN definitions |-> Normalise(returned)[i]]
  BY DEF Normalise
<1> HIDE DEF Normalise
<1> QED
  BY <1>1, <1>2

LEMMA ValidatorsDonePreserves == IInv /\ ValidatorsDone => IInv'
<1> SUFFICES ASSUME IInv, ValidatorsDone PROVE IInv'
  OBVIOUS
<1> USE DEF IInv
<1>0. /\ pc = "validate" /\ Len(raw) = Len(definitions)
      /\ UNCHANGED <<stop, definitions, world, since, touched, attempts, escaped>>
      /\ UNCHANGED <<baseline, final, diff, collected, toolComplete, complete>>
      /\ UNCHANGED <<limitations, ran, verdict, terminal, answer>>
  BY DEF ValidatorsDone, workspace, evidence, snapshots
<1>1. limitations # << >> => limitations[1] \in Range(limitations)
  BY EmptySeq, LenProperties DEF Range, TypeOK
<1>2. Once' /\ (\A p \in DOMAIN ran' : ran'[p].shown) /\ Validating
  BY <1>0 DEF Validated, Once
<1>3. CASE raw' \in Returned /\ results' = Normalise(raw') /\ pc' = "verdict" /\ UNCHANGED err
  <2>1. /\ raw' \in Seq(Answers)
        /\ \A k \in DOMAIN raw' : \E j \in DOMAIN raw : raw'[k] = raw[j]
        /\ \/ Len(raw') < Len(raw)
           \/ \A i \in DOMAIN raw : i \in DOMAIN raw' /\ raw'[i] = raw[i]
    BY <1>3, ReturnedTypes
  <2>2. results' \in [DOMAIN definitions -> Statuses] /\ results' = Normalise(raw)'
    <3>1. Normalise(raw)' = Normalise(raw')
      BY <1>0 DEF Normalise
    <3> QED
      BY <3>1, <1>3, <2>1, ResultTypes
  <2>3. TypeOK'
    BY <1>0, <1>3, <2>1, <2>2 DEF TypeOK
  <2>4. Untouched' /\ Snapped' /\ Calls'
    <3>1. Diff(baseline, final)' = Diff(baseline, final)
      BY <1>0 DEF Diff
    <3> QED
      BY <3>1, <1>0, <1>3 DEF Untouched, Snapped, Calls, Missing, Early, Late
  <2>5. Told' /\ Decided'
    BY <1>0, <1>3 DEF Told, Decided
  <2>6. ASSUME NEW k \in DOMAIN raw', raw'[k].status = "passed"
        PROVE  Backed(raw[k])'
    <3>1. PICK j \in DOMAIN raw : raw'[k] = raw[j]
      BY <2>1
    <3>2. Backed(raw[j])
      BY <3>1, <2>6 DEF Validated
    <3> QED
      BY <3>1, <3>2, <1>0 DEF Backed
  <2>7. Complete'
    <3>1. DOMAIN raw = DOMAIN definitions
      BY <1>0, CodingAssumption, LenProperties DEF CodingAssumption, TypeOK
    <3> QED
      BY <3>1, <2>1, <1>0, <1>2 DEF Validating, Complete
  <2>8. Validated'
    BY <1>2, <1>3, <2>2, <2>6, <2>7 DEF Validated
  <2> QED
    BY <2>3, <2>4, <2>5, <2>8
<1>4. CASE pc' = "failing" /\ err' \in Errors /\ UNCHANGED <<raw, results>>
  <2>1. TypeOK'
    BY <1>0, <1>4 DEF TypeOK
  <2>2. Untouched' /\ Snapped' /\ Calls'
    BY <1>0, <1>4 DEF Untouched, Snapped, Calls, Missing, Early, Late
  <2>3. Told' /\ Decided'
    BY <1>0, <1>1, <1>4 DEF Told, Decided
  <2>4. Validated'
    BY <1>0, <1>2, <1>4 DEF Validated, Backed
  <2> QED
    BY <2>1, <2>2, <2>3, <2>4
<1> QED
  BY <1>3, <1>4 DEF ValidatorsDone, Goto, Raise

\* Before the configured limitations come the missing records, then the diff's.
LEMMA DecidedLimitations ==
    ASSUME TypeOK, NEW extra \in Seq(Limitations)
    PROVE  LET kept == Bounded(Configured \o limitations \o extra)
           IN /\ kept \in Seq(Limitations) /\ Len(kept) <= MaxLimitations
              /\ Len(Configured) < MaxLimitations /\ limitations # << >>
                   => limitations[1] \in Range(kept)
<1> DEFINE both == Configured \o limitations
           all == both \o extra
           n == Len(Configured) + 1
<1>1. /\ Configured \in Seq(Limitations) /\ limitations \in Seq(Limitations)
  <2>1. Configured \in Seq(Range(Configured))
    BY CodingAssumption, SeqOfRange DEF CodingAssumption
  <2>2. Range(Configured) \subseteq Limitations
    BY DEF Limitations
  <2>3. Configured \in Seq(Limitations)
    BY <2>1, <2>2, SeqMonotonic
  <2> QED
    BY <2>3 DEF TypeOK
<1>2. /\ Len(Configured) \in Nat /\ Len(limitations) \in Nat /\ Len(extra) \in Nat
      /\ MaxLimitations \in Nat
  BY <1>1, CodingAssumption, LenProperties DEF CodingAssumption
<1>3. /\ both \in Seq(Limitations) /\ Len(both) = Len(Configured) + Len(limitations)
      /\ \A i \in 1 .. Len(Configured) + Len(limitations) : both[i] =
            IF i <= Len(Configured) THEN Configured[i] ELSE limitations[i - Len(Configured)]
  BY <1>1, ConcatProperties
<1> HIDE DEF both
<1>4. /\ all \in Seq(Limitations) /\ Len(all) = Len(both) + Len(extra)
      /\ \A i \in 1 .. Len(both) + Len(extra) : all[i] =
            IF i <= Len(both) THEN both[i] ELSE extra[i - Len(both)]
  <2>1. both \in Seq(Limitations)
    BY <1>3
  <2> QED
    BY <2>1, ConcatProperties
<1> HIDE DEF all
<1>5. /\ Bounded(all) \in Seq(Limitations) /\ Len(Bounded(all)) <= MaxLimitations
      /\ \A i \in DOMAIN all : i <= MaxLimitations => all[i] \in Range(Bounded(all))
  BY <1>4, BoundedTypes
<1>6. ASSUME Len(Configured) < MaxLimitations, limitations # << >>
      PROVE  limitations[1] \in Range(Bounded(all))
  <2>1. Len(limitations) # 0
    BY <1>1, <1>6, EmptySeq
  <2>2. n \in 1 .. Len(both) /\ n <= MaxLimitations /\ n - Len(Configured) = 1
    BY <1>2, <1>3, <1>6, <2>1
  <2>3. all[n] = limitations[1]
    BY <1>2, <1>3, <1>4, <2>1, <2>2
  <2>4. n \in DOMAIN all
    BY <1>2, <1>3, <1>4, <2>2, LenProperties
  <2> QED
    BY <1>5, <2>2, <2>3, <2>4
<1> QED
  BY <1>5, <1>6 DEF all, both

\* Only a run all of whose validators passed, with nothing open, has passed.
LEMMA DecidePreserves == IInv /\ Decide => IInv'
<1> SUFFICES ASSUME IInv, Decide PROVE IInv'
  OBVIOUS
<1> USE DEF IInv
<1>0. /\ pc = "verdict" /\ pc' = "finish"
      /\ verdict' = DeriveVerdict(results, Observed, "unknown" \in collected)
      /\ UNCHANGED <<stop, definitions, world, since, touched, attempts, escaped>>
      /\ UNCHANGED <<collected, toolComplete, complete, baseline, final, diff>>
      /\ UNCHANGED <<raw, ran, results, err, terminal, answer>>
  BY DEF Decide, Goto, workspace, snapshots, outcome
<1>1. PICK extra \in Seq(Limitations) :
        limitations' = Bounded(Configured \o limitations \o extra)
  <2>1. << >> \in Seq(Limitations) /\ <<"rendered_diff_incomplete">> \in Seq(Limitations)
    BY EmptySeq DEF Limitations
  <2> QED
    BY <2>1 DEF Decide
<1>2. /\ limitations' \in Seq(Limitations) /\ Len(limitations') <= MaxLimitations
      /\ Len(Configured) < MaxLimitations /\ limitations # << >>
           => limitations[1] \in Range(limitations')
  BY <1>1, DecidedLimitations
<1>3. /\ results \in [DOMAIN definitions -> Statuses]
      /\ \A i \in DOMAIN definitions : results[i] = "passed" => \E k \in DOMAIN raw :
            /\ \A j \in DOMAIN raw : raw[j].id = definitions[i] <=> j = k
            /\ raw[k].status = "passed"
  <2>1. results = Normalise(raw) /\ raw \in Seq(Answers)
    BY <1>0 DEF Validated, TypeOK
  <2> HIDE DEF IInv
  <2> QED
    BY <2>1, ResultTypes, NormalisedTypes
<1>4. verdict' \in {"passed", "failed", "indeterminate", "not_validated"}
  BY <1>0 DEF DeriveVerdict
<1>5. ASSUME verdict' = "passed"
      PROVE  EachPassed /\ NothingOpen
  <2> DEFINE statuses == Range(results)
  <2>1. /\ "failed" \notin statuses /\ statuses \cap NotPassed = {} /\ statuses # {}
        /\ Observed /\ "unknown" \notin collected
    BY <1>0, <1>5 DEF DeriveVerdict
  <2>2. \A i \in DOMAIN definitions : results[i] = "passed"
    BY <2>1, <1>3 DEF Range, Statuses
  <2>3. DOMAIN definitions # {} /\ DOMAIN definitions = 1 .. Len(definitions)
        /\ Len(definitions) \in Nat /\ Len(raw) \in Nat /\ DOMAIN raw = 1 .. Len(raw)
    <3>1. definitions \in Seq(STRING) /\ raw \in Seq(Answers)
      BY CodingAssumption DEF CodingAssumption, TypeOK
    <3> QED
      BY <3>1, <2>1, <1>3, LenProperties DEF Range
  <2>4. definitions # << >>
    BY <2>3, EmptySeq
  <2>5. ASSUME NEW id \in Range(definitions)
        PROVE  \E k \in DOMAIN raw :
                 /\ \A j \in DOMAIN raw : raw[j].id = id <=> j = k
                 /\ raw[k].process \in DOMAIN ran
                 /\ ran[raw[k].process].id = id /\ ran[raw[k].process].clean
    <3>1. PICK i \in DOMAIN definitions : id = definitions[i]
      BY DEF Range
    <3>2. PICK k \in DOMAIN raw :
            /\ \A j \in DOMAIN raw : raw[j].id = id <=> j = k
            /\ raw[k].status = "passed"
      BY <3>1, <2>2, <1>3
    <3>3. Backed(raw[k]) /\ raw[k].id = id
      BY <3>2 DEF Validated
    <3> QED
      BY <3>2, <3>3 DEF Backed
  <2>6. IF IsInjective(definitions) THEN IsInjective([p \in DOMAIN ran |-> ran[p].id])
                                    ELSE Len(raw) < Len(definitions)
    <3>1. CASE IsInjective(definitions)
      BY <3>1 DEF Validated, Once, IsInjective
    <3>2. CASE ~IsInjective(definitions)
      <4>1. PICK a, b \in DOMAIN definitions : definitions[a] = definitions[b] /\ a # b
        BY <3>2 DEF IsInjective
      <4>2. ASSUME \A i \in DOMAIN definitions : i \in DOMAIN raw /\ raw[i].id = definitions[i]
            PROVE  FALSE
        <5>1. a \in DOMAIN raw /\ b \in DOMAIN raw
              /\ raw[a].id = definitions[a] /\ raw[b].id = definitions[a]
          BY <4>1, <4>2
        <5>2. definitions[a] \in Range(definitions)
          BY DEF Range
        <5>3. PICK k \in DOMAIN raw : \A j \in DOMAIN raw : raw[j].id = definitions[a] <=> j = k
          BY <5>2, <2>5
        <5> QED
          BY <4>1, <5>1, <5>3
      <4> QED
        BY <3>2, <4>2, <1>0 DEF Validated, Complete
    <3> QED
      BY <3>1, <3>2
  <2>7. \A process \in Range(ran) : process.shown
    BY DEF Validated, Range
  <2>8. Scopes \subseteq DOMAIN baseline \cap DOMAIN final /\ complete
    <3>1. baseline \in Snapshots /\ final \in Snapshots /\ diff = Diff(baseline, final)
      BY <1>0 DEF Snapped, Late
    <3>2. diff.clear = DOMAIN baseline \cap DOMAIN final
      BY <3>1, DiffTypes
    <3> QED
      BY <3>2, <2>1 DEF Observed
  <2>9. \A a \in attempts : a.recorded /\ a.effect # "unknown"
    BY <1>0, <2>1, <2>8 DEF Calls, Missing, Early, Late
  <2> QED
    BY <2>4, <2>5, <2>6, <2>7, <2>8, <2>9 DEF EachPassed, NothingOpen
<1>6. TypeOK'
  BY <1>0, <1>2, <1>4 DEF TypeOK
<1>7. Untouched' /\ Snapped' /\ Calls'
  <2>1. Diff(baseline, final)' = Diff(baseline, final)
    BY <1>0 DEF Diff
  <2> QED
    BY <2>1, <1>0 DEF Untouched, Snapped, Calls, Missing, Early, Late
<1>8. Told'
  BY <1>0, <1>2 DEF Told
<1>9. Validated'
  BY <1>0 DEF Validated, Once, Backed
<1>10. Decided'
  <2>1. EachPassed' = EachPassed /\ NothingOpen' = NothingOpen
    BY <1>0 DEF EachPassed, NothingOpen
  <2> QED
    BY <2>1, <1>0, <1>5 DEF Decided
<1> QED
  BY <1>6, <1>7, <1>8, <1>9, <1>10

LEMMA FinishPreserves == IInv /\ Finish => IInv'
<1> SUFFICES ASSUME IInv, Finish PROVE IInv'
  OBVIOUS
<1> USE DEF IInv, Finish, Stopped, Goto, Raise, workspace, evidence, snapshots, validation
<1>1. TypeOK'
  BY DEF TypeOK, Errors
<1>2. Untouched' /\ Snapped' /\ Calls'
  BY DEF Untouched, Snapped, Calls, Missing, Early, Late, Diff
<1>3. Told' /\ Validated'
  BY SameEvidence DEF Told, Validated
<1>4. Decided'
  BY SameEvidence DEF Decided
<1> QED
  BY <1>1, <1>2, <1>3, <1>4

LEMMA ReportFailurePreserves == IInv /\ ReportFailure => IInv'
<1> SUFFICES ASSUME IInv, ReportFailure PROVE IInv'
  OBVIOUS
<1> USE DEF IInv, ReportFailure, Goto, workspace, evidence, snapshots, validation
<1>1. TypeOK'
  BY DEF TypeOK, Errors
<1>2. Untouched' /\ Snapped' /\ Calls'
  BY DEF Untouched, Snapped, Calls, Missing, Early, Late, Diff
<1>3. Told' /\ Validated'
  BY SameEvidence DEF Told, Validated
<1>4. Decided'
  BY SameEvidence DEF Decided
<1> QED
  BY <1>1, <1>2, <1>3, <1>4

\* A stop changes nothing but itself, an edit by others nothing but the
\* workspace, and that is noted once the final snapshot was taken.
LEMMA OthersPreserve == IInv /\ (Cancel \/ Expire \/ OutsideEdit) => IInv'
<1> SUFFICES ASSUME IInv, Cancel \/ Expire \/ OutsideEdit PROVE IInv'
  OBVIOUS
<1> USE DEF IInv, Others, evidence, snapshots, validation, outcome
<1>1. Others /\ stop' \in {stop, "cancelled", "deadline"}
  BY DEF Cancel, Expire, OutsideEdit
<1>2. /\ world' \in States /\ since' \subseteq Editors /\ "call" \notin since'
      /\ pc = "validate" /\ since' = {} => UNCHANGED world /\ since = {}
  <2>1. CASE UNCHANGED <<world, since>>
    BY <2>1 DEF TypeOK, Snapped
  <2>2. CASE Write("other")
    <3>1. pc = "validate" => final # None
      BY CodingAssumption DEF Snapped, CodingAssumption
    <3> QED
      BY <2>2, <3>1 DEF Write, TypeOK, Editors, Snapped
  <2> QED
    BY <2>1, <2>2 DEF Cancel, Expire, OutsideEdit
<1>3. TypeOK'
  BY <1>1, <1>2 DEF TypeOK
<1>4. Untouched' /\ Snapped' /\ Calls'
  <2>1. Diff(baseline, final)' = Diff(baseline, final)
    BY <1>1 DEF Diff
  <2> QED
    BY <2>1, <1>1, <1>2 DEF Untouched, Snapped, Calls, Missing, Early, Late
<1>5. Told' /\ Validated'
  BY <1>1, SameEvidence DEF Told, Validated
<1>6. Decided'
  BY <1>1, SameEvidence DEF Decided
<1> QED
  BY <1>3, <1>4, <1>5, <1>6

LEMMA StutterPreserves == IInv /\ UNCHANGED vars => IInv'
<1> SUFFICES ASSUME IInv, UNCHANGED vars PROVE IInv'
  OBVIOUS
<1> USE DEF IInv, vars, workspace, evidence, snapshots, validation, outcome
<1>1. TypeOK'
  BY DEF TypeOK
<1>2. Untouched' /\ Snapped' /\ Calls'
  BY DEF Untouched, Snapped, Calls, Missing, Early, Late, Diff
<1>3. Told' /\ Validated'
  BY SameEvidence DEF Told, Validated
<1>4. Decided'
  BY SameEvidence DEF Decided
<1> QED
  BY <1>1, <1>2, <1>3, <1>4

----------------------------------------------------------------------------
(* The theorems *)

\* The parts hold together in every state of every run of the application.
THEOREM Inductive == Spec => []IInv
<1>1. IInv /\ [Next]_vars => IInv'
  BY BeginPreserves, ValidateTargetsPreserves, CaptureBaselinePreserves,
     LoadRepositoryPreserves, BuildContextPreserves, ToolCallPreserves,
     AgentAnswersPreserves, AgentFailsPreserves, SalvagePreserves,
     CaptureFinalPreserves, ValidatePreserves, ValidatorsDonePreserves,
     DecidePreserves, FinishPreserves, ReportFailurePreserves,
     OthersPreserve, StutterPreserves
     DEF Next, Run, Done
<1> QED
  BY <1>1, Initially, PTL DEF Spec

\* Every part of the run keeps its type, and the limitations their bound,
\* whatever is configured and whichever step fails.
THEOREM TypeCorrect == Spec => []TypeOK
<1>1. IInv => TypeOK
  BY DEF IInv
<1> QED
  BY <1>1, Inductive, PTL

\* A verdict "passed" in a result was earned, for any validators, also two of
\* one ID: the one answer for each ID is that of a clean process, every process
\* was started on what the diff shows unless somebody else had written since,
\* and no call is unrecorded or of unknown effect.
THEOREM VerdictIsEarned == Spec => []PassedIsEarned
<1>1. IInv => PassedIsEarned
  BY DEF IInv, Decided, PassedIsEarned
<1> QED
  BY <1>1, Inductive, PTL

\* What a run leaves behind hides no call and no effect of one, for every number
\* of calls and every bound on the limitations that leaves room for one.
THEOREM NothingHidden == Spec => []EvidenceIsHonest
<1>1. IInv => EvidenceIsHonest
  <2> SUFFICES ASSUME IInv, answer \in {"result", "error"}, ~escaped,
                      Len(Configured) < MaxLimitations
               PROVE  Disclosed /\ EffectsAdmitted
    BY DEF EvidenceIsHonest
  <2>1. pc = "ended"
    BY DEF IInv, Decided
  <2>2. Missing => RecordsMissing \in Range(limitations)
    BY <2>1 DEF IInv, Calls, Told, Missing, Early
  <2>3. Disclosed /\ EffectsAdmitted
    BY <2>2 DEF IInv, Calls, Disclosed, EffectsAdmitted
  <2> QED
    BY <2>3
<1> QED
  BY <1>1, Inductive, PTL
=============================================================================
