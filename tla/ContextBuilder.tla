--------------------------- MODULE ContextBuilder ----------------------------
(***************************************************************************)
(* ContextBuilder.build (src/dqagent/context.py): the model's view of a    *)
(* run under a character budget, and MemorySelector.select                 *)
(* (src/dqagent/memory_recall.py), which ranks what it may recall.         *)
(*                                                                         *)
(* Texts are their lengths, and what is kept of a list is the set of its   *)
(* places: every loop keeps the order of its list.  A turn has the cost of *)
(* its messages and the lines of its record in the summarizer's source:    *)
(* the record is one line of JSON, except for separators that JSON leaves  *)
(* alone and str.splitlines() does not (U+2028 and others), so a turn may  *)
(* have several lines.  Transcripts are complete, as SessionRun stores     *)
(* them.                                                                   *)
(***************************************************************************)
EXTENDS Integers, Sequences, FiniteSets

CONSTANTS Summarizers, \* subset of {"structural", "model"}
          Header,      \* the cost of a summary message without its content
          Escapes,     \* what JSON escapes may add to the cost of a summary
          Framing      \* the cost of the wrapper of a repository or memory message

ASSUME ContextBuilderAssumption ==
    /\ Summarizers \subseteq {"structural", "model"}
    /\ Header \in Nat /\ Escapes \subseteq Nat /\ Framing \in Nat

Buckets == {"instruction", "catalog", "body"}

Budget == [active : Nat,     \* max_characters - reserved_characters
           summary : Nat, input : Nat \ {0}, recent : Nat, memory : Nat,
           repository : [Buckets -> Nat]]

Least(a, b) == IF a <= b THEN a ELSE b
Left(a, b) == IF a >= b THEN a - b ELSE 0     \* max(0, a - b)

\* The characters of the texts in S, which have the lengths given, and how
\* many there are.
Characters(S, length) == UNION {{x} \X (1 .. length[x]) : x \in S}
Total(S, length) == Cardinality(Characters(S, length))

\* What a loop over S keeps that takes every element there is room for:
\* earlier[x] is what comes before x, and x fits beside the sets in fits[x].
Kept(S, earlier, fits) ==
    CHOOSE kept \in SUBSET S : \A x \in S : x \in kept <=> kept \cap earlier[x] \in fits[x]

-----------------------------------------------------------------------------
(* MemorySelector.select.                                                  *)

Before(r, s) == r.score > s.score \/ (r.score = s.score /\ r.id < s.id)
Ranked(records) == [r \in records |-> {q \in records : Before(q, r)}]

Sizes(records) == Total(records, [r \in records |-> r.size])

\* Why a record is not recalled after those already selected.
Reason(r, selected, request) ==
    IF r.score < request.score THEN "below_min_score"
    ELSE IF r.kind \notin request.kinds THEN "kind_not_allowed"
    ELSE IF Cardinality(selected) >= request.records THEN "max_records"
    ELSE IF Sizes(selected \cup {r}) > request.characters THEN "character_budget"
    ELSE "selected"

Select(records, request) ==
    LET earlier == Ranked(records)
        matches == Kept(records, earlier,
                        [r \in records |-> {S \in SUBSET earlier[r] :
                                              Reason(r, S, request) = "selected"}])
    IN  [records |-> records, request |-> request, matches |-> matches,
         omitted |-> {[id |-> r.id, reason |-> Reason(r, matches \cap earlier[r], request)]
                        : r \in records \ matches}]

-----------------------------------------------------------------------------
(* The prefix: prompt, repository and memory.                              *)

\* A message for each of the resources S.
RepositoryCost(resources, S) ==
    Total(S, [i \in 1 .. Len(resources) |-> resources[i].size + Framing])
InBucket(resources, S, bucket) == {i \in S : resources[i].bucket = bucket}

\* _project_repository: in order, skipping what does not fit in its bucket or
\* in what the required items leave.
FitsRepository(resources, S, i, budget, capacity) ==
    LET bucket == resources[i].bucket
    IN  /\ RepositoryCost(resources, InBucket(resources, S \cup {i}, bucket))
             <= budget.repository[bucket]
        /\ RepositoryCost(resources, S \cup {i}) <= capacity

ProjectRepository(resources, budget, capacity) ==
    LET all == 1 .. Len(resources)
    IN  Kept(all, [i \in all |-> 1 .. (i - 1)],
             [i \in all |-> {S \in SUBSET (1 .. (i - 1)) :
                               FitsRepository(resources, S, i, budget, capacity)}])

\* _project_memory: one message around the recalled records that fit together,
\* each of them in a wrapper of its own and escaped.
MemoryCost(records) ==
    IF records = {} THEN 0 ELSE Framing + Total(records, [r \in records |-> r.rendered])

ProjectMemory(recall, budget, available) ==
    LET capacity == Least(Least(budget.memory, recall.request.characters), available)
        earlier == Ranked(recall.matches)
    IN  Kept(recall.matches, earlier,
             [r \in recall.matches |-> {S \in SUBSET earlier[r] :
                                          MemoryCost(S \cup {r}) <= capacity}])

-----------------------------------------------------------------------------
(* The turns.                                                              *)

Lasts(turns, n) == Len(turns) - n + 1 .. Len(turns)
TurnCost(turns, n) == Total(Lasts(turns, n), [i \in 1 .. Len(turns) |-> turns[i].cost])

\* The active request and the recent turns that are always kept.
Required(turns, budget) == Least(budget.recent + 1, Len(turns))

\* Older turns are kept newest first, until the next one does not fit.
MostTurns(turns, least, room) ==
    LET fitting == {n \in least .. Len(turns) : TurnCost(turns, n) <= room}
    IN  CHOOSE n \in fitting \cup {least} : \A m \in fitting : m <= n

\* summary_reserve: what older turns may not take from a summary of the rest.
Reserve(budget, room) == IF budget.summary = 0 THEN 0
                         ELSE Least(budget.summary + Header, room)

-----------------------------------------------------------------------------
(* The summary.                                                            *)

\* The length of texts joined by separators.
Joined(S, length) == IF S = {} THEN 0 ELSE Total(S, length) + Cardinality(S) - 1

\* The newest that fit together, where later[x] is what comes after x: a text
\* that does not fit is skipped.
NewestThatFit(S, length, later, room) ==
    Kept(S, later, [x \in S |-> {T \in SUBSET later[x] : Joined(T \cup {x}, length) <= room}])

\* _structural_compact: the records of the first n turns, in the input limit.
RecordLength(turn) == Joined(1 .. Len(turn.lines), turn.lines)

StructuralSource(turns, n, budget) ==
    NewestThatFit(1 .. n, [i \in 1 .. n |-> RecordLength(turns[i])],
                  [i \in 1 .. n |-> i + 1 .. n], budget.input)

\* The source split into lines again: the line l of the turn i is <<i, l>>.
Lines(turns, source) == UNION {{i} \X (1 .. Len(turns[i].lines)) : i \in source}
Later(lines) == [x \in lines |-> {y \in lines : y[1] > x[1] \/ (y[1] = x[1] /\ y[2] > x[2])}]
LineLength(turns, lines) == [x \in lines |-> turns[x[1]].lines[x[2]]]

\* A draft: its length, the turns it claims to stand for, and the lines it
\* repeats.  The structural one keeps what fits; a model answers at any length,
\* over the limit too (one more stands for it), or not in text.
StructuralDraft(turns, source, limit) ==
    LET lines == Lines(turns, source)
        length == LineLength(turns, lines)
        kept == NewestThatFit(lines, length, Later(lines), limit)
    IN  [length |-> Joined(kept, length), turns |-> Cardinality(kept), lines |-> kept]

Drafts(summarizer, turns, source, limit) ==
    IF summarizer = "structural" THEN {StructuralDraft(turns, source, limit)}
    ELSE {[length |-> n, turns |-> Cardinality(Lines(turns, source)), lines |-> {}]
            : n \in {0, 1, limit, limit + 1}}
=============================================================================
