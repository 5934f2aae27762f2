----------------------------- MODULE ContextRun ------------------------------
(***************************************************************************)
(* From the workspace and the memory to the model's view of a run.  The    *)
(* coding application loads the repository context and builds a window     *)
(* without history (coding.py); a session recalls memory and builds one    *)
(* over its transcript (application.py).  Between projecting the turns and *)
(* assembling the window the summarizer runs, which may be a model call.   *)
(***************************************************************************)
EXTENDS RepositoryLoader, ContextBuilder

CONSTANTS Transcripts, \* sequences of turns: the completed turns, then the request
          Prompts,     \* the costs of prompt sections, knowledge and retrieval
          Memories,    \* sets of records of the scope, or None: no recall
          Requests,    \* recall requests
          Budgets

ASSUME ContextRunAssumption ==
    /\ Transcripts \subseteq Seq([cost : Nat, lines : Seq(Nat)])
    /\ \A t \in Transcripts : t # <<>> /\ \A i \in 1 .. Len(t) : t[i].lines # <<>>
    /\ Prompts \subseteq Nat /\ Budgets \subseteq Budget
    /\ \A m \in Memories \ {None} :
         /\ IsFiniteSet(m)
         /\ \A r \in m : /\ r.id \in Nat /\ r.score \in Int
                        /\ r.size \in Nat /\ r.rendered \in Nat
         /\ \A q, r \in m : q.id = r.id => q = r
    /\ \A request \in Requests :
         request.score \in Int /\ request.records \in Nat /\ request.characters \in Nat

VARIABLE window

vars == <<files, load, window>>

Idle == [step |-> "idle", reason |-> None, turns |-> <<>>, budget |-> None, prompt |-> 0,
         resources |-> <<>>, repository |-> {},   \* the resources that get a message
         recall |-> None, memory |-> {},          \* the records in the memory message
         unrecalled |-> {},                       \* those that are not, and why
         kept |-> 0, source |-> {},
         summary |-> <<>>]                        \* the summary message, if there is one

Init == FilesInit /\ LoadInit /\ window = Idle

-----------------------------------------------------------------------------
Ended(w, step, reason) == [w EXCEPT !.step = step, !.reason = reason]

PrefixCost(w) == w.prompt + RepositoryCost(w.resources, w.repository) + MemoryCost(w.memory)
Cost(w) == PrefixCost(w) + (IF w.summary = <<>> THEN 0 ELSE w.summary[1].cost)
             + TurnCost(w.turns, w.kept)

\* The window of the prefix, the summary and the last n turns, or the overflow
\* the last check would report.
Assemble(w, n, summary) ==
    LET whole == [w EXCEPT !.step = "built", !.kept = n, !.summary = summary]
    IN  IF Cost(whole) > w.budget.active THEN Ended(w, "overflow", "assembled") ELSE whole

\* What the prefix leaves, and what the turns kept leave of that.
Room(w) == Left(w.budget.active, PrefixCost(w))
Beside(w, n) == Left(Room(w), TurnCost(w.turns, n))

\* Without a summary its reserve goes to older turns too.
Unsummarized(w) == Assemble(w, MostTurns(w.turns, w.kept, Room(w)), <<>>)

\* Mutant of Capacity: the repository may take what the prompt and the
\* required turns need.
CapacityOfBudget(turns, budget, prompt) == budget.active
\* What the prompt and the required turns leave to the rest of the prefix.
Capacity(turns, budget, prompt) ==
    Left(budget.active, prompt + TurnCost(turns, Required(turns, budget)))

\* The prefix: the prompt, then of the resources and of what is recalled as
\* much as the required turns leave room for.
Prefixed(turns, prompt, budget, resources, recall) ==
    LET capacity == Capacity(turns, budget, prompt)
        repository == ProjectRepository(resources, budget, capacity)
        memory == ProjectMemory(recall, budget,
                                Left(capacity, RepositoryCost(resources, repository)))
        base == [Idle EXCEPT !.turns = turns, !.budget = budget, !.prompt = prompt,
                    !.kept = Required(turns, budget),
                    !.resources = resources, !.repository = repository]
    IN  IF recall = None THEN base
        ELSE [base EXCEPT !.recall = recall, !.memory = memory,
                !.unrecalled = recall.omitted
                    \cup {[id |-> r.id, reason |-> "projection_budget"]
                            : r \in recall.matches \ memory}]

\* No prefix but the prompt: the required turns do not fit beside it.
PromptOnly(turns, prompt, budget) ==
    [Idle EXCEPT !.turns = turns, !.budget = budget, !.prompt = prompt]

SummaryLimit(w) == Least(w.budget.summary, Left(Beside(w, w.kept), Header))

\* The window with as many turns as leave the reserve, and what a summary of
\* the others is made from.
Trimmed(w) ==
    LET kept == MostTurns(w.turns, w.kept,
                          Left(Room(w), Reserve(w.budget, Beside(w, w.kept))))
    IN  [w EXCEPT !.kept = kept,
                  !.source = StructuralSource(w.turns, Len(w.turns) - kept, w.budget)]

\* _build_with_memory and _build_without_memory, up to the summarizer.
Project(turns, prompt, budget, resources, recall) ==
    LET w == Prefixed(turns, prompt, budget, resources, recall)
        trimmed == Trimmed(w)
    IN  IF prompt + TurnCost(turns, Required(turns, budget)) > budget.active
        THEN Ended(PromptOnly(turns, prompt, budget), "overflow", "required")
        ELSE IF TurnCost(turns, Len(turns)) <= Room(w) THEN Assemble(w, Len(turns), <<>>)
        ELSE IF SummaryLimit(trimmed) = 0 \/ trimmed.source = {} THEN Unsummarized(trimmed)
        ELSE [trimmed EXCEPT !.step = "summary"]

-----------------------------------------------------------------------------
(* Actions.                                                                *)

Frame == UNCHANGED <<files, load>>

\* The coding application: the repository context, no history and no memory.
BuildForCoding ==
    /\ load.step = "loaded" /\ window = Idle
    /\ \E t \in Transcripts, prompt \in Prompts, budget \in Budgets :
         /\ Len(t) = 1
         /\ window' = Project(t, prompt, budget, Loaded, None)
    /\ Frame

\* A session: its transcript and what it recalls; no repository context.
BuildForSession ==
    /\ load.step = "none" /\ window = Idle
    /\ \E t \in Transcripts, prompt \in Prompts, budget \in Budgets, m \in Memories :
         \E request \in Requests :
            window' = Project(t, prompt, budget, <<>>,
                              IF m = None THEN None ELSE Select(m, request))
    /\ Frame

\* Mutant of Claimed: the count of the summarizer is believed.
ClaimedOnTrust(draft, source) == TRUE
\* 0 <= source turns <= included turns.
Claimed(draft, source) == draft.turns <= Cardinality(source)

\* The summarizer answers: a blank draft is none, one that is too long or that
\* claims more turns than it was given is an error, and one whose message does
\* not fit after all is dropped.
Answered(w, summarizer, escapes, draft) ==
    LET message == [cost |-> Header + draft.length + escapes, by |-> summarizer,
                    turns |-> draft.turns, lines |-> draft.lines,
                    included |-> Cardinality(w.source)]
    IN  IF draft.length > SummaryLimit(w) THEN Ended(w, "failed", "summary too long")
        ELSE IF draft.length = 0 THEN Unsummarized(w)
        ELSE IF ~Claimed(draft, w.source) THEN Ended(w, "failed", "source turn count")
        ELSE IF message.cost > Beside(w, w.kept) THEN Unsummarized(w)
        ELSE Assemble(w, w.kept, <<message>>)

Summarize ==
    /\ window.step = "summary"
    /\ \E summarizer \in Summarizers, escapes \in Escapes :
         \E draft \in Drafts(summarizer, window.turns, window.source, SummaryLimit(window)) :
            window' = Answered(window, summarizer, escapes, draft)
    /\ Frame

\* The model call fails, or does not answer in text.
SummarizerFails ==
    /\ window.step = "summary" /\ "model" \in Summarizers
    /\ window' = Ended(window, "failed", "provider")
    /\ Frame

Loading == Load /\ window = Idle /\ UNCHANGED window

\* Others edit the workspace while the context is loaded.
Edit ==
    /\ load.step \in {"next", "read", "recheck"} /\ window = Idle
    /\ \E p \in Editable : Change(p)
    /\ UNCHANGED <<load, window>>

Done == (load.step = "failed" \/ window.step \in {"built", "overflow", "failed"})
          /\ UNCHANGED vars

Next == Loading \/ Edit \/ BuildForCoding \/ BuildForSession \/ Summarize
          \/ SummarizerFails \/ Done

Spec == Init /\ [][Next]_vars

-----------------------------------------------------------------------------
(* Properties.                                                             *)

\* The load keeps its limits, and the window is one of its turns.
TypeOK ==
    /\ fs \in [Paths -> Node]
    /\ load.step \in {"none", "next", "read", "recheck", "loaded", "failed"}
    /\ load.purpose \in Purposes
    /\ load.aggregate <= LoadLimits.aggregate
    /\ load.listed <= LoadLimits.catalog
    /\ Len(load.omitted) <= LoadLimits.omissions
    /\ window.step \in {"idle", "summary", "built", "overflow", "failed"}
    /\ window.kept \in 0 .. Len(window.turns)

\* What a load returns is what the files hold: an instruction, an entry or a
\* body is the content of its file when it is admitted, whatever was written
\* while it was read.  The body is that of the one entry with the key asked
\* for, keys are unique, and mandatory instructions are complete.
LoadedAsIs ==
    LET all == load.instructions \o load.catalog
                 \o IF load.body = None THEN <<>> ELSE <<load.body>>
    IN  /\ \A i \in 1 .. Len(all) : all[i].held = all[i].content
        /\ \A i, j \in 1 .. Len(load.catalog) :
             load.catalog[i].key = load.catalog[j].key => i = j
        /\ load.body # None =>
             \E i \in CataloguedAs(load.wanted) :
               /\ load.body.path = load.catalog[i].path
               /\ load.body.content = load.catalog[i].content
        /\ load.step = "loaded" /\ load.mandatory =>
             \A i \in 1 .. Len(load.omitted) : load.omitted[i].purpose # "instruction"

\* What the prompt and the required turns take.
Needed(w) == w.prompt + TurnCost(w.turns, Required(w.turns, w.budget))

\* Each resource has a message, within the budget of its bucket, or there is
\* still no room for it after all of them: in its bucket, or beside the prompt,
\* the required turns and the other resources.
RepositoryFits(w) ==
    /\ \A b \in Buckets : RepositoryCost(w.resources, InBucket(w.resources, w.repository, b))
                            <= w.budget.repository[b]
    /\ \A i \in 1 .. Len(w.resources) :
         \/ i \in w.repository
         \/ ~FitsRepository(w.resources, w.repository, i, w.budget,
                            w.budget.active - Needed(w))

\* What holds of a record that is left out for a reason, after all records.
Justified(w, r, reason) ==
    LET more == MemoryCost(w.memory \cup {r})
    IN  \/ reason = "below_min_score" /\ r.score < w.recall.request.score
        \/ reason = "kind_not_allowed" /\ r.kind \notin w.recall.request.kinds
        \/ reason = "max_records" /\ Cardinality(w.recall.matches) = w.recall.request.records
        \/ reason = "character_budget"
             /\ Sizes(w.recall.matches \cup {r}) > w.recall.request.characters
        \/ /\ reason = "projection_budget"
           /\ \/ more > Least(w.budget.memory, w.recall.request.characters)
              \/ Needed(w) + RepositoryCost(w.resources, w.repository) + more > w.budget.active

\* Each record is in the memory message, within its budget and what the request
\* allows, or is left out for one reason, which holds.
MemoryFits(w) ==
    w.recall # None =>
      /\ Cardinality(w.memory) <= w.recall.request.records
      /\ MemoryCost(w.memory) <= Least(w.budget.memory, w.recall.request.characters)
      /\ \A r \in w.recall.records :
           (r \in w.memory) # (\E s \in w.unrecalled : s.id = r.id)
      /\ \A s \in w.unrecalled :
           /\ \E r \in w.recall.records : s.id = r.id /\ Justified(w, r, s.reason)
           /\ \A u \in w.unrecalled : s.id = u.id => s = u

\* No turn that would still fit is dropped without a summary.
TurnsFit(w) ==
    w.summary = <<>> /\ w.kept < Len(w.turns) =>
      Cost(w) + w.turns[Len(w.turns) - w.kept].cost > w.budget.active

\* A window fits its budget and leaves nothing out that fits: it ends with the
\* active request after the required recent turns, no turn that would still
\* fit is dropped without a summary, every resource and record recalled is
\* either in a message within its own budget or left out for want of room that
\* is still wanting in the end, and only a prompt and required turns that are
\* too large by themselves overflow.
Fitting(w) ==
    /\ w.step = "overflow" => w.reason = "required" /\ Needed(w) > w.budget.active
    /\ w.step = "built" =>
         /\ Cost(w) <= w.budget.active
         /\ w.kept >= Required(w.turns, w.budget)
         /\ TurnsFit(w) /\ RepositoryFits(w) /\ MemoryFits(w)
WindowFits == Fitting(window)

\* The turns a window leaves out, and whether a record given to the summarizer
\* has a line separator in it.
OmittedTurns(w) == 1 .. Len(w.turns) - w.kept
Torn(w) == \E i \in w.source : Len(w.turns[i].lines) > 1

\* A summary stands for the omitted turns only and counts no more of them than
\* it was given.  Whole records are promised too (RecordsAreWhole), and the code
\* breaks that; what it keeps of it is that a record with a line separator is
\* the only cause: without one the structural summary holds as many complete
\* turns as it claims, no build fails over the count of turns, and none fails
\* because the structural summary is too long.
Honest(w) ==
    /\ w.step = "built" /\ w.summary # <<>> =>
         LET summary == w.summary[1]
         IN  /\ summary.turns <= summary.included
             /\ summary.included <= Cardinality(OmittedTurns(w))
             /\ \A x \in summary.lines : x[1] \in OmittedTurns(w)
             /\ summary.by = "structural" /\ ~Torn(w) =>
                  Cardinality({x[1] : x \in summary.lines}) = summary.turns
    /\ w.step = "failed" =>
         \/ w.reason = "source turn count" /\ Torn(w)
         \/ w.reason \in {"summary too long", "provider"} /\ "model" \in Summarizers
SummaryIsHonest == Honest(window)

\* The structural summary repeats records whole or not at all: "Structural
\* records that cannot fit are omitted and counted; no character prefix is
\* emitted" (docs/architecture.md 577), of "atomic JSONL records" (572).
RecordsAreWhole ==
    window.step = "built" /\ window.summary # <<>> =>
      LET summary == window.summary[1]
      IN  summary.by = "structural" =>
            \A x \in summary.lines :
              {x[1]} \X DOMAIN window.turns[x[1]].lines \subseteq summary.lines
=============================================================================
