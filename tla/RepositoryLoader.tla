--------------------------- MODULE RepositoryLoader --------------------------
(***************************************************************************)
(* RepositoryContextLoader.load (src/dqagent/repository_context.py): the   *)
(* instructions on the ancestor chain of the targets, the catalog of       *)
(* skills and the body of at most one of them, read file by file while     *)
(* others edit the workspace.                                              *)
(*                                                                         *)
(* Every file is read the same way: revalidate the resolved path, read,    *)
(* revalidate again.  A digest stands for the content.  Only the skills of *)
(* the workspace itself are modelled (an external root compares file       *)
(* signatures instead, to the same end), an instruction that is a link is  *)
(* an error, and resolving all candidates of a kind is one step.           *)
(***************************************************************************)
EXTENDS WorkspaceFiles, Sequences, SequencesExt

CONSTANTS Chain,       \* the instruction files, from the root down
          Skills,      \* the skill files, in the order of their directories
          Selectable,  \* the skill keys a request may name, and None
          Key,         \* Key[c]: the key in the metadata of c, or None if invalid
          LoadLimits   \* in the unit of Size

\* RepositoryContextLimits, as its constructor accepts them.
Limits == [aggregate : Nat, catalog : Nat, individual : Nat \ {0}, entry : Nat \ {0},
           resources : Nat \ {0}, entries : Nat \ {0}, body : Nat \ {0},
           omissions : Nat \ {0}]

ASSUME RepositoryLoaderAssumption ==
    /\ Chain \in Seq(Paths \ {Root}) /\ Skills \in Seq(Paths \ {Root})
    /\ DOMAIN Key = Contents /\ None \in Selectable
    /\ LoadLimits \in Limits

VARIABLE load

Purposes == {"instruction", "entry", "body"}

NoLoad == [step |-> "none", mandatory |-> FALSE, wanted |-> None,
           purpose |-> "instruction",
           todo |-> {},         \* the candidates to read, with their signatures
           current |-> None,    \* the one that is read, and its content
           taken |-> None,
           instructions |-> <<>>, catalog |-> <<>>, body |-> None,
           aggregate |-> 0,     \* the characters of the instructions
           listed |-> 0,        \* the characters of the catalog
           omitted |-> <<>>]

LoadInit == load = NoLoad

Unaltered == UNCHANGED files

\* Any error ends the load: there is no context then.
Fails == load' = [NoLoad EXCEPT !.step = "failed"]

Candidates(seq) ==
    {[nth |-> i, path |-> seq[i], sig |-> Resolved(seq[i])]
        : i \in {j \in 1 .. Len(seq) : Present(seq[j])}}

\* resolve(purpose=INSTRUCTION or SKILL): a regular file in a directory, or an
\* error; a file that is missing is skipped by both callers.
Resolvable(seq) == \A i \in 1 .. Len(seq) : Present(seq[i]) => Resolves(seq[i])

-----------------------------------------------------------------------------
(* Candidates.                                                             *)

\* _resolve_targets and _collect_candidates.
CollectInstructions ==
    /\ load.step = "none"
    /\ \E mandatory \in BOOLEAN, wanted \in Selectable :
         \/ /\ ~Resolvable(Chain) \/ Cardinality(Candidates(Chain)) > LoadLimits.resources
            /\ Fails
         \/ /\ Resolvable(Chain) /\ Cardinality(Candidates(Chain)) <= LoadLimits.resources
            /\ load' = [NoLoad EXCEPT !.step = "next", !.mandatory = mandatory,
                          !.wanted = wanted, !.todo = Candidates(Chain)]
    /\ Unaltered

\* _discover_candidates, when the instructions are done.
CollectSkills ==
    /\ load.step = "next" /\ load.purpose = "instruction" /\ load.todo = {}
    /\ \/ /\ ~Resolvable(Skills) \/ Cardinality(Candidates(Skills)) > LoadLimits.entries
          /\ Fails
       \/ /\ Resolvable(Skills) /\ Cardinality(Candidates(Skills)) <= LoadLimits.entries
          /\ load' = [load EXCEPT !.purpose = "entry", !.todo = Candidates(Skills)]
    /\ Unaltered

\* The catalog is complete: the body of the skill asked for is read, or the
\* load is over.  A key that is unknown, or was omitted, is an error.
CataloguedAs(key) == {i \in 1 .. Len(load.catalog) : load.catalog[i].key = key}

SelectBody ==
    /\ load.step = "next" /\ load.purpose = "entry" /\ load.todo = {}
    /\ \/ load.wanted = None /\ load' = [load EXCEPT !.step = "loaded"]
       \/ load.wanted # None /\ CataloguedAs(load.wanted) = {} /\ Fails
       \/ \E i \in CataloguedAs(load.wanted) :
            load' = [load EXCEPT !.purpose = "body",
                       !.todo = {[nth |-> i, path |-> load.catalog[i].path,
                                  sig |-> load.catalog[i].sig]}]
    /\ Unaltered

-----------------------------------------------------------------------------
(* Reading a candidate: _read_candidate, _read_bytes, _read_body_bytes.    *)

Candidate == load.current
Limit == CASE load.purpose = "instruction" -> LoadLimits.individual
           [] load.purpose = "body" -> LoadLimits.body
           [] OTHER -> LoadLimits.entry

\* The next candidate in order, and its first revalidation.
Open ==
    /\ load.step = "next"
    /\ \E c \in load.todo :
         /\ \A d \in load.todo : c.nth <= d.nth
         /\ IF StillResolves(c.path, c.sig)
            THEN load' = [load EXCEPT !.step = "read", !.todo = @ \ {c}, !.current = c]
            ELSE Fails
    /\ Unaltered

\* Mutant of Omit: the omissions are not counted.
OmitUnbounded(reason, step) ==
    load' = [load EXCEPT !.step = step, !.current = None, !.taken = None,
               !.omitted = Append(@, [path |-> Candidate.path, purpose |-> load.purpose,
                                      reason |-> reason])]
\* An omission is recorded; one too many is an error.
Omit(reason, step) ==
    IF Len(load.omitted) >= LoadLimits.omissions THEN Fails
    ELSE load' = [load EXCEPT !.step = step, !.current = None, !.taken = None,
                    !.omitted = Append(@, [path |-> Candidate.path, purpose |-> load.purpose,
                                           reason |-> reason])]

\* What is too large by its size is not read: an instruction is omitted, or an
\* error when the instructions are mandatory, a body is omitted.
OmitLarge ==
    CASE load.purpose = "instruction" ->
            IF load.mandatory THEN Fails ELSE Omit("individual_limit", "next")
      [] OTHER -> Omit("skill_body_limit", "loaded")

\* stat and read: whatever the path holds by now.  An entry is not measured
\* first, its read is bounded.
Take ==
    /\ load.step = "read"
    /\ IF fs[Candidate.path].kind # "regular" THEN Fails
       ELSE IF load.purpose # "entry" /\ Size[fs[Candidate.path].content] > Limit
       THEN OmitLarge
       ELSE load' = [load EXCEPT !.step = "recheck", !.taken = fs[Candidate.path].content]
    /\ Unaltered

\* Mutant of Unmoved: no revalidation after the read.
UnmovedUnchecked == TRUE
\* The second revalidation: the file is still the one that was resolved.
Unmoved == StillResolves(Candidate.path, Candidate.sig)

\* held is history: what the file holds when it is admitted.
Item == [path |-> Candidate.path, content |-> load.taken, key |-> Key[load.taken],
         sig |-> Candidate.sig, held |-> fs[Candidate.path].content]

\* What the admission of an item leaves.
Admitted(step) == [load EXCEPT !.step = step, !.current = None, !.taken = None]

\* load, for an instruction: too large with the others is an omission, or an
\* error when the instructions are mandatory.
AdmitInstruction ==
    LET aggregate == load.aggregate + Size[load.taken]
    IN  IF aggregate > LoadLimits.aggregate
        THEN IF load.mandatory THEN Fails ELSE Omit("aggregate_limit", "next")
        ELSE load' = [Admitted("next") EXCEPT !.instructions = Append(@, Item),
                                              !.aggregate = aggregate]

\* load, for a catalog entry: one without valid metadata or beyond a limit is
\* omitted; a second entry with the key of another is an error.
AdmitEntry ==
    LET listed == load.listed + Size[load.taken]
    IN  IF Size[load.taken] > Limit THEN Omit("catalog_limit", "next")
        ELSE IF Key[load.taken] = None THEN Omit("skill_invalid", "next")
        ELSE IF listed > LoadLimits.catalog THEN Omit("catalog_limit", "next")
        ELSE IF CataloguedAs(Key[load.taken]) # {} THEN Fails
        ELSE load' = [Admitted("next") EXCEPT !.catalog = Append(@, Item), !.listed = listed]

\* _load_body: the metadata must still be that of the catalog entry.
AdmitBody ==
    IF Key[load.taken] # load.wanted THEN Fails
    ELSE load' = [Admitted("loaded") EXCEPT !.body = Item]

Admit ==
    /\ load.step = "recheck"
    /\ IF ~Unmoved THEN Fails
       ELSE CASE load.purpose = "instruction" -> AdmitInstruction
              [] load.purpose = "entry" -> AdmitEntry
              [] OTHER -> AdmitBody
    /\ Unaltered

Load == CollectInstructions \/ CollectSkills \/ SelectBody \/ Open \/ Take \/ Admit

-----------------------------------------------------------------------------
\* What the prompt is made from: a resource for an instruction, an entry and a
\* body, in this order.
Loaded ==
    LET As(bucket, seq) == [i \in 1 .. Len(seq) |->
                              [bucket |-> bucket, path |-> seq[i].path,
                               size |-> Size[seq[i].content]]]
    IN  As("instruction", load.instructions) \o As("catalog", load.catalog)
          \o IF load.body = None THEN <<>> ELSE As("body", <<load.body>>)
=============================================================================
