--------------------------- MODULE ContextRunProofs ---------------------------
(***************************************************************************)
(* Theorems about ContextRun, for every tree of files, transcript, memory, *)
(* budget and limit: a load keeps its limits and returns what the files    *)
(* hold however many edits there are, a window that is built fits its      *)
(* budget and leaves out nothing there is still room for, and a summary    *)
(* stands for turns that are left out.                                     *)
(***************************************************************************)
EXTENDS ContextRun, SequenceTheorems, FiniteSetTheorems, WellFoundedInduction, TLAPS

Steps == {"none", "next", "read", "recheck", "loaded", "failed"}

ToRead == [nth : Nat, path : Paths \ {Root}, sig : Signature]

Entries == [path : Paths \ {Root}, content : Contents, key : {Key[c] : c \in Contents},
            sig : Signature, held : Contents]

OmissionReasons ==
    {"individual_limit", "aggregate_limit", "catalog_limit", "skill_invalid", "skill_body_limit"}

Omissions == [path : Paths, purpose : Purposes, reason : OmissionReasons]

Loads == [step : Steps, mandatory : BOOLEAN, wanted : Selectable, purpose : Purposes,
          todo : SUBSET ToRead, current : ToRead \cup {None}, taken : Contents \cup {None},
          instructions : Seq(Entries), catalog : Seq(Entries), body : Entries \cup {None},
          aggregate : Nat, listed : Nat, omitted : Seq(Omissions)]

\* The files: no node is younger than the clock, and only a regular file is
\* read for its content.
FilesOK ==
    /\ fs \in [Paths -> Node] /\ clock \in Nat
    /\ \A p \in Paths : fs[p].stamp <= clock
    /\ \A p \in Paths : fs[p].kind = "regular" => fs[p].content \in Contents

\* A signature of a file that was there, taken at some time so far.
Old(sig) == sig.target <= clock /\ ~sig.missing

\* As long as the file has the stamp of sig, its content is c.
Holds(p, sig, c) == fs[p].stamp = sig.target => fs[p].content = c

Reading == load.step \in {"read", "recheck"}

\* Every signature is old, and what was read under one is still the content of
\* the file with that stamp.
ReadsOK ==
    /\ \A c \in load.todo : Old(c.sig)
    /\ Reading => load.current \in ToRead /\ Old(load.current.sig)
    /\ load.step = "recheck" =>
         /\ load.taken \in Contents
         /\ Holds(load.current.path, load.current.sig, load.taken)

\* The entries of the catalog: old signatures, contents as they were under
\* them, one entry for a key.
CatalogOK ==
    /\ \A i \in 1 .. Len(load.catalog) :
         /\ Old(load.catalog[i].sig)
         /\ Holds(load.catalog[i].path, load.catalog[i].sig, load.catalog[i].content)
    /\ \A i, j \in 1 .. Len(load.catalog) : load.catalog[i].key = load.catalog[j].key => i = j

FromCatalog(c) ==
    \E i \in CataloguedAs(load.wanted) :
        c.path = load.catalog[i].path /\ c.sig = load.catalog[i].sig

\* A body is read from the path of its entry, under the signature of the entry.
BodyOK ==
    load.purpose = "body" =>
        /\ \A c \in load.todo : FromCatalog(c)
        /\ Reading => FromCatalog(load.current)

AdmittedOK ==
    /\ \A i \in 1 .. Len(load.instructions) :
         load.instructions[i].held = load.instructions[i].content
    /\ \A i \in 1 .. Len(load.catalog) : load.catalog[i].held = load.catalog[i].content
    /\ load.body # None =>
         /\ load.body \in Entries /\ load.body.held = load.body.content
         /\ \E i \in CataloguedAs(load.wanted) :
              load.body.path = load.catalog[i].path /\ load.body.content = load.catalog[i].content
    /\ load.mandatory =>
         \A i \in 1 .. Len(load.omitted) : load.omitted[i].purpose # "instruction"

LimitsOK ==
    /\ load.aggregate <= LoadLimits.aggregate /\ load.listed <= LoadLimits.catalog
    /\ Len(load.omitted) <= LoadLimits.omissions

LoadOK == load \in Loads /\ ReadsOK /\ CatalogOK /\ BodyOK /\ AdmittedOK /\ LimitsOK

Fields == DOMAIN Idle

\* A window has its fields, and keeps at most the turns there are.
WindowShape(w) ==
    /\ w = [f \in Fields |-> w[f]]
    /\ w.step \in {"idle", "summary", "built", "overflow", "failed"}
    /\ Len(w.turns) \in Nat /\ w.kept \in 0 .. Len(w.turns)

\* A conversation, with at least the active request.
Conversation(turns) ==
    /\ Len(turns) \in Nat \ {0}
    /\ \A i \in 1 .. Len(turns) :
         /\ turns[i].cost \in Nat /\ Len(turns[i].lines) \in Nat \ {0}
         /\ \A l \in 1 .. Len(turns[i].lines) : turns[i].lines[l] \in Nat

\* The prefix leaves room for the required turns, and holds what fits.
PrefixOK(w) ==
    /\ Conversation(w.turns) /\ w.budget \in Budget /\ PrefixCost(w) \in Nat
    /\ PrefixCost(w) + TurnCost(w.turns, Required(w.turns, w.budget)) <= w.budget.active
    /\ RepositoryFits(w) /\ MemoryFits(w)

\* While the summarizer runs, the turns that are kept fit, and its source is
\* made of the others.
Pending(w) ==
    /\ PrefixOK(w)
    /\ w.kept \in Required(w.turns, w.budget) .. Len(w.turns)
    /\ TurnCost(w.turns, w.kept) <= Room(w)
    /\ w.source \in SUBSET OmittedTurns(w)

GoodWindow(w) ==
    WindowShape(w) /\ (w.step = "summary" => Pending(w)) /\ Fitting(w) /\ Honest(w)

WindowOK == GoodWindow(window)

IInv == FilesOK /\ LoadOK /\ WindowOK

-----------------------------------------------------------------------------
(* The files.                                                              *)

\* The signature of a path is that of the node there.
LEMMA ResolvedType ==
    ASSUME FilesOK, NEW p \in Paths \ {Root}
    PROVE  /\ Resolved(p) \in Signature
           /\ Present(p) => Old(Resolved(p))
           /\ Resolved(p).target = (IF Present(p) THEN fs[p].stamp ELSE 0)
           /\ Resolved(p).missing = ~Present(p)
<1>1. fs[p] \in Node /\ fs[Parent[p]] \in Node
  BY WorkspaceFilesAssumption DEF FilesOK
<1>2. /\ fs[p].stamp \in Nat /\ fs[Parent[p]].stamp \in Nat /\ fs[p].stamp <= clock
  BY <1>1 DEF Node, FilesOK
<1>3. Present(p) \in BOOLEAN
  BY DEF Present
<1>4. Resolved(p) = [parent |-> fs[Parent[p]].stamp,
                     target |-> IF Present(p) THEN fs[p].stamp ELSE 0,
                     missing |-> ~Present(p)]
  BY DEF Resolved
<1>5. PICK n \in Nat : n = (IF Present(p) THEN fs[p].stamp ELSE 0)
  BY <1>2
<1>6. PICK b \in BOOLEAN : b = ~Present(p)
  BY <1>3
<1>7. Resolved(p) = [parent |-> fs[Parent[p]].stamp, target |-> n, missing |-> b]
  BY <1>4, <1>5, <1>6
<1>8. Resolved(p) \in Signature /\ Resolved(p).target = n /\ Resolved(p).missing = b
  BY <1>2, <1>5, <1>6, <1>7 DEF Signature
<1> QED
  BY <1>2, <1>5, <1>6, <1>8 DEF Old

\* A change puts new nodes at some paths and leaves the others alone.
LEMMA ChangeKeeps ==
    ASSUME FilesOK, NEW p \in Editable, Change(p)
    PROVE  /\ FilesOK' /\ clock' = clock + 1
           /\ \A q \in Paths : fs'[q] = fs[q] \/ fs'[q].stamp = clock + 1
<1>1. p \in Paths /\ p # Root
  BY WorkspaceFilesAssumption
<1>2. \E node \in Node : /\ Put(p, node) /\ node.stamp = clock + 1
                         /\ node.kind = "regular" => node.content \in Contents
  <2>1. clock + 1 \in Nat
    BY DEF FilesOK
  <2>2. \A c \in Contents : File(clock + 1, c) \in Node
    BY <2>1 DEF File, Node, Kinds
  <2>3. \A k \in {"directory", "link"} : Special(clock + 1, k) \in Node
    BY <2>1 DEF Special, Node, Kinds
  <2>4. Gone(clock + 1) \in Node
    BY <2>1 DEF Gone, Node, Kinds
  <2> QED
    BY <2>2, <2>3, <2>4 DEF Change, File, Special, Gone
<1>3. PICK node \in Node : /\ Put(p, node) /\ node.stamp = clock + 1
                           /\ node.kind = "regular" => node.content \in Contents
  BY <1>2
<1>4. clock' = clock + 1 /\ clock \in Nat
  BY <1>3 DEF Put, FilesOK
<1>5. fs' = [q \in Paths |-> IF q = p THEN node
                             ELSE IF Within(q, p) THEN Gone(clock + 1) ELSE fs[q]]
  BY <1>3 DEF Put
<1>6. Gone(clock + 1) \in Node /\ Gone(clock + 1).stamp = clock + 1
        /\ Gone(clock + 1).kind # "regular"
  BY <1>4 DEF Gone, Node, Kinds
<1>7. \A q \in Paths : /\ fs'[q] \in Node
                       /\ fs'[q] = fs[q] \/ fs'[q].stamp = clock + 1
                       /\ fs'[q].kind = "regular" => fs'[q].content \in Contents
  BY <1>3, <1>5, <1>6 DEF FilesOK
<1>8. fs' \in [Paths -> Node]
  BY <1>5, <1>7
<1>9. \A q \in Paths : fs'[q].stamp <= clock'
  BY <1>4, <1>7 DEF FilesOK, Node
<1> QED
  BY <1>4, <1>7, <1>8, <1>9 DEF FilesOK

-----------------------------------------------------------------------------
(* The steps of a load.                                                    *)

LEMMA NoLoadType == NoLoad \in Loads
<1>1. <<>> \in Seq(Entries) /\ <<>> \in Seq(Omissions) /\ {} \in SUBSET ToRead
  OBVIOUS
<1>2. None \in Entries \cup {None} /\ None \in ToRead \cup {None} /\ None \in Contents \cup {None}
  OBVIOUS
<1>3. None \in Selectable
  BY RepositoryLoaderAssumption
<1> QED
  BY <1>1, <1>2, <1>3 DEF NoLoad, Loads, Steps, Purposes

\* An error leaves the empty load, which is no context at all.
LEMMA FailKeeps ==
    ASSUME LoadOK, Fails
    PROVE  LoadOK'
<1>1. load' = [NoLoad EXCEPT !.step = "failed"]
  BY DEF Fails
<1>2. load' \in Loads
  BY <1>1, NoLoadType DEF Loads, Steps
<1>3. /\ load'.step = "failed" /\ load'.purpose = "instruction" /\ load'.todo = {}
      /\ load'.catalog = <<>> /\ load'.instructions = <<>> /\ load'.body = None
      /\ load'.omitted = <<>> /\ load'.aggregate = 0 /\ load'.listed = 0
      /\ load'.mandatory = FALSE
  BY <1>1 DEF NoLoad
<1>4. ReadsOK' /\ CatalogOK' /\ BodyOK'
  BY <1>3 DEF ReadsOK, CatalogOK, BodyOK, Reading
<1>5. AdmittedOK'
  BY <1>3 DEF AdmittedOK
<1>6. LimitsOK'
  BY <1>3, RepositoryLoaderAssumption DEF LimitsOK, Limits
<1> QED
  BY <1>2, <1>4, <1>5, <1>6 DEF LoadOK

\* What is collected is there, under its signature of now.
LEMMA CandidatesType ==
    ASSUME FilesOK, NEW seq \in Seq(Paths \ {Root})
    PROVE  Candidates(seq) \subseteq ToRead /\ \A c \in Candidates(seq) : Old(c.sig)
<1> SUFFICES ASSUME NEW i \in 1 .. Len(seq), Present(seq[i])
             PROVE  /\ [nth |-> i, path |-> seq[i], sig |-> Resolved(seq[i])] \in ToRead
                    /\ Old(Resolved(seq[i]))
  BY DEF Candidates
<1>1. seq[i] \in Paths \ {Root} /\ i \in Nat
  OBVIOUS
<1>2. Resolved(seq[i]) \in Signature /\ Old(Resolved(seq[i]))
  BY <1>1, ResolvedType
<1> QED
  BY <1>1, <1>2 DEF ToRead

LEMMA CollectInstructionsKeeps ==
    ASSUME FilesOK, LoadOK, CollectInstructions
    PROVE  LoadOK'
<1>1. CASE Fails
  BY <1>1, FailKeeps
<1>2. ASSUME NEW mandatory \in BOOLEAN, NEW wanted \in Selectable,
             load' = [NoLoad EXCEPT !.step = "next", !.mandatory = mandatory,
                          !.wanted = wanted, !.todo = Candidates(Chain)]
      PROVE  LoadOK'
  <2>1. Candidates(Chain) \subseteq ToRead /\ \A c \in Candidates(Chain) : Old(c.sig)
    BY CandidatesType, RepositoryLoaderAssumption
  <2> HIDE DEF Candidates
  <2>2. load' \in Loads
    BY <1>2, <2>1, NoLoadType DEF Loads, Steps
  <2>3. /\ load'.step = "next" /\ load'.purpose = "instruction"
        /\ load'.todo = Candidates(Chain)
        /\ load'.catalog = <<>> /\ load'.instructions = <<>> /\ load'.body = None
        /\ load'.omitted = <<>> /\ load'.aggregate = 0 /\ load'.listed = 0
    BY <1>2 DEF NoLoad
  <2>4. clock' = clock
    BY DEF CollectInstructions, Unaltered, files
  <2>5. ReadsOK'
    BY <2>1, <2>3, <2>4 DEF ReadsOK, Reading, Old
  <2>6. CatalogOK' /\ BodyOK'
    BY <2>3 DEF CatalogOK, BodyOK
  <2>7. AdmittedOK'
    BY <2>3 DEF AdmittedOK
  <2>8. LimitsOK'
    BY <2>3, RepositoryLoaderAssumption DEF LimitsOK, Limits
  <2> QED
    BY <2>2, <2>5, <2>6, <2>7, <2>8 DEF LoadOK
<1> QED
  BY <1>1, <1>2 DEF CollectInstructions

LEMMA CollectSkillsKeeps ==
    ASSUME FilesOK, LoadOK, CollectSkills
    PROVE  LoadOK'
<1>1. CASE Fails
  BY <1>1, FailKeeps
<1>2. CASE load' = [load EXCEPT !.purpose = "entry", !.todo = Candidates(Skills)]
  <2>1. Candidates(Skills) \subseteq ToRead /\ \A c \in Candidates(Skills) : Old(c.sig)
    BY CandidatesType, RepositoryLoaderAssumption
  <2>2. load \in Loads /\ load.step = "next"
    BY DEF LoadOK, CollectSkills
  <2>3. load' \in Loads
    BY <1>2, <2>1, <2>2 DEF Loads, Purposes
  <2>4. /\ load'.step = "next" /\ load'.purpose = "entry"
        /\ load'.todo = Candidates(Skills) /\ load'.wanted = load.wanted
        /\ load'.catalog = load.catalog /\ load'.instructions = load.instructions
        /\ load'.body = load.body /\ load'.omitted = load.omitted
        /\ load'.aggregate = load.aggregate /\ load'.listed = load.listed
        /\ load'.mandatory = load.mandatory
    BY <1>2, <2>2 DEF Loads
  <2>5. clock' = clock /\ fs' = fs
    BY DEF CollectSkills, Unaltered, files
  <2>6. ReadsOK'
    BY <2>1, <2>4, <2>5 DEF ReadsOK, Reading, Old
  <2>7. CatalogOK'
    BY <2>4, <2>5 DEF LoadOK, CatalogOK, Old, Holds
  <2>8. BodyOK'
    BY <2>4 DEF BodyOK
  <2>9. AdmittedOK'
    BY <2>4 DEF LoadOK, AdmittedOK, CataloguedAs
  <2>10. LimitsOK'
    BY <2>4 DEF LoadOK, LimitsOK
  <2> QED
    BY <2>3, <2>6, <2>7, <2>8, <2>9, <2>10 DEF LoadOK
<1> QED
  BY <1>1, <1>2 DEF CollectSkills
LEMMA SelectBodyKeeps ==
    ASSUME FilesOK, LoadOK, SelectBody
    PROVE  LoadOK'
<1>1. CASE Fails
  BY <1>1, FailKeeps
<1>2. load \in Loads /\ load.step = "next" /\ load.todo = {}
  BY DEF LoadOK, SelectBody
<1>3. clock' = clock /\ fs' = fs
  BY DEF SelectBody, Unaltered, files
<1>4. CASE load' = [load EXCEPT !.step = "loaded"]
  <2>1. load' \in Loads
    BY <1>2, <1>4 DEF Loads, Steps
  <2>2. /\ load'.step = "loaded" /\ load'.purpose = load.purpose /\ load'.todo = {}
        /\ load'.wanted = load.wanted /\ load'.catalog = load.catalog
        /\ load'.instructions = load.instructions /\ load'.body = load.body
        /\ load'.omitted = load.omitted /\ load'.aggregate = load.aggregate
        /\ load'.listed = load.listed /\ load'.mandatory = load.mandatory
    BY <1>2, <1>4 DEF Loads
  <2>3. ReadsOK' /\ BodyOK'
    BY <2>2 DEF ReadsOK, BodyOK, Reading
  <2>4. CatalogOK'
    BY <1>3, <2>2 DEF LoadOK, CatalogOK, Old, Holds
  <2>5. AdmittedOK' /\ LimitsOK'
    BY <2>2 DEF LoadOK, AdmittedOK, CataloguedAs, LimitsOK
  <2> QED
    BY <2>1, <2>3, <2>4, <2>5 DEF LoadOK
<1>5. ASSUME NEW i \in CataloguedAs(load.wanted),
             load' = [load EXCEPT !.purpose = "body",
                       !.todo = {[nth |-> i, path |-> load.catalog[i].path,
                                  sig |-> load.catalog[i].sig]}]
      PROVE  LoadOK'
  <2>1. i \in 1 .. Len(load.catalog) /\ load.catalog \in Seq(Entries)
    BY <1>2 DEF CataloguedAs, Loads
  <2>2. load.catalog[i] \in Entries /\ i \in Nat
    BY <2>1
  <2>3. PICK c : c = [nth |-> i, path |-> load.catalog[i].path, sig |-> load.catalog[i].sig]
    OBVIOUS
  <2>4. /\ c \in ToRead /\ c.path = load.catalog[i].path /\ c.sig = load.catalog[i].sig
    BY <2>2, <2>3 DEF ToRead, Entries
  <2>5. load' = [load EXCEPT !.purpose = "body", !.todo = {c}]
    BY <1>5, <2>3
  <2>6. load' \in Loads
    BY <1>2, <2>4, <2>5 DEF Loads, Purposes
  <2>7. /\ load'.step = "next" /\ load'.purpose = "body" /\ load'.todo = {c}
        /\ load'.wanted = load.wanted /\ load'.catalog = load.catalog
        /\ load'.instructions = load.instructions /\ load'.body = load.body
        /\ load'.omitted = load.omitted /\ load'.aggregate = load.aggregate
        /\ load'.listed = load.listed /\ load'.mandatory = load.mandatory
    BY <1>2, <2>5 DEF Loads
  <2>8. Old(load.catalog[i].sig)
    BY <2>1 DEF LoadOK, CatalogOK
  <2>9. ReadsOK'
    BY <1>3, <2>4, <2>7, <2>8 DEF ReadsOK, Reading, Old
  <2>10. BodyOK'
    BY <2>4, <2>7 DEF BodyOK, Reading, FromCatalog, CataloguedAs
  <2>11. CatalogOK'
    BY <1>3, <2>7 DEF LoadOK, CatalogOK, Old, Holds
  <2>12. AdmittedOK' /\ LimitsOK'
    BY <2>7 DEF LoadOK, AdmittedOK, CataloguedAs, LimitsOK
  <2> QED
    BY <2>6, <2>9, <2>10, <2>11, <2>12 DEF LoadOK
<1> QED
  BY <1>1, <1>4, <1>5 DEF SelectBody

LEMMA OpenKeeps ==
    ASSUME FilesOK, LoadOK, Open
    PROVE  LoadOK'
<1>1. CASE Fails
  BY <1>1, FailKeeps
<1>2. load \in Loads /\ load.step = "next"
  BY DEF LoadOK, Open
<1>3. clock' = clock /\ fs' = fs
  BY DEF Open, Unaltered, files
<1>4. ASSUME NEW c \in load.todo,
             load' = [load EXCEPT !.step = "read", !.todo = @ \ {c}, !.current = c]
      PROVE  LoadOK'
  <2>1. c \in ToRead /\ Old(c.sig)
    BY <1>2 DEF Loads, LoadOK, ReadsOK
  <2>2. load' \in Loads
    BY <1>2, <1>4, <2>1 DEF Loads, Steps
  <2>3. /\ load'.step = "read" /\ load'.purpose = load.purpose
        /\ load'.todo = load.todo \ {c} /\ load'.current = c
        /\ load'.wanted = load.wanted /\ load'.catalog = load.catalog
        /\ load'.instructions = load.instructions /\ load'.body = load.body
        /\ load'.omitted = load.omitted /\ load'.aggregate = load.aggregate
        /\ load'.listed = load.listed /\ load'.mandatory = load.mandatory
    BY <1>2, <1>4 DEF Loads
  <2>4. ReadsOK'
    BY <1>3, <2>1, <2>3 DEF LoadOK, ReadsOK, Reading, Old
  <2>5. BodyOK'
    BY <2>3 DEF LoadOK, BodyOK, FromCatalog, CataloguedAs
  <2>6. CatalogOK'
    BY <1>3, <2>3 DEF LoadOK, CatalogOK, Old, Holds
  <2>7. AdmittedOK' /\ LimitsOK'
    BY <2>3 DEF LoadOK, AdmittedOK, CataloguedAs, LimitsOK
  <2> QED
    BY <2>2, <2>4, <2>5, <2>6, <2>7 DEF LoadOK
<1> QED
  BY <1>1, <1>4 DEF Open

\* An omission is of the kind that is read, so it is no instruction when these
\* are mandatory.
LEMMA OmitKeeps ==
    ASSUME LoadOK, Reading, clock' = clock, fs' = fs,
           NEW reason \in OmissionReasons, NEW step \in {"next", "loaded"}, Omit(reason, step),
           ~load.mandatory \/ load.purpose # "instruction"
    PROVE  LoadOK'
<1>1. CASE Fails
  BY <1>1, FailKeeps
<1>2. CASE ~Fails
  <2>1. load \in Loads /\ load.current \in ToRead
    BY DEF LoadOK, ReadsOK
  <2>2. PICK item : item = [path |-> load.current.path, purpose |-> load.purpose,
                            reason |-> reason]
    OBVIOUS
  <2>3. item \in Omissions /\ item.purpose = load.purpose
    BY <2>1, <2>2 DEF Omissions, ToRead, Loads
  <2>4. PICK omitted : omitted = Append(load.omitted, item)
    OBVIOUS
  <2>5. /\ load' = [load EXCEPT !.step = step, !.current = None, !.taken = None,
                                !.omitted = omitted]
        /\ Len(load.omitted) < LoadLimits.omissions
    <3>1. ~(Len(load.omitted) >= LoadLimits.omissions)
      BY <1>2 DEF Omit
    <3>2. Len(load.omitted) \in Nat /\ LoadLimits.omissions \in Nat
      BY <2>1, RepositoryLoaderAssumption DEF Loads, Limits
    <3> QED
      BY <3>1, <3>2, <2>2, <2>4 DEF Omit, Candidate
  <2>6. /\ omitted \in Seq(Omissions) /\ Len(omitted) = Len(load.omitted) + 1
        /\ \A i \in 1 .. Len(omitted) :
             omitted[i] = IF i <= Len(load.omitted) THEN load.omitted[i] ELSE item
    BY <2>1, <2>3, <2>4 DEF Loads
  <2>7. load' \in Loads
    BY <2>1, <2>5, <2>6 DEF Loads, Steps
  <2>8. /\ load'.step = step /\ load'.purpose = load.purpose /\ load'.todo = load.todo
        /\ load'.wanted = load.wanted /\ load'.catalog = load.catalog
        /\ load'.instructions = load.instructions /\ load'.body = load.body
        /\ load'.omitted = omitted /\ load'.aggregate = load.aggregate
        /\ load'.listed = load.listed /\ load'.mandatory = load.mandatory
    BY <2>1, <2>5 DEF Loads
  <2>9. ReadsOK'
    BY <2>8 DEF LoadOK, ReadsOK, Reading, Old
  <2>10. BodyOK'
    BY <2>8 DEF LoadOK, BodyOK, Reading, FromCatalog, CataloguedAs
  <2>11. CatalogOK'
    BY <2>8 DEF LoadOK, CatalogOK, Old, Holds
  <2>12. load.mandatory => \A i \in 1 .. Len(omitted) : omitted[i].purpose # "instruction"
    <3> SUFFICES ASSUME load.mandatory, NEW i \in 1 .. Len(omitted)
                 PROVE  omitted[i].purpose # "instruction"
      OBVIOUS
    <3>1. CASE i <= Len(load.omitted)
      <4>1. i \in 1 .. Len(load.omitted)
        BY <3>1, <2>1 DEF Loads
      <4> QED
        BY <3>1, <4>1, <2>6 DEF LoadOK, AdmittedOK
    <3>2. CASE ~(i <= Len(load.omitted))
      BY <3>2, <2>3, <2>6
    <3> QED
      BY <3>1, <3>2
  <2>13. AdmittedOK'
    BY <2>8, <2>12 DEF LoadOK, AdmittedOK, CataloguedAs
  <2>14. LimitsOK'
    <3>1. Len(load.omitted) \in Nat /\ LoadLimits.omissions \in Nat
      BY <2>1, RepositoryLoaderAssumption DEF Loads, Limits
    <3>2. Len(omitted) <= LoadLimits.omissions
      BY <3>1, <2>5, <2>6
    <3> QED
      BY <3>2, <2>8 DEF LoadOK, LimitsOK
  <2> QED
    BY <2>7, <2>9, <2>10, <2>11, <2>13, <2>14 DEF LoadOK
<1> QED
  BY <1>1, <1>2

LEMMA TakeKeeps ==
    ASSUME FilesOK, LoadOK, Take
    PROVE  LoadOK'
<1>1. CASE Fails
  BY <1>1, FailKeeps
<1>2. /\ load \in Loads /\ load.step = "read" /\ Reading
      /\ load.current \in ToRead /\ Old(load.current.sig)
  BY DEF LoadOK, Take, Reading, ReadsOK
<1>3. clock' = clock /\ fs' = fs
  BY DEF Take, Unaltered, files
<1>4. CASE OmitLarge /\ load.purpose # "entry"
  <2>1. CASE load.purpose = "instruction" /\ ~load.mandatory
    <3>1. Omit("individual_limit", "next")
      BY <1>4, <2>1 DEF OmitLarge
    <3>2. "individual_limit" \in OmissionReasons /\ "next" \in {"next", "loaded"}
      BY DEF OmissionReasons
    <3> QED
      BY <3>1, <3>2, <2>1, <1>2, <1>3, OmitKeeps
  <2>2. CASE load.purpose = "instruction" /\ load.mandatory
    <3>1. Fails
      BY <1>4, <2>2 DEF OmitLarge
    <3> QED
      BY <3>1, FailKeeps
  <2>3. CASE load.purpose # "instruction"
    <3>1. Omit("skill_body_limit", "loaded")
      BY <1>4, <2>3 DEF OmitLarge
    <3>2. "skill_body_limit" \in OmissionReasons /\ "loaded" \in {"next", "loaded"}
      BY DEF OmissionReasons
    <3> QED
      BY <3>1, <3>2, <2>3, <1>2, <1>3, OmitKeeps
  <2> QED
    BY <2>1, <2>2, <2>3
<1>5. CASE /\ fs[load.current.path].kind = "regular"
           /\ load' = [load EXCEPT !.step = "recheck",
                                   !.taken = fs[load.current.path].content]
  <2>1. load.current.path \in Paths
    BY <1>2 DEF ToRead
  <2>2. PICK c : c = fs[load.current.path].content
    OBVIOUS
  <2>3. c \in Contents
    BY <1>5, <2>1, <2>2 DEF FilesOK
  <2>4. load' = [load EXCEPT !.step = "recheck", !.taken = c]
    BY <1>5, <2>2
  <2>5. load' \in Loads
    BY <1>2, <2>3, <2>4 DEF Loads, Steps
  <2>6. /\ load'.step = "recheck" /\ load'.purpose = load.purpose
        /\ load'.todo = load.todo /\ load'.current = load.current /\ load'.taken = c
        /\ load'.wanted = load.wanted /\ load'.catalog = load.catalog
        /\ load'.instructions = load.instructions /\ load'.body = load.body
        /\ load'.omitted = load.omitted /\ load'.aggregate = load.aggregate
        /\ load'.listed = load.listed /\ load'.mandatory = load.mandatory
    BY <1>2, <2>4 DEF Loads
  <2>7. ReadsOK'
    BY <1>2, <1>3, <2>2, <2>3, <2>6 DEF LoadOK, ReadsOK, Old, Holds
  <2>8. BodyOK'
    BY <1>2, <2>6 DEF LoadOK, BodyOK, FromCatalog, CataloguedAs
  <2>9. CatalogOK'
    BY <1>3, <2>6 DEF LoadOK, CatalogOK, Old, Holds
  <2>10. AdmittedOK' /\ LimitsOK'
    BY <2>6 DEF LoadOK, AdmittedOK, CataloguedAs, LimitsOK
  <2> QED
    BY <2>5, <2>7, <2>8, <2>9, <2>10 DEF LoadOK
<1> QED
  BY <1>1, <1>4, <1>5 DEF Take, Candidate
\* The second revalidation finds the file with the stamp it was resolved with,
\* so what was read is what the file holds.
LEMMA UnmovedHolds ==
    ASSUME FilesOK, LoadOK, load.step = "recheck", Unmoved
    PROVE  /\ load.current \in ToRead /\ load.taken \in Contents
           /\ Old(load.current.sig)
           /\ fs[load.current.path].content = load.taken
           /\ fs[load.current.path].stamp = load.current.sig.target
           /\ Item \in Entries /\ Item.path = load.current.path /\ Item.content = load.taken
           /\ Item.held = load.taken /\ Item.key = Key[load.taken]
           /\ Item.sig = load.current.sig
<1>1. /\ load.current \in ToRead /\ load.taken \in Contents /\ Old(load.current.sig)
      /\ Holds(load.current.path, load.current.sig, load.taken)
  BY DEF LoadOK, ReadsOK, Reading
<1>2. PICK p \in Paths \ {Root} : p = load.current.path
  BY <1>1 DEF ToRead
<1>3. Resolved(p) = load.current.sig
  BY <1>2 DEF Unmoved, StillResolves, Candidate
<1>4. Present(p)
  BY <1>1, <1>3, ResolvedType DEF Old
<1>5. fs[p].stamp = load.current.sig.target
  BY <1>3, <1>4, ResolvedType
<1>6. fs[p].content = load.taken
  BY <1>1, <1>2, <1>5 DEF Holds
<1>7. Item = [path |-> p, content |-> load.taken, key |-> Key[load.taken],
              sig |-> load.current.sig, held |-> load.taken]
  BY <1>2, <1>6 DEF Item, Candidate
<1>8. load.current.sig \in Signature
  BY <1>1 DEF ToRead
<1>9. PICK k : k = Key[load.taken]
  OBVIOUS
<1>10. k \in {Key[c] : c \in Contents}
  BY <1>1, <1>9
<1>11. Item = [path |-> p, content |-> load.taken, key |-> k,
               sig |-> load.current.sig, held |-> load.taken]
  BY <1>7, <1>9
<1>12. Item \in Entries
  BY <1>1, <1>8, <1>10, <1>11 DEF Entries
<1> QED
  BY <1>1, <1>2, <1>5, <1>6, <1>9, <1>11, <1>12

LEMMA AdmitInstructionKeeps ==
    ASSUME FilesOK, LoadOK, load.step = "recheck", Unmoved, clock' = clock, fs' = fs,
           load.purpose = "instruction", AdmitInstruction
    PROVE  LoadOK'
<1>1. /\ load \in Loads /\ load.taken \in Contents
      /\ Item \in Entries /\ Item.held = Item.content
  BY UnmovedHolds DEF LoadOK
<1>2. Size[load.taken] \in Nat
  BY <1>1, WorkspaceFilesAssumption
<1>3. PICK aggregate : aggregate = load.aggregate + Size[load.taken]
  OBVIOUS
<1>4. PICK item \in Entries : item = Item /\ item.held = item.content
  BY <1>1
<1>5. aggregate \in Nat
  BY <1>1, <1>2, <1>3 DEF Loads
<1>6. CASE aggregate > LoadLimits.aggregate /\ load.mandatory
  BY <1>3, <1>6, FailKeeps DEF AdmitInstruction
<1>7. CASE aggregate > LoadLimits.aggregate /\ ~load.mandatory
  <2>1. Omit("aggregate_limit", "next")
    BY <1>3, <1>7 DEF AdmitInstruction
  <2>2. /\ "aggregate_limit" \in OmissionReasons /\ "next" \in {"next", "loaded"}
        /\ Reading
    BY DEF OmissionReasons, Reading
  <2> QED
    BY <1>7, <2>1, <2>2, OmitKeeps
<1>8. CASE ~(aggregate > LoadLimits.aggregate)
  <2>1. PICK seq : seq = Append(load.instructions, item)
    OBVIOUS
  <2>2. load' = [load EXCEPT !.step = "next", !.current = None, !.taken = None,
                             !.instructions = seq, !.aggregate = aggregate]
    <3>1. load' = [Admitted("next") EXCEPT !.instructions = Append(load.instructions, Item),
                                           !.aggregate = aggregate]
      BY <1>1, <1>3, <1>8 DEF AdmitInstruction, Admitted, Loads
    <3> QED
      BY <3>1, <1>4, <2>1 DEF Admitted
  <2>3. /\ seq \in Seq(Entries) /\ Len(seq) = Len(load.instructions) + 1
        /\ \A i \in 1 .. Len(seq) :
             seq[i] = IF i <= Len(load.instructions) THEN load.instructions[i] ELSE item
    BY <1>1, <1>4, <2>1 DEF Loads
  <2>4. load' \in Loads
    BY <1>1, <1>5, <2>2, <2>3 DEF Loads, Steps
  <2>5. /\ load'.step = "next" /\ load'.purpose = load.purpose /\ load'.todo = load.todo
        /\ load'.wanted = load.wanted /\ load'.catalog = load.catalog
        /\ load'.instructions = seq /\ load'.body = load.body
        /\ load'.omitted = load.omitted /\ load'.aggregate = aggregate
        /\ load'.listed = load.listed /\ load'.mandatory = load.mandatory
    BY <1>1, <2>2 DEF Loads
  <2>6. ReadsOK'
    BY <2>5 DEF LoadOK, ReadsOK, Reading, Old
  <2>7. BodyOK'
    BY <2>5 DEF BodyOK
  <2>8. CatalogOK'
    BY <2>5 DEF LoadOK, CatalogOK, Old, Holds
  <2>9. \A i \in 1 .. Len(seq) : seq[i].held = seq[i].content
    <3> SUFFICES ASSUME NEW i \in 1 .. Len(seq)
                 PROVE  seq[i].held = seq[i].content
      OBVIOUS
    <3>1. CASE i <= Len(load.instructions)
      <4>1. i \in 1 .. Len(load.instructions)
        BY <1>1, <3>1 DEF Loads
      <4> QED
        BY <2>3, <3>1, <4>1 DEF LoadOK, AdmittedOK
    <3>2. CASE ~(i <= Len(load.instructions))
      BY <1>4, <2>3, <3>2
    <3> QED
      BY <3>1, <3>2
  <2>10. AdmittedOK'
    BY <2>5, <2>9 DEF LoadOK, AdmittedOK, CataloguedAs
  <2>11. aggregate <= LoadLimits.aggregate
    BY <1>5, <1>8, RepositoryLoaderAssumption DEF Limits
  <2>12. LimitsOK'
    BY <2>5, <2>11 DEF LoadOK, LimitsOK
  <2> QED
    BY <2>4, <2>6, <2>7, <2>8, <2>10, <2>12 DEF LoadOK
<1> QED
  BY <1>6, <1>7, <1>8

LEMMA AdmitEntryKeeps ==
    ASSUME FilesOK, LoadOK, load.step = "recheck", Unmoved, clock' = clock, fs' = fs,
           load.purpose = "entry", AdmitEntry
    PROVE  LoadOK'
<1>1. /\ load \in Loads /\ load.taken \in Contents
      /\ Item \in Entries /\ Item.held = Item.content /\ Item.key = Key[load.taken]
      /\ Old(Item.sig) /\ Holds(Item.path, Item.sig, Item.content)
  BY UnmovedHolds DEF LoadOK, Holds
<1>2. Size[load.taken] \in Nat
  BY <1>1, WorkspaceFilesAssumption
<1>3. PICK listed : listed = load.listed + Size[load.taken]
  OBVIOUS
<1>4. PICK item \in Entries :
        /\ item = Item /\ item.held = item.content /\ item.key = Key[load.taken]
        /\ Old(item.sig) /\ Holds(item.path, item.sig, item.content)
  BY <1>1
<1>5. listed \in Nat
  BY <1>1, <1>2, <1>3 DEF Loads
<1>6. ASSUME NEW reason \in {"catalog_limit", "skill_invalid"}, Omit(reason, "next")
      PROVE  LoadOK'
  <2>1. /\ reason \in OmissionReasons /\ "next" \in {"next", "loaded"} /\ Reading
        /\ load.purpose # "instruction"
    BY <1>6 DEF OmissionReasons, Reading
  <2> QED
    BY <1>6, <2>1, OmitKeeps
<1>7. ASSUME CataloguedAs(Key[load.taken]) = {}, ~(listed > LoadLimits.catalog),
             load' = [Admitted("next") EXCEPT !.catalog = Append(load.catalog, Item),
                                              !.listed = listed]
      PROVE  LoadOK'
  <2>1. PICK seq : seq = Append(load.catalog, item)
    OBVIOUS
  <2>2. load' = [load EXCEPT !.step = "next", !.current = None, !.taken = None,
                             !.catalog = seq, !.listed = listed]
    BY <1>4, <1>7, <2>1 DEF Admitted
  <2>3. /\ seq \in Seq(Entries) /\ Len(seq) = Len(load.catalog) + 1
        /\ \A i \in 1 .. Len(seq) :
             seq[i] = IF i <= Len(load.catalog) THEN load.catalog[i] ELSE item
        /\ Len(load.catalog) \in Nat
    BY <1>1, <1>4, <2>1 DEF Loads
  <2>4. load' \in Loads
    BY <1>1, <1>5, <2>2, <2>3 DEF Loads, Steps
  <2>5. /\ load'.step = "next" /\ load'.purpose = load.purpose /\ load'.todo = load.todo
        /\ load'.wanted = load.wanted /\ load'.catalog = seq
        /\ load'.instructions = load.instructions /\ load'.body = load.body
        /\ load'.omitted = load.omitted /\ load'.aggregate = load.aggregate
        /\ load'.listed = listed /\ load'.mandatory = load.mandatory
    BY <1>1, <2>2 DEF Loads
  <2>6. ReadsOK'
    BY <2>5 DEF LoadOK, ReadsOK, Reading, Old
  <2>7. BodyOK'
    BY <2>5 DEF BodyOK
  <2>8. \A i \in 1 .. Len(seq) : \/ /\ i \in 1 .. Len(load.catalog)
                                    /\ seq[i] = load.catalog[i]
                                 \/ i = Len(load.catalog) + 1 /\ seq[i] = item
    BY <2>3
  <2>9. \A i \in 1 .. Len(load.catalog) : load.catalog[i].key # item.key
    BY <1>4, <1>7 DEF CataloguedAs
  <2>10. \A i \in 1 .. Len(seq) : /\ Old(seq[i].sig)
                                  /\ Holds(seq[i].path, seq[i].sig, seq[i].content)
                                  /\ seq[i].held = seq[i].content
    BY <1>4, <2>8 DEF LoadOK, CatalogOK, AdmittedOK
  <2>11. \A i, j \in 1 .. Len(seq) : seq[i].key = seq[j].key => i = j
    BY <2>8, <2>9 DEF LoadOK, CatalogOK
  <2>12. CatalogOK'
    BY <2>5, <2>10, <2>11 DEF CatalogOK, Old, Holds
  <2>13. CataloguedAs(load.wanted) \subseteq CataloguedAs(load.wanted)'
    BY <2>3, <2>5 DEF CataloguedAs
  <2>14. \A i \in CataloguedAs(load.wanted) : seq[i] = load.catalog[i]
    BY <2>3 DEF CataloguedAs
  <2>15. AdmittedOK'
    BY <2>5, <2>10, <2>13, <2>14 DEF LoadOK, AdmittedOK
  <2>16. listed <= LoadLimits.catalog
    BY <1>5, <1>7, RepositoryLoaderAssumption DEF Limits
  <2>17. LimitsOK'
    BY <2>5, <2>16 DEF LoadOK, LimitsOK
  <2> QED
    BY <2>4, <2>6, <2>7, <2>12, <2>15, <2>17 DEF LoadOK
<1>8. \/ Fails
      \/ Omit("catalog_limit", "next") \/ Omit("skill_invalid", "next")
      \/ /\ CataloguedAs(Key[load.taken]) = {} /\ ~(listed > LoadLimits.catalog)
         /\ load' = [Admitted("next") EXCEPT !.catalog = Append(load.catalog, Item),
                                             !.listed = listed]
  BY <1>1, <1>3 DEF AdmitEntry, Admitted, Loads
<1> QED
  BY <1>6, <1>7, <1>8, FailKeeps

\* The body has the path and the signature of its entry, and that file has not
\* changed since: the entry and the body are one content.
LEMMA AdmitBodyKeeps ==
    ASSUME FilesOK, LoadOK, load.step = "recheck", Unmoved, clock' = clock, fs' = fs,
           load.purpose = "body", AdmitBody
    PROVE  LoadOK'
<1>1. CASE Fails
  BY <1>1, FailKeeps
<1>2. CASE ~Fails
  <2>1. /\ load \in Loads /\ load.taken \in Contents
        /\ fs[load.current.path].content = load.taken
        /\ fs[load.current.path].stamp = load.current.sig.target
    BY UnmovedHolds DEF LoadOK
  <2>2. PICK item \in Entries : /\ item = Item /\ item.held = item.content
                                /\ item.path = load.current.path
                                /\ item.content = load.taken
    BY UnmovedHolds
  <2>3. load' = [load EXCEPT !.step = "loaded", !.current = None, !.taken = None,
                             !.body = item]
    BY <1>2, <2>2 DEF AdmitBody, Admitted
  <2>4. load' \in Loads
    BY <2>1, <2>3 DEF Loads, Steps
  <2>5. /\ load'.step = "loaded" /\ load'.purpose = load.purpose /\ load'.todo = load.todo
        /\ load'.wanted = load.wanted /\ load'.catalog = load.catalog
        /\ load'.instructions = load.instructions /\ load'.body = item
        /\ load'.omitted = load.omitted /\ load'.aggregate = load.aggregate
        /\ load'.listed = load.listed /\ load'.mandatory = load.mandatory
    BY <2>1, <2>3 DEF Loads
  <2>6. ReadsOK'
    BY <2>5 DEF LoadOK, ReadsOK, Reading, Old
  <2>7. BodyOK'
    BY <2>5 DEF LoadOK, BodyOK, Reading, FromCatalog, CataloguedAs
  <2>8. CatalogOK'
    BY <2>5 DEF LoadOK, CatalogOK, Old, Holds
  <2>9. \E i \in CataloguedAs(load.wanted) :
          item.path = load.catalog[i].path /\ item.content = load.catalog[i].content
    <3>1. PICK i \in CataloguedAs(load.wanted) :
            load.current.path = load.catalog[i].path /\ load.current.sig = load.catalog[i].sig
      BY DEF LoadOK, BodyOK, Reading, FromCatalog
    <3>2. Holds(load.catalog[i].path, load.catalog[i].sig, load.catalog[i].content)
      BY DEF LoadOK, CatalogOK, CataloguedAs
    <3>3. load.taken = load.catalog[i].content
      BY <2>1, <3>1, <3>2 DEF Holds
    <3> QED
      BY <2>2, <3>1, <3>3
  <2>10. AdmittedOK'
    BY <2>2, <2>5, <2>9 DEF LoadOK, AdmittedOK, CataloguedAs
  <2>11. LimitsOK'
    BY <2>5 DEF LoadOK, LimitsOK
  <2> QED
    BY <2>4, <2>6, <2>7, <2>8, <2>10, <2>11 DEF LoadOK
<1> QED
  BY <1>1, <1>2

LEMMA AdmitKeeps ==
    ASSUME FilesOK, LoadOK, Admit
    PROVE  LoadOK'
<1>1. CASE Fails
  BY <1>1, FailKeeps
<1>2. /\ load.step = "recheck" /\ clock' = clock /\ fs' = fs
      /\ load.purpose \in {"instruction", "entry", "body"}
  BY DEF Admit, Unaltered, files, LoadOK, Loads, Purposes
<1>3. CASE Unmoved
  <2>1. CASE load.purpose = "instruction"
    BY <1>2, <1>3, <2>1, AdmitInstructionKeeps DEF Admit
  <2>2. CASE load.purpose = "entry"
    BY <1>2, <1>3, <2>2, AdmitEntryKeeps DEF Admit
  <2>3. CASE load.purpose = "body"
    BY <1>2, <1>3, <2>3, AdmitBodyKeeps DEF Admit
  <2> QED
    BY <1>2, <2>1, <2>2, <2>3
<1> QED
  BY <1>1, <1>3 DEF Admit

\* An edit gives what it touches a stamp that no signature has.
LEMMA EditKeepsLoad ==
    ASSUME FilesOK, LoadOK, load' = load, clock' = clock + 1,
           \A q \in Paths : fs'[q] = fs[q] \/ fs'[q].stamp = clock + 1
    PROVE  LoadOK'
<1>1. load \in Loads /\ clock \in Nat
  BY DEF LoadOK, FilesOK
<1>2. ASSUME NEW p \in Paths, NEW sig \in Signature, NEW c, Old(sig), Holds(p, sig, c)
      PROVE  Old(sig)' /\ Holds(p, sig, c)'
  <2>1. sig.target \in Nat /\ sig.target <= clock /\ ~sig.missing
    BY <1>2 DEF Old, Signature
  <2>2. CASE fs'[p] = fs[p]
    BY <1>1, <1>2, <2>1, <2>2 DEF Old, Holds
  <2>3. CASE fs'[p].stamp = clock + 1
    BY <1>1, <2>1, <2>3 DEF Old, Holds
  <2> QED
    BY <2>2, <2>3
<1>3. ASSUME NEW sig \in Signature, Old(sig)
      PROVE  Old(sig)'
  BY <1>1, <1>3 DEF Old, Signature
<1>4. ReadsOK'
  <2>1. \A c \in load.todo : Old(c.sig)'
    BY <1>1, <1>3 DEF LoadOK, ReadsOK, Loads, ToRead
  <2>2. Reading => load.current \in ToRead /\ Old(load.current.sig)'
    BY <1>3 DEF LoadOK, ReadsOK, ToRead
  <2>3. load.step = "recheck" =>
          /\ load.taken \in Contents
          /\ Holds(load.current.path, load.current.sig, load.taken)'
    BY <1>2 DEF LoadOK, ReadsOK, Reading, ToRead
  <2> QED
    BY <2>1, <2>2, <2>3 DEF ReadsOK, Reading
<1>5. CatalogOK'
  <2>1. \A i \in 1 .. Len(load.catalog) : load.catalog[i] \in Entries
    BY <1>1 DEF Loads
  <2>2. \A i \in 1 .. Len(load.catalog) :
          /\ Old(load.catalog[i].sig)'
          /\ Holds(load.catalog[i].path, load.catalog[i].sig, load.catalog[i].content)'
    BY <1>2, <2>1 DEF LoadOK, CatalogOK, Entries
  <2> QED
    BY <2>2 DEF LoadOK, CatalogOK
<1>6. BodyOK' /\ AdmittedOK' /\ LimitsOK'
  BY DEF LoadOK, BodyOK, Reading, FromCatalog, CataloguedAs, AdmittedOK, LimitsOK
<1> QED
  BY <1>1, <1>4, <1>5, <1>6 DEF LoadOK

-----------------------------------------------------------------------------
(* Numbers.                                                                *)

LEMMA LeastOf ==
    ASSUME NEW S \in SUBSET Nat, S # {}
    PROVE  \E n \in S : \A m \in S : n <= m
<1>1. PICK R : R = OpToRel(<, Nat)
  OBVIOUS
<1>2. IsWellFoundedOn(R, Nat)
  BY <1>1, NatLessThanWellFounded
<1>3. \E x \in S : \A y \in S : ~(<<y, x>> \in R)
  BY <1>2, WFMin
<1>4. \A x, y \in Nat : y < x => <<y, x>> \in R
  BY <1>1 DEF OpToRel
<1>5. PICK n \in S : \A y \in S : ~(<<y, n>> \in R)
  BY <1>3
<1>6. \A m \in S : n <= m
  <2> TAKE m \in S
  <2>1. m \in Nat /\ n \in Nat
    OBVIOUS
  <2>2. ~(m < n)
    BY <1>4, <1>5, <2>1
  <2> QED
    BY <2>1, <2>2
<1> QED
  BY <1>6

LEMMA GreatestOf ==
    ASSUME NEW top \in Nat, NEW S \in SUBSET (0 .. top), S # {}
    PROVE  \E n \in S : \A m \in S : m <= n
<1>1. PICK T : T = {top - n : n \in S}
  OBVIOUS
<1>2. T \in SUBSET Nat /\ T # {}
  <2>1. \A n \in S : n \in 0 .. top /\ top - n \in Nat
    OBVIOUS
  <2> QED
    BY <1>1, <2>1
<1>3. PICK t \in T : \A u \in T : t <= u
  BY <1>2, LeastOf
<1>4. PICK n \in S : t = top - n
  BY <1>1, <1>3
<1>5. \A m \in S : top - n <= top - m
  BY <1>1, <1>3, <1>4
<1>6. \A m \in S : m <= n
  BY <1>5
<1> QED
  BY <1>6

-----------------------------------------------------------------------------
(* What a loop keeps.                                                      *)

\* earlier orders S: it is transitive, and of two elements one is earlier.
Ordered(S, earlier) ==
    /\ IsFiniteSet(S)
    /\ \A x \in S : earlier[x] \subseteq S /\ x \notin earlier[x]
    /\ \A x \in S : \A y \in earlier[x] : earlier[y] \subseteq earlier[x]
    /\ \A x, y \in S : x = y \/ x \in earlier[y] \/ y \in earlier[x]

\* What is earlier has fewer before it.
LEMMA RankOf ==
    ASSUME NEW S, NEW earlier, Ordered(S, earlier)
    PROVE  /\ \A x \in S : Cardinality(earlier[x]) \in 0 .. Cardinality(S)
           /\ \A x \in S : \A y \in earlier[x] :
                Cardinality(earlier[y]) < Cardinality(earlier[x])
           /\ Cardinality(S) \in Nat
<1>1. Cardinality(S) \in Nat
  BY FS_CardinalityType DEF Ordered
<1>2. ASSUME NEW x \in S
      PROVE  /\ IsFiniteSet(earlier[x]) /\ Cardinality(earlier[x]) \in Nat
             /\ Cardinality(earlier[x]) <= Cardinality(S)
  <2>1. earlier[x] \in SUBSET S
    BY DEF Ordered
  <2>2. IsFiniteSet(earlier[x]) /\ Cardinality(earlier[x]) <= Cardinality(S)
    BY <2>1, FS_Subset DEF Ordered
  <2> QED
    BY <2>2, FS_CardinalityType
<1>3. ASSUME NEW x \in S, NEW y \in earlier[x]
      PROVE  Cardinality(earlier[y]) < Cardinality(earlier[x])
  <2>1. y \in S /\ earlier[y] \in SUBSET earlier[x] /\ earlier[y] # earlier[x]
    BY DEF Ordered
  <2>2. /\ Cardinality(earlier[y]) <= Cardinality(earlier[x])
        /\ Cardinality(earlier[x]) = Cardinality(earlier[y]) => earlier[x] = earlier[y]
    BY <1>2, <2>1, FS_Subset
  <2> QED
    BY <1>2, <2>1, <2>2
<1> QED
  BY <1>1, <1>2, <1>3

\* The loop has a result: what it keeps is decided element by element.
LEMMA KeptIs ==
    ASSUME NEW S, NEW earlier, NEW fits, Ordered(S, earlier)
    PROVE  /\ Kept(S, earlier, fits) \in SUBSET S
           /\ \A x \in S : x \in Kept(S, earlier, fits)
                             <=> Kept(S, earlier, fits) \cap earlier[x] \in fits[x]
<1> DEFINE rank(x) == Cardinality(earlier[x])
           Under(n) == {x \in S : rank(x) < n}
           Decided(n, K) == /\ K \in SUBSET Under(n)
                            /\ \A x \in Under(n) : x \in K <=> K \cap earlier[x] \in fits[x]
           Undecided == {n \in Nat : ~\E K : Decided(n, K)}
<1>1. /\ \A x \in S : rank(x) \in Nat /\ rank(x) <= Cardinality(S)
      /\ \A x \in S : \A y \in earlier[x] : rank(y) < rank(x)
      /\ Cardinality(S) \in Nat
  BY RankOf
<1>2. \A x \in S : earlier[x] \subseteq S
  BY DEF Ordered
<1> HIDE DEF rank
<1>3. Undecided = {}
  <2> SUFFICES ASSUME Undecided # {}
               PROVE  FALSE
    OBVIOUS
  <2>1. PICK n \in Undecided : \A m \in Undecided : n <= m
    BY LeastOf
  <2>2. n \in Nat /\ ~\E K : Decided(n, K)
    BY <2>1
  <2>3. CASE n = 0
    <3>1. Under(n) = {}
      BY <1>1, <2>3
    <3>2. Decided(n, {})
      BY <3>1
    <3> HIDE DEF Decided
    <3> QED
      BY <2>2, <3>2
  <2>4. CASE n # 0
    <3>1. n - 1 \in Nat /\ n - 1 \notin Undecided
      <4>1. PICK m \in Nat : m = n - 1
        BY <2>2, <2>4
      <4>2. ~(n <= m)
        BY <2>2, <4>1
      <4> QED
        BY <2>1, <4>1, <4>2
    <3>2. PICK K : Decided(n - 1, K)
      BY <3>1
    <3>3. PICK L : L = K \cup {x \in S : rank(x) = n - 1 /\ K \cap earlier[x] \in fits[x]}
      OBVIOUS
    <3>4. \A x \in Under(n) : x \in Under(n - 1) \/ rank(x) = n - 1
      BY <1>1, <2>2
    <3>5. \A x \in Under(n - 1) : x \in Under(n) /\ rank(x) # n - 1
      BY <1>1, <2>2
    <3>6. L \in SUBSET Under(n)
      BY <1>1, <2>2, <3>2, <3>3, <3>5
    <3>7. \A x \in Under(n) : L \cap earlier[x] = K \cap earlier[x]
      <4> TAKE x \in Under(n)
      <4>1. \A y \in earlier[x] : rank(y) # n - 1
        BY <1>1, <1>2, <2>2
      <4> QED
        BY <3>3, <4>1
    <3>8. \A x \in Under(n) : x \in L <=> L \cap earlier[x] \in fits[x]
      <4> TAKE x \in Under(n)
      <4>1. CASE x \in Under(n - 1)
        <5>1. x \in L <=> x \in K
          BY <3>3, <3>5, <4>1
        <5>2. x \in K <=> K \cap earlier[x] \in fits[x]
          BY <3>2, <4>1
        <5> QED
          BY <3>7, <5>1, <5>2
      <4>2. CASE x \notin Under(n - 1)
        <5>1. rank(x) = n - 1 /\ x \notin K
          BY <3>2, <3>4, <4>2
        <5>2. x \in L <=> K \cap earlier[x] \in fits[x]
          BY <3>3, <5>1
        <5> QED
          BY <3>7, <5>2
      <4> QED
        BY <4>1, <4>2
    <3>9. Decided(n, L)
      BY <3>6, <3>8
    <3> QED
      BY <2>2, <3>9
  <2> QED
    BY <2>3, <2>4
<1>4. PICK n \in Nat : n = Cardinality(S) + 1
  BY <1>1
<1>5. Under(n) = S
  BY <1>1, <1>4
<1>6. PICK K : Decided(n, K)
  BY <1>3, <1>4
<1>7. K \in SUBSET S /\ \A x \in S : x \in K <=> K \cap earlier[x] \in fits[x]
  BY <1>5, <1>6
<1> QED
  BY <1>7 DEF Kept

\* Ordered loops have one result: a set that treats every element as the loop
\* does, keeping it just if it fits beside the earlier ones kept, is what the
\* loop keeps (the for statements of _project_repository, _project_memory,
\* MemorySelector.select and _structural_compact, which Kept stands for).
LEMMA KeptIsTheOnly ==
    ASSUME NEW S, NEW earlier, NEW fits, Ordered(S, earlier),
           NEW K \in SUBSET S, \A x \in S : x \in K <=> K \cap earlier[x] \in fits[x]
    PROVE  K = Kept(S, earlier, fits)
<1>1. PICK L : L = Kept(S, earlier, fits)
  OBVIOUS
<1>2. L \in SUBSET S /\ \A x \in S : x \in L <=> L \cap earlier[x] \in fits[x]
  BY <1>1, KeptIs
<1> DEFINE rank(x) == Cardinality(earlier[x])
           Differ == {x \in S : (x \in K) # (x \in L)}
<1>3. /\ \A x \in S : rank(x) \in Nat
      /\ \A x \in S : \A y \in earlier[x] : rank(y) < rank(x)
  BY RankOf
<1>4. \A x \in S : earlier[x] \subseteq S
  BY DEF Ordered
<1> HIDE DEF rank
<1>5. Differ = {}
  <2> SUFFICES ASSUME Differ # {}
               PROVE  FALSE
    OBVIOUS
  <2>1. PICK R \in SUBSET Nat : R = {rank(x) : x \in Differ}
    BY <1>3
  <2>2. PICK n \in R : \A m \in R : n <= m
    <3>1. R # {}
      BY <2>1
    <3> QED
      BY <3>1, LeastOf
  <2>3. PICK x \in Differ : rank(x) = n
    BY <2>1, <2>2
  <2>4. \A y \in earlier[x] : y \notin Differ
    <3> SUFFICES ASSUME NEW y \in earlier[x], y \in Differ
                 PROVE  FALSE
      OBVIOUS
    <3>1. rank(y) \in R /\ rank(y) \in Nat /\ rank(x) \in Nat /\ rank(y) < rank(x)
      BY <1>3, <2>1
    <3>2. rank(x) <= rank(y)
      BY <2>2, <2>3, <3>1
    <3> QED
      BY <3>1, <3>2
  <2>5. K \cap earlier[x] = L \cap earlier[x]
    BY <1>4, <2>4
  <2>6. x \in K <=> x \in L
    BY <1>2, <2>5
  <2> QED
    BY <2>6
<1> QED
  BY <1>1, <1>2, <1>5

\* Of some elements of an order, one comes after the others.
LEMMA LastOf ==
    ASSUME NEW S, NEW earlier, Ordered(S, earlier), NEW K \in SUBSET S, K # {}
    PROVE  \E x \in K : (K \cap earlier[x]) = K \ {x}
<1> DEFINE rank(x) == Cardinality(earlier[x])
<1>1. /\ \A x \in S : rank(x) \in 0 .. Cardinality(S)
      /\ \A x \in S : \A y \in earlier[x] : rank(y) < rank(x)
      /\ Cardinality(S) \in Nat
  BY RankOf
<1> HIDE DEF rank
<1>2. PICK R : R = {rank(x) : x \in K}
  OBVIOUS
<1>3. R \in SUBSET (0 .. Cardinality(S)) /\ R # {}
  BY <1>1, <1>2
<1>4. PICK n \in R : \A m \in R : m <= n
  BY <1>1, <1>3, GreatestOf
<1>5. PICK x \in K : n = rank(x)
  BY <1>2, <1>4
<1>6. \A y \in K : rank(y) <= rank(x)
  BY <1>2, <1>4, <1>5
<1>7. x \notin earlier[x]
  BY DEF Ordered
<1>8. \A y \in K : y # x => y \in earlier[x]
  <2> TAKE y \in K
  <2> HAVE y # x
  <2>1. CASE x \in earlier[y]
    BY <1>1, <1>6, <2>1
  <2>2. y \in earlier[x] \/ x \in earlier[y]
    BY DEF Ordered
  <2> QED
    BY <2>1, <2>2
<1> QED
  BY <1>7, <1>8

-----------------------------------------------------------------------------
(* Counting characters.                                                    *)

Lengths(S, f) == IsFiniteSet(S) /\ \A x \in S : f[x] \in Nat

LEMMA TotalType ==
    ASSUME NEW S, NEW f, Lengths(S, f)
    PROVE  IsFiniteSet(Characters(S, f)) /\ Total(S, f) \in Nat
<1>1. PICK R : R = {{x} \X (1 .. f[x]) : x \in S}
  OBVIOUS
<1>2. PICK g : g = [x \in S |-> {x} \X (1 .. f[x])]
  OBVIOUS
<1>3. g \in Surjection(S, R)
  BY <1>1, <1>2 DEF Surjection
<1>4. IsFiniteSet(R)
  BY <1>3, FS_Surjection DEF Lengths
<1>5. \A x \in S : IsFiniteSet({x} \X (1 .. f[x]))
  <2> TAKE x \in S
  <2>1. IsFiniteSet({x})
    BY FS_Singleton
  <2>2. IsFiniteSet(1 .. f[x])
    BY FS_Interval DEF Lengths
  <2> QED
    BY <2>1, <2>2, FS_Product
<1>6. \A T \in R : IsFiniteSet(T)
  BY <1>1, <1>5
<1>7. IsFiniteSet(UNION R)
  BY <1>4, <1>6, FS_UNION
<1>8. IsFiniteSet(Characters(S, f))
  BY <1>1, <1>7 DEF Characters
<1> QED
  BY <1>8, FS_CardinalityType DEF Total

LEMMA TotalEmpty ==
    ASSUME NEW f
    PROVE  Total({}, f) = 0
<1>1. Characters({}, f) = {}
  BY DEF Characters
<1> QED
  BY <1>1, FS_EmptySet DEF Total

LEMMA TotalOne ==
    ASSUME NEW x, NEW f, f[x] \in Nat
    PROVE  Total({x}, f) = f[x]
<1>1. PICK n \in Nat : n = f[x]
  OBVIOUS
<1>2. PICK A : A = {x}
  OBVIOUS
<1>3. PICK B : B = 1 .. n
  OBVIOUS
<1>4. IsFiniteSet(A) /\ Cardinality(A) = 1
  BY <1>2, FS_Singleton
<1>5. IsFiniteSet(B) /\ Cardinality(B) = n
  BY <1>3, FS_Interval
<1>6. Cardinality(A \X B) = Cardinality(A) * Cardinality(B)
  BY ONLY <1>4, <1>5, FS_Product
<1>7. Characters({x}, f) = A \X B
  BY <1>1, <1>2, <1>3 DEF Characters
<1>8. Total({x}, f) = 1 * n
  BY <1>4, <1>5, <1>6, <1>7 DEF Total
<1> QED
  BY <1>1, <1>8

LEMMA TotalSame ==
    ASSUME NEW S, NEW f, NEW g, \A x \in S : f[x] = g[x]
    PROVE  Total(S, f) = Total(S, g)
BY DEF Total, Characters

LEMMA TotalAtMost ==
    ASSUME NEW T, NEW f, Lengths(T, f), NEW S \in SUBSET T
    PROVE  Total(S, f) <= Total(T, f) /\ Lengths(S, f)
<1>1. IsFiniteSet(Characters(T, f))
  BY TotalType
<1>2. Characters(S, f) \in SUBSET Characters(T, f)
  BY DEF Characters
<1>3. IsFiniteSet(S)
  BY FS_Subset DEF Lengths
<1> QED
  BY <1>1, <1>2, <1>3, FS_Subset DEF Total, Lengths

\* Another text adds its length.
LEMMA TotalAdd ==
    ASSUME NEW S, NEW x, NEW f, Lengths(S \cup {x}, f), x \notin S
    PROVE  Total(S \cup {x}, f) = Total(S, f) + f[x]
<1>1. Characters(S \cup {x}, f) = Characters(S, f) \cup Characters({x}, f)
  BY DEF Characters
<1>2. Characters(S, f) \cap Characters({x}, f) = {}
  BY DEF Characters
<1>3. Lengths(S, f) /\ Lengths({x}, f)
  BY TotalAtMost
<1>4. IsFiniteSet(Characters(S, f)) /\ Total(S, f) \in Nat
  BY <1>3, TotalType
<1>5. IsFiniteSet(Characters({x}, f)) /\ Total({x}, f) \in Nat
  BY <1>3, TotalType
<1>6. Cardinality(Characters(S \cup {x}, f))
        = Cardinality(Characters(S, f)) + Cardinality(Characters({x}, f)) - Cardinality({})
  BY <1>1, <1>2, <1>4, <1>5, FS_Union
<1>7. Total(S \cup {x}, f) = Total(S, f) + Total({x}, f)
  BY <1>4, <1>5, <1>6, FS_EmptySet DEF Total
<1>8. Total({x}, f) = f[x]
  BY <1>3, TotalOne DEF Lengths
<1> QED
  BY <1>7, <1>8

-----------------------------------------------------------------------------
(* The orders of the loops.                                                *)

LEMMA ForwardOrder ==
    ASSUME NEW n \in Nat
    PROVE  Ordered(1 .. n, [i \in 1 .. n |-> 1 .. (i - 1)])
<1>1. IsFiniteSet(1 .. n)
  BY FS_Interval
<1> QED
  BY <1>1 DEF Ordered

LEMMA BackwardOrder ==
    ASSUME NEW n \in Nat
    PROVE  Ordered(1 .. n, [i \in 1 .. n |-> i + 1 .. n])
<1>1. IsFiniteSet(1 .. n)
  BY FS_Interval
<1> QED
  BY <1>1 DEF Ordered

\* Records of a memory: numbers, and an id of their own.
Recallable(m) ==
    /\ IsFiniteSet(m)
    /\ \A r \in m : r.id \in Nat /\ r.score \in Int /\ r.size \in Nat /\ r.rendered \in Nat
    /\ \A q, r \in m : q.id = r.id => q = r

LEMMA RankedOrder ==
    ASSUME NEW m, Recallable(m)
    PROVE  Ordered(m, Ranked(m))
<1>1. \A x \in m : Ranked(m)[x] = {q \in m : Before(q, x)}
  BY DEF Ranked
<1>2. \A x, y, z \in m : Before(x, y) /\ Before(y, z) => Before(x, z)
  BY DEF Before, Recallable
<1>3. \A x \in m : ~Before(x, x)
  BY DEF Before, Recallable
<1>4. \A x, y \in m : x = y \/ Before(x, y) \/ Before(y, x)
  BY DEF Before, Recallable
<1> QED
  BY <1>1, <1>2, <1>3, <1>4 DEF Ordered, Recallable

LEMMA LaterOrder ==
    ASSUME NEW L, IsFiniteSet(L), NEW J, J \subseteq Nat, NEW K, K \subseteq Nat,
           L \subseteq J \X K
    PROVE  Ordered(L, Later(L))
<1> DEFINE After(y, x) == y[1] > x[1] \/ (y[1] = x[1] /\ y[2] > x[2])
<1>1. \A x \in L : x[1] \in Nat /\ x[2] \in Nat /\ x = <<x[1], x[2]>>
  <2> TAKE x \in L
  <2>1. x \in J \X K
    OBVIOUS
  <2>2. x = <<x[1], x[2]>> /\ x[1] \in J /\ x[2] \in K
    BY <2>1
  <2> QED
    BY <2>2
<1>2. \A x \in L : Later(L)[x] = {y \in L : After(y, x)}
  BY DEF Later
<1>3. \A x, y, z \in L : After(x, y) /\ After(y, z) => After(x, z)
  BY <1>1
<1>4. \A x \in L : ~After(x, x)
  BY <1>1
<1>5. \A x, y \in L : x = y \/ After(x, y) \/ After(y, x)
  <2> SUFFICES ASSUME NEW x \in L, NEW y \in L, ~After(x, y), ~After(y, x)
               PROVE  x = y
    OBVIOUS
  <2>1. x[1] = y[1] /\ x[2] = y[2]
    BY <1>1
  <2> QED
    BY <1>1, <2>1
<1> HIDE DEF After
<1> QED
  BY <1>2, <1>3, <1>4, <1>5 DEF Ordered

-----------------------------------------------------------------------------
(* The repository and the memory.                                          *)

Projectable(resources) ==
    /\ Len(resources) \in Nat
    /\ \A i \in 1 .. Len(resources) : resources[i].bucket \in Buckets /\ resources[i].size \in Nat

LEMMA RepositoryCostAtMost ==
    ASSUME NEW resources, Projectable(resources), NEW T \in SUBSET (1 .. Len(resources)),
           NEW S \in SUBSET T
    PROVE  /\ RepositoryCost(resources, S) \in Nat /\ RepositoryCost(resources, T) \in Nat
           /\ RepositoryCost(resources, S) <= RepositoryCost(resources, T)
<1>1. PICK f : f = [i \in 1 .. Len(resources) |-> resources[i].size + Framing]
  OBVIOUS
<1>2. \A i \in 1 .. Len(resources) : f[i] \in Nat
  BY <1>1, ContextBuilderAssumption DEF Projectable
<1>3. IsFiniteSet(1 .. Len(resources))
  BY FS_Interval DEF Projectable
<1>4. Lengths(T, f)
  BY <1>2, <1>3, FS_Subset DEF Lengths
<1>5. Total(S, f) <= Total(T, f) /\ Lengths(S, f)
  BY <1>4, TotalAtMost
<1>6. Total(S, f) \in Nat /\ Total(T, f) \in Nat
  BY <1>4, <1>5, TotalType
<1> QED
  BY <1>1, <1>5, <1>6 DEF RepositoryCost

\* What does not fit beside some resources does not fit beside more of them.
LEMMA FitsBesideFewer ==
    ASSUME NEW resources, Projectable(resources), NEW T \in SUBSET (1 .. Len(resources)),
           NEW S \in SUBSET T, NEW i \in 1 .. Len(resources), NEW budget \in Budget,
           NEW capacity \in Int, FitsRepository(resources, T, i, budget, capacity)
    PROVE  FitsRepository(resources, S, i, budget, capacity)
<1>1. PICK bucket : bucket = resources[i].bucket
  OBVIOUS
<1>2. bucket \in Buckets /\ budget.repository[bucket] \in Nat
  BY <1>1 DEF Projectable, Budget
<1>3. T \cup {i} \in SUBSET (1 .. Len(resources)) /\ S \cup {i} \in SUBSET (T \cup {i})
  OBVIOUS
<1>4. /\ RepositoryCost(resources, S \cup {i}) \in Nat /\ RepositoryCost(resources, T \cup {i}) \in Nat
      /\ RepositoryCost(resources, S \cup {i}) <= RepositoryCost(resources, T \cup {i})
  BY <1>3, RepositoryCostAtMost
<1>5. PICK A : A = InBucket(resources, S \cup {i}, bucket)
  OBVIOUS
<1>6. PICK B : B = InBucket(resources, T \cup {i}, bucket)
  OBVIOUS
<1>7. B \in SUBSET (1 .. Len(resources)) /\ A \in SUBSET B
  BY <1>3, <1>5, <1>6 DEF InBucket
<1>8. /\ RepositoryCost(resources, A) \in Nat /\ RepositoryCost(resources, B) \in Nat
      /\ RepositoryCost(resources, A) <= RepositoryCost(resources, B)
  BY <1>7, RepositoryCostAtMost
<1>9. RepositoryCost(resources, B) <= budget.repository[bucket]
        /\ RepositoryCost(resources, T \cup {i}) <= capacity
  BY <1>1, <1>6 DEF FitsRepository
<1>10. RepositoryCost(resources, A) <= budget.repository[bucket]
  BY <1>2, <1>8, <1>9
<1>11. RepositoryCost(resources, S \cup {i}) <= capacity
  BY <1>4, <1>9
<1> QED
  BY <1>1, <1>5, <1>10, <1>11 DEF FitsRepository

\* The resources that get a message fit, and those that get none would not fit
\* beside them.
LEMMA ProjectRepositoryFits ==
    ASSUME NEW resources, Projectable(resources), NEW budget \in Budget, NEW capacity \in Nat,
           NEW K, K = ProjectRepository(resources, budget, capacity)
    PROVE  /\ K \in SUBSET (1 .. Len(resources))
           /\ RepositoryCost(resources, K) \in 0 .. capacity
           /\ \A b \in Buckets : RepositoryCost(resources, InBucket(resources, K, b))
                                   <= budget.repository[b]
           /\ \A i \in 1 .. Len(resources) :
                i \in K \/ ~FitsRepository(resources, K, i, budget, capacity)
<1>1. PICK all : all = 1 .. Len(resources)
  OBVIOUS
<1>2. PICK earlier : earlier = [i \in all |-> 1 .. (i - 1)]
  OBVIOUS
<1>3. PICK fits : fits = [i \in all |-> {S \in SUBSET (1 .. (i - 1)) :
                                           FitsRepository(resources, S, i, budget, capacity)}]
  OBVIOUS
<1>4. K = Kept(all, earlier, fits)
  BY <1>1, <1>2, <1>3 DEF ProjectRepository
<1>5. Ordered(all, earlier)
  BY <1>1, <1>2, ForwardOrder DEF Projectable
<1>6. K \in SUBSET all /\ \A i \in all : i \in K <=> K \cap earlier[i] \in fits[i]
  BY <1>4, <1>5, KeptIs
<1>7. \A i \in all : i \in K <=> FitsRepository(resources, K \cap earlier[i], i, budget, capacity)
  BY <1>2, <1>3, <1>6
<1>8. RepositoryCost(resources, K) \in Nat
  BY <1>1, <1>6, RepositoryCostAtMost
<1>9. RepositoryCost(resources, {}) = 0
  BY TotalEmpty DEF RepositoryCost
<1>10. RepositoryCost(resources, K) <= capacity
  <2>1. CASE K = {}
    BY <1>9, <2>1
  <2>2. CASE K # {}
    <3>1. PICK i \in K : K \cap earlier[i] = K \ {i}
      BY <1>5, <1>6, <2>2, LastOf
    <3>2. (K \cap earlier[i]) \cup {i} = K
      BY <3>1
    <3>3. FitsRepository(resources, K \cap earlier[i], i, budget, capacity)
      BY <1>6, <1>7
    <3> QED
      BY <3>2, <3>3 DEF FitsRepository
  <2> QED
    BY <2>1, <2>2
<1>11. ASSUME NEW b \in Buckets
       PROVE  RepositoryCost(resources, InBucket(resources, K, b)) <= budget.repository[b]
  <2>1. PICK B : B = InBucket(resources, K, b)
    OBVIOUS
  <2>2. budget.repository[b] \in Nat
    BY DEF Budget
  <2>3. CASE B = {}
    BY <1>9, <2>1, <2>2, <2>3
  <2>4. CASE B # {}
    <3>1. B \in SUBSET all
      BY <1>6, <2>1 DEF InBucket
    <3>2. PICK i \in B : B \cap earlier[i] = B \ {i}
      BY <1>5, <2>4, <3>1, LastOf
    <3>3. i \in K /\ i \in all /\ resources[i].bucket = b
      BY <1>6, <2>1, <3>2 DEF InBucket
    <3>4. InBucket(resources, (K \cap earlier[i]) \cup {i}, b) = (B \cap earlier[i]) \cup {i}
      BY <2>1, <3>3 DEF InBucket
    <3>5. (B \cap earlier[i]) \cup {i} = B
      BY <3>2
    <3>6. FitsRepository(resources, K \cap earlier[i], i, budget, capacity)
      BY <1>7, <3>3
    <3> QED
      BY <2>1, <3>3, <3>4, <3>5, <3>6 DEF FitsRepository
  <2> QED
    BY <2>3, <2>4
<1>12. ASSUME NEW i \in 1 .. Len(resources), i \notin K
       PROVE  ~FitsRepository(resources, K, i, budget, capacity)
  <2>1. ~FitsRepository(resources, K \cap earlier[i], i, budget, capacity)
    BY <1>1, <1>7, <1>12
  <2> QED
    BY <1>1, <1>6, <2>1, FitsBesideFewer
<1> QED
  BY <1>1, <1>6, <1>8, <1>10, <1>11, <1>12

LEMMA FieldAtMost ==
    ASSUME NEW T, IsFiniteSet(T), NEW f, \A r \in T : f[r] \in Nat,
           NEW S \in SUBSET T, NEW g, \A r \in S : g[r] = f[r]
    PROVE  Total(S, g) \in Nat /\ Total(T, f) \in Nat /\ Total(S, g) <= Total(T, f)
<1>1. Lengths(T, f)
  BY DEF Lengths
<1>2. Total(S, f) <= Total(T, f) /\ Lengths(S, f)
  BY <1>1, TotalAtMost
<1>3. Total(S, f) \in Nat /\ Total(T, f) \in Nat
  BY <1>1, <1>2, TotalType
<1>4. \A r \in S : f[r] = g[r]
  OBVIOUS
<1>5. Total(S, f) = Total(S, g)
  BY ONLY <1>4, TotalSame
<1> QED
  BY <1>2, <1>3, <1>5

LEMMA SizesAtMost ==
    ASSUME NEW T, Recallable(T), NEW S \in SUBSET T
    PROVE  /\ Sizes(S) \in Nat /\ Sizes(T) \in Nat /\ Sizes(S) <= Sizes(T)
           /\ MemoryCost(S) \in Nat /\ MemoryCost(T) \in Nat /\ MemoryCost(S) <= MemoryCost(T)
<1>1. IsFiniteSet(T) /\ \A r \in T : r.size \in Nat /\ r.rendered \in Nat
  BY DEF Recallable
<1>2. Sizes(S) \in Nat /\ Sizes(T) \in Nat /\ Sizes(S) <= Sizes(T)
  <2>1. PICK f : f = [r \in T |-> r.size]
    OBVIOUS
  <2>2. PICK g : g = [r \in S |-> r.size]
    OBVIOUS
  <2>3. (\A r \in T : f[r] \in Nat) /\ \A r \in S : g[r] = f[r]
    BY <1>1, <2>1, <2>2
  <2>4. Total(S, g) \in Nat /\ Total(T, f) \in Nat /\ Total(S, g) <= Total(T, f)
    BY <1>1, <2>3, FieldAtMost
  <2> QED
    BY <2>1, <2>2, <2>4 DEF Sizes
<1>3. PICK f : f = [r \in T |-> r.rendered]
  OBVIOUS
<1>4. PICK g : g = [r \in S |-> r.rendered]
  OBVIOUS
<1>5. (\A r \in T : f[r] \in Nat) /\ \A r \in S : g[r] = f[r]
  BY <1>1, <1>3, <1>4
<1>6. Total(S, g) \in Nat /\ Total(T, f) \in Nat /\ Total(S, g) <= Total(T, f)
  BY <1>1, <1>5, FieldAtMost
<1>7. MemoryCost(S) = (IF S = {} THEN 0 ELSE Framing + Total(S, g))
        /\ MemoryCost(T) = (IF T = {} THEN 0 ELSE Framing + Total(T, f))
  BY <1>3, <1>4 DEF MemoryCost
<1> QED
  BY <1>2, <1>6, <1>7, ContextBuilderAssumption

LEMMA RecallableSubset ==
    ASSUME NEW T, Recallable(T), NEW S \in SUBSET T
    PROVE  Recallable(S)
BY FS_Subset DEF Recallable

Askable(request) ==
    request.score \in Int /\ request.records \in Nat /\ request.characters \in Nat

\* What holds of a record that is not selected, after all records.
Warranted(recall, r, reason) ==
    \/ reason = "below_min_score" /\ r.score < recall.request.score
    \/ reason = "kind_not_allowed" /\ r.kind \notin recall.request.kinds
    \/ reason = "max_records" /\ Cardinality(recall.matches) = recall.request.records
    \/ reason = "character_budget"
         /\ Sizes(recall.matches \cup {r}) > recall.request.characters

RecallOK(recall) ==
    /\ Recallable(recall.records) /\ Askable(recall.request)
    /\ recall.matches \in SUBSET recall.records
    /\ Cardinality(recall.matches) <= recall.request.records
    /\ \A r \in recall.records : r \in recall.matches <=> ~\E s \in recall.omitted : s.id = r.id
    /\ \A s \in recall.omitted :
         \E r \in recall.records : s.id = r.id /\ Warranted(recall, r, s.reason)
    /\ \A s, u \in recall.omitted : s.id = u.id => s = u

\* A record is left out for a reason that still holds when all are selected.
LEMMA SelectIsRight ==
    ASSUME NEW m, Recallable(m), NEW request, Askable(request),
           NEW recall, recall = Select(m, request)
    PROVE  RecallOK(recall)
<1>1. PICK earlier : earlier = Ranked(m)
  OBVIOUS
<1>2. PICK fits : fits = [r \in m |-> {S \in SUBSET earlier[r] :
                                         Reason(r, S, request) = "selected"}]
  OBVIOUS
<1>3. PICK K : K = Kept(m, earlier, fits)
  OBVIOUS
<1>4. Ordered(m, earlier)
  BY <1>1, RankedOrder
<1>5. K \in SUBSET m /\ \A r \in m : r \in K <=> K \cap earlier[r] \in fits[r]
  BY <1>3, <1>4, KeptIs
<1>6. \A r \in m : r \in K <=> Reason(r, K \cap earlier[r], request) = "selected"
  BY <1>2, <1>5
<1>7. recall = [records |-> m, request |-> request, matches |-> K,
                omitted |-> {[id |-> r.id, reason |-> Reason(r, K \cap earlier[r], request)]
                               : r \in m \ K}]
  BY <1>1, <1>2, <1>3 DEF Select
<1>8. /\ recall.records = m /\ recall.request = request /\ recall.matches = K
      /\ recall.omitted = {[id |-> r.id, reason |-> Reason(r, K \cap earlier[r], request)]
                             : r \in m \ K}
  BY <1>7
<1>9. IsFiniteSet(K) /\ Cardinality(K) \in Nat
  BY <1>5, FS_Subset, FS_CardinalityType DEF Recallable
<1>10. Cardinality(K) <= request.records
  <2>1. CASE K = {}
    BY <2>1, FS_EmptySet DEF Askable
  <2>2. CASE K # {}
    <3>1. PICK r \in K : K \cap earlier[r] = K \ {r}
      BY <1>4, <1>5, <2>2, LastOf
    <3>2. ~(Cardinality(K \ {r}) >= request.records)
      BY <1>5, <1>6, <3>1 DEF Reason
    <3>3. Cardinality(K \ {r}) = Cardinality(K) - 1
      BY <1>9, FS_RemoveElement
    <3> QED
      BY <1>9, <3>2, <3>3 DEF Askable
  <2> QED
    BY <2>1, <2>2
<1>11. ASSUME NEW r \in m \ K
       PROVE  Warranted(recall, r, Reason(r, K \cap earlier[r], request))
  <2>1. PICK S : S = K \cap earlier[r]
    OBVIOUS
  <2>2. Reason(r, S, request) # "selected"
    BY <1>6, <2>1
  <2>3. IsFiniteSet(S) /\ Cardinality(S) <= Cardinality(K) /\ Cardinality(S) \in Nat
    BY <1>9, <2>1, FS_Subset, FS_CardinalityType
  <2>4. Cardinality(S) >= request.records => Cardinality(K) = request.records
    BY <1>9, <1>10, <2>3 DEF Askable
  <2>5. Sizes(S \cup {r}) \in Nat /\ Sizes(K \cup {r}) \in Nat
          /\ Sizes(S \cup {r}) <= Sizes(K \cup {r})
    <3>1. Recallable(K \cup {r})
      BY <1>5, RecallableSubset
    <3>2. S \cup {r} \in SUBSET (K \cup {r})
      BY <2>1
    <3> QED
      BY <3>1, <3>2, SizesAtMost
  <2>6. Sizes(S \cup {r}) > request.characters => Sizes(K \cup {r}) > request.characters
    BY <2>5 DEF Askable
  <2>7. Reason(r, S, request) = IF r.score < request.score THEN "below_min_score"
          ELSE IF r.kind \notin request.kinds THEN "kind_not_allowed"
          ELSE IF Cardinality(S) >= request.records THEN "max_records"
          ELSE IF Sizes(S \cup {r}) > request.characters THEN "character_budget"
          ELSE "selected"
    BY DEF Reason
  <2>8. Warranted(recall, r, Reason(r, S, request))
    BY <1>8, <2>2, <2>4, <2>6, <2>7 DEF Warranted
  <2> QED
    BY <2>1, <2>8
<1> DEFINE left(r) == [id |-> r.id, reason |-> Reason(r, K \cap earlier[r], request)]
<1>12. /\ \A s \in recall.omitted : \E r \in m \ K : s = left(r)
       /\ \A r \in m \ K : left(r) \in recall.omitted
  BY <1>8
<1>13. \A r \in m : left(r).id = r.id /\ left(r).reason = Reason(r, K \cap earlier[r], request)
  OBVIOUS
<1>14. \A q, r \in m : q.id = r.id => q = r
  BY DEF Recallable
<1> HIDE DEF left
<1>15. \A r \in m : r \in K <=> ~\E s \in recall.omitted : s.id = r.id
  <2> TAKE r \in m
  <2>1. ASSUME r \in K, NEW s \in recall.omitted, s.id = r.id
        PROVE  FALSE
    <3>1. PICK q \in m \ K : s = left(q)
      BY <1>12
    <3> QED
      BY <1>13, <1>14, <2>1, <3>1
  <2>2. ASSUME r \notin K
        PROVE  \E s \in recall.omitted : s.id = r.id
    <3>1. left(r) \in recall.omitted /\ left(r).id = r.id
      BY <1>12, <1>13, <2>2
    <3> QED
      BY <3>1
  <2> QED
    BY <2>1, <2>2
<1>16. \A s \in recall.omitted : \E r \in m : s.id = r.id /\ Warranted(recall, r, s.reason)
  BY <1>11, <1>12, <1>13
<1>17. ASSUME NEW s \in recall.omitted, NEW u \in recall.omitted, s.id = u.id
       PROVE  s = u
  <2>1. PICK q \in m \ K : s = left(q)
    BY <1>12
  <2>2. PICK r \in m \ K : u = left(r)
    BY <1>12
  <2>3. q = r
    BY <1>13, <1>14, <1>17, <2>1, <2>2
  <2> QED
    BY <2>1, <2>2, <2>3
<1> QED
  BY <1>5, <1>8, <1>10, <1>15, <1>16, <1>17 DEF RecallOK

\* Of the records that match, K fits, and no other would fit beside it.
Packed(recall, capacity, K) ==
    /\ K \in SUBSET recall.matches
    /\ MemoryCost(K) \in 0 .. capacity
    /\ \A r \in recall.matches \ K : MemoryCost(K \cup {r}) > capacity

LEMMA ProjectMemoryFits ==
    ASSUME NEW recall, RecallOK(recall), NEW budget \in Budget, NEW available \in Nat,
           NEW capacity,
           capacity = Least(Least(budget.memory, recall.request.characters), available)
    PROVE  capacity \in Nat /\ Packed(recall, capacity, ProjectMemory(recall, budget, available))
<1>0. PICK K : K = ProjectMemory(recall, budget, available)
  OBVIOUS
<1>1. PICK m : m = recall.matches
  OBVIOUS
<1>2. Recallable(m)
  BY <1>1, RecallableSubset DEF RecallOK
<1>3. PICK earlier : earlier = Ranked(m)
  OBVIOUS
<1>4. PICK fits : fits = [r \in m |-> {S \in SUBSET earlier[r] : MemoryCost(S \cup {r}) <= capacity}]
  OBVIOUS
<1>5. K = Kept(m, earlier, fits)
  BY <1>0, <1>1, <1>3, <1>4 DEF ProjectMemory
<1>6. Ordered(m, earlier)
  BY <1>2, <1>3, RankedOrder
<1>7. K \in SUBSET m /\ \A r \in m : r \in K <=> K \cap earlier[r] \in fits[r]
  BY <1>5, <1>6, KeptIs
<1>8. \A r \in m : r \in K <=> MemoryCost((K \cap earlier[r]) \cup {r}) <= capacity
  BY <1>4, <1>7
<1>9. capacity \in Nat
  BY DEF Least, Budget, RecallOK, Askable
<1>10. MemoryCost(K) \in Nat
  BY <1>2, <1>7, SizesAtMost
<1>11. MemoryCost(K) <= capacity
  <2>1. CASE K = {}
    BY <1>9, <2>1 DEF MemoryCost
  <2>2. CASE K # {}
    <3>1. PICK r \in K : K \cap earlier[r] = K \ {r}
      BY <1>6, <1>7, <2>2, LastOf
    <3>2. (K \cap earlier[r]) \cup {r} = K
      BY <3>1
    <3> QED
      BY <1>7, <1>8, <3>2
  <2> QED
    BY <2>1, <2>2
<1>12. ASSUME NEW r \in m \ K
       PROVE  MemoryCost(K \cup {r}) > capacity
  <2>1. ~(MemoryCost((K \cap earlier[r]) \cup {r}) <= capacity)
    BY <1>8
  <2>2. Recallable(K \cup {r})
    BY <1>2, <1>7, RecallableSubset
  <2>3. (K \cap earlier[r]) \cup {r} \in SUBSET (K \cup {r})
    OBVIOUS
  <2>4. /\ MemoryCost((K \cap earlier[r]) \cup {r}) \in Nat /\ MemoryCost(K \cup {r}) \in Nat
        /\ MemoryCost((K \cap earlier[r]) \cup {r}) <= MemoryCost(K \cup {r})
    BY <2>2, <2>3, SizesAtMost
  <2> QED
    BY <1>9, <2>1, <2>4
<1> QED
  BY <1>0, <1>1, <1>7, <1>9, <1>10, <1>11, <1>12 DEF Packed

-----------------------------------------------------------------------------
(* The turns.                                                              *)

\* A turn more costs what the turn costs.
LEMMA TurnCostStep ==
    ASSUME NEW turns, Conversation(turns), NEW n \in 0 .. Len(turns)
    PROVE  /\ TurnCost(turns, n) \in Nat
           /\ n < Len(turns) =>
                TurnCost(turns, n + 1) = TurnCost(turns, n) + turns[Len(turns) - n].cost
<1>1. PICK f : f = [i \in 1 .. Len(turns) |-> turns[i].cost]
  OBVIOUS
<1>2. \A i \in 1 .. Len(turns) : f[i] \in Nat /\ f[i] = turns[i].cost
  BY <1>1 DEF Conversation
<1>3. IsFiniteSet(1 .. Len(turns)) /\ Len(turns) \in Nat
  BY FS_Interval DEF Conversation
<1>4. Lasts(turns, n) \in SUBSET (1 .. Len(turns))
  BY <1>3 DEF Lasts
<1>5. Lengths(1 .. Len(turns), f)
  BY <1>2, <1>3 DEF Lengths
<1>6. TurnCost(turns, n) \in Nat
  <2>1. Lengths(Lasts(turns, n), f)
    BY <1>4, <1>5, TotalAtMost
  <2> QED
    BY <1>1, <2>1, TotalType DEF TurnCost
<1>7. ASSUME n < Len(turns)
      PROVE  TurnCost(turns, n + 1) = TurnCost(turns, n) + turns[Len(turns) - n].cost
  <2>1. PICK i : i = Len(turns) - n
    OBVIOUS
  <2>2. i \in 1 .. Len(turns) /\ i \notin Lasts(turns, n)
    BY <1>3, <1>7, <2>1 DEF Lasts
  <2>3. Lasts(turns, n + 1) = Lasts(turns, n) \cup {i}
    BY <1>3, <1>7, <2>1 DEF Lasts
  <2>4. Lengths(Lasts(turns, n) \cup {i}, f)
    <3>1. Lasts(turns, n) \cup {i} \in SUBSET (1 .. Len(turns))
      BY <1>4, <2>2
    <3> QED
      BY <1>5, <3>1, TotalAtMost
  <2>5. Total(Lasts(turns, n) \cup {i}, f) = Total(Lasts(turns, n), f) + f[i]
    BY <2>2, <2>4, TotalAdd
  <2> QED
    BY <1>1, <1>2, <2>1, <2>2, <2>3, <2>5 DEF TurnCost
<1> QED
  BY <1>6, <1>7

\* The most turns that fit: at least the least, and one more would not fit.
LEMMA MostTurnsFit ==
    ASSUME NEW turns, Len(turns) \in Nat, NEW least \in 0 .. Len(turns), NEW room \in Nat,
           NEW n, n = MostTurns(turns, least, room)
    PROVE  /\ n \in least .. Len(turns)
           /\ TurnCost(turns, least) <= room => TurnCost(turns, n) <= room
           /\ n < Len(turns) => ~(TurnCost(turns, n + 1) <= room)
<1>1. PICK fitting : fitting = {k \in least .. Len(turns) : TurnCost(turns, k) <= room}
  OBVIOUS
<1>2. fitting \cup {least} \in SUBSET (0 .. Len(turns)) /\ fitting \cup {least} # {}
  BY <1>1
<1>3. \E k \in fitting \cup {least} : \A m \in fitting \cup {least} : m <= k
  BY <1>2, GreatestOf
<1>4. \E k \in fitting \cup {least} : \A m \in fitting : m <= k
  BY <1>3
<1>5. n = CHOOSE k \in fitting \cup {least} : \A m \in fitting : m <= k
  BY <1>1 DEF MostTurns
<1>6. n \in fitting \cup {least} /\ \A m \in fitting : m <= n
  BY <1>4, <1>5
<1>7. n \in least .. Len(turns)
  BY <1>1, <1>6
<1>8. n < Len(turns) => n + 1 \in least .. Len(turns) /\ ~(n + 1 <= n)
  BY <1>7
<1>9. n < Len(turns) => n + 1 \notin fitting
  BY <1>6, <1>8
<1> QED
  BY <1>1, <1>6, <1>7, <1>8, <1>9

-----------------------------------------------------------------------------
(* The summary.                                                            *)

LEMMA JoinedType ==
    ASSUME NEW S, NEW f, Lengths(S, f)
    PROVE  Joined(S, f) \in Nat
<1>1. Total(S, f) \in Nat
  BY TotalType
<1>2. Cardinality(S) \in Nat /\ (Cardinality(S) = 0 <=> S = {})
  BY FS_CardinalityType, FS_EmptySet DEF Lengths
<1> QED
  BY <1>1, <1>2 DEF Joined

\* What is kept of some texts fits, joined.
LEMMA NewestFit ==
    ASSUME NEW S, NEW f, Lengths(S, f), NEW later, Ordered(S, later), NEW room \in Nat,
           NEW K, K = NewestThatFit(S, f, later, room)
    PROVE  K \in SUBSET S /\ Lengths(K, f) /\ Joined(K, f) \in 0 .. room
<1>1. PICK fits : fits = [x \in S |-> {T \in SUBSET later[x] : Joined(T \cup {x}, f) <= room}]
  OBVIOUS
<1>2. K = Kept(S, later, fits)
  BY <1>1 DEF NewestThatFit
<1>3. K \in SUBSET S /\ \A x \in S : x \in K <=> K \cap later[x] \in fits[x]
  BY <1>2, KeptIs
<1>4. Lengths(K, f)
  BY <1>3, TotalAtMost
<1>5. Joined(K, f) \in Nat
  BY <1>4, JoinedType
<1>6. Joined(K, f) <= room
  <2>1. CASE K = {}
    BY <2>1 DEF Joined
  <2>2. CASE K # {}
    <3>1. PICK x \in K : K \cap later[x] = K \ {x}
      BY <1>3, <2>2, LastOf
    <3>2. (K \cap later[x]) \cup {x} = K
      BY <3>1
    <3>3. Joined((K \cap later[x]) \cup {x}, f) <= room
      BY <1>1, <1>3
    <3> QED
      BY <3>2, <3>3
  <2> QED
    BY <2>1, <2>2
<1> QED
  BY <1>3, <1>4, <1>5, <1>6

\* The source is made of the turns it is given.
LEMMA SourceOfTurns ==
    ASSUME NEW turns, Conversation(turns), NEW n \in 0 .. Len(turns), NEW budget
    PROVE  StructuralSource(turns, n, budget) \in SUBSET (1 .. n)
<1>1. PICK later : later = [i \in 1 .. n |-> i + 1 .. n]
  OBVIOUS
<1>2. PICK f : f = [i \in 1 .. n |-> RecordLength(turns[i])]
  OBVIOUS
<1>3. Ordered(1 .. n, later)
  BY <1>1, BackwardOrder DEF Conversation
<1>4. \E fits : StructuralSource(turns, n, budget) = Kept(1 .. n, later, fits)
  BY <1>1, <1>2 DEF StructuralSource, NewestThatFit
<1> QED
  BY <1>3, <1>4, KeptIs

\* The lines of a source.
LEMMA LinesType ==
    ASSUME NEW turns, Conversation(turns), NEW source \in SUBSET (1 .. Len(turns)),
           NEW L, L = Lines(turns, source)
    PROVE  /\ IsFiniteSet(L) /\ IsFiniteSet(source)
           /\ Ordered(L, Later(L)) /\ Lengths(L, LineLength(turns, L))
           /\ \A x \in L : x[1] \in source /\ x[2] \in 1 .. Len(turns[x[1]].lines)
                             /\ x = <<x[1], x[2]>>
<1>1. Len(turns) \in Nat
  BY DEF Conversation
<1>2. IsFiniteSet(source)
  <2>1. IsFiniteSet(1 .. Len(turns))
    BY <1>1, FS_Interval
  <2> QED
    BY <2>1, FS_Subset
<1>3. PICK g : g = [i \in source |-> Len(turns[i].lines)]
  OBVIOUS
<1>4. \A i \in source : g[i] \in Nat /\ g[i] = Len(turns[i].lines)
  BY <1>3 DEF Conversation
<1>5. Lengths(source, g)
  BY <1>2, <1>4 DEF Lengths
<1>6. L = Characters(source, g)
  BY <1>3 DEF Characters, Lines
<1>7. IsFiniteSet(L)
  BY <1>5, <1>6, TotalType
<1>8. \A x \in L : \E i \in source : x \in {i} \X (1 .. g[i])
  BY <1>6 DEF Characters
<1>9. ASSUME NEW x \in L
      PROVE  x[1] \in source /\ x[2] \in 1 .. Len(turns[x[1]].lines) /\ x = <<x[1], x[2]>>
  <2>1. PICK i \in source : x \in {i} \X (1 .. g[i])
    BY <1>8
  <2>2. x = <<x[1], x[2]>> /\ x[1] = i /\ x[2] \in 1 .. g[i]
    BY <2>1
  <2> QED
    BY <1>4, <2>2
<1>10. L \subseteq source \X Nat
  BY <1>4, <1>9
<1>11. Ordered(L, Later(L))
  <2>1. PICK J : J = source
    OBVIOUS
  <2>2. J \subseteq Nat /\ L \subseteq J \X Nat /\ Nat \subseteq Nat
    BY <1>1, <1>10, <2>1
  <2> QED
    BY ONLY <1>7, <2>2, LaterOrder
<1>12. \A x \in L : LineLength(turns, L)[x] \in Nat
  BY <1>9 DEF LineLength, Conversation
<1> QED
  BY <1>2, <1>7, <1>9, <1>11, <1>12 DEF Lengths

\* Records that are one line each: as many lines as turns.
LEMMA LinesOfWhole ==
    ASSUME NEW turns, Conversation(turns), NEW source \in SUBSET (1 .. Len(turns)),
           \A i \in source : Len(turns[i].lines) <= 1,
           NEW K \in SUBSET Lines(turns, source)
    PROVE  Cardinality({x[1] : x \in K}) = Cardinality(K) /\ Cardinality(K) <= Cardinality(source)
<1>1. PICK L : L = Lines(turns, source)
  OBVIOUS
<1>2. /\ IsFiniteSet(L) /\ IsFiniteSet(source)
      /\ \A x \in L : x[1] \in source /\ x[2] \in 1 .. Len(turns[x[1]].lines)
                        /\ x = <<x[1], x[2]>>
  BY <1>1, LinesType
<1>3. \A x \in K : x[1] \in source /\ x = <<x[1], 1>>
  <2>1. \A i \in source : 1 .. Len(turns[i].lines) = {1}
    <3> TAKE i \in source
    <3>1. PICK n : n = Len(turns[i].lines)
      OBVIOUS
    <3>2. n \in Nat \ {0} /\ n <= 1
      BY <3>1 DEF Conversation
    <3> QED
      BY <3>1, <3>2
  <2> TAKE x \in K
  <2>2. x[1] \in source /\ x[2] \in 1 .. Len(turns[x[1]].lines) /\ x = <<x[1], x[2]>>
    BY <1>1, <1>2
  <2>3. x[2] \in {1}
    BY <2>1, <2>2, Zenon
  <2> QED
    BY <2>2, <2>3
<1>4. PICK T : T = {x[1] : x \in K}
  OBVIOUS
<1>5. PICK f : f = [x \in K |-> x[1]]
  OBVIOUS
<1>6. f \in Bijection(K, T)
  <2>1. f \in [K -> T]
    BY <1>4, <1>5
  <2>2. \A x, y \in K : f[x] = f[y] => x = y
    BY <1>3, <1>5
  <2>3. \A t \in T : \E x \in K : f[x] = t
    BY <1>4, <1>5
  <2> QED
    BY <2>1, <2>2, <2>3 DEF Bijection, Injection, Surjection, IsInjective
<1>7. IsFiniteSet(K)
  BY <1>1, <1>2, FS_Subset
<1>8. Cardinality(T) = Cardinality(K)
  BY <1>6, <1>7, FS_Bijection DEF ExistsBijection
<1>9. T \in SUBSET source
  BY <1>3, <1>4
<1>10. Cardinality(T) <= Cardinality(source)
  BY <1>2, <1>9, FS_Subset
<1> QED
  BY <1>4, <1>8, <1>10


-----------------------------------------------------------------------------
(* The window.                                                             *)

SamePrefix(v, w) ==
    /\ v.turns = w.turns /\ v.budget = w.budget /\ v.prompt = w.prompt
    /\ v.resources = w.resources /\ v.repository = w.repository
    /\ v.recall = w.recall /\ v.memory = w.memory /\ v.unrecalled = w.unrecalled

\* The step, the turns kept and the summary say nothing of the prefix.
LEMMA PrefixKept ==
    ASSUME NEW v, NEW w, SamePrefix(v, w)
    PROVE  /\ PrefixCost(v) = PrefixCost(w) /\ Room(v) = Room(w) /\ Needed(v) = Needed(w)
           /\ RepositoryFits(w) => RepositoryFits(v)
           /\ MemoryFits(w) => MemoryFits(v)
           /\ PrefixOK(w) => PrefixOK(v)
<1>1. PrefixCost(v) = PrefixCost(w) /\ Needed(v) = Needed(w)
  BY DEF SamePrefix, PrefixCost, Needed
<1>2. Room(v) = Room(w)
  BY <1>1 DEF SamePrefix, Room
<1>3. RepositoryFits(w) => RepositoryFits(v)
  BY <1>1 DEF SamePrefix, RepositoryFits
<1>4. MemoryFits(w) => MemoryFits(v)
  <2>1. \A r, reason : Justified(w, r, reason) => Justified(v, r, reason)
    BY <1>1 DEF SamePrefix, Justified
  <2> QED
    BY <2>1 DEF SamePrefix, MemoryFits
<1>5. PrefixOK(w) => PrefixOK(v)
  BY <1>1, <1>3, <1>4 DEF SamePrefix, PrefixOK
<1> QED
  BY <1>1, <1>2, <1>3, <1>4, <1>5

LEMMA RoomIs ==
    ASSUME NEW w, PrefixOK(w)
    PROVE  /\ Room(w) \in Nat /\ Room(w) = w.budget.active - PrefixCost(w)
           /\ w.budget.active \in Nat /\ PrefixCost(w) \in Nat
           /\ Required(w.turns, w.budget) \in 1 .. Len(w.turns)
           /\ TurnCost(w.turns, Required(w.turns, w.budget)) \in 0 .. Room(w)
<1>1. Required(w.turns, w.budget) \in 1 .. Len(w.turns)
  BY DEF PrefixOK, Conversation, Budget, Required, Least
<1>2. TurnCost(w.turns, Required(w.turns, w.budget)) \in Nat
  BY <1>1, TurnCostStep DEF PrefixOK
<1>3. w.budget.active \in Nat /\ PrefixCost(w) \in Nat
  BY DEF PrefixOK, Budget
<1>4. PrefixCost(w) + TurnCost(w.turns, Required(w.turns, w.budget)) <= w.budget.active
  BY DEF PrefixOK
<1>5. PrefixCost(w) <= w.budget.active
  BY <1>2, <1>3, <1>4
<1>6. Room(w) = w.budget.active - PrefixCost(w)
  BY <1>5 DEF Room, Left
<1> QED
  BY <1>1, <1>2, <1>3, <1>4, <1>5, <1>6

LEMMA IdleShape == WindowShape(Idle)
<1>1. Idle = [f \in Fields |-> Idle[f]]
  BY DEF Idle, Fields
<1>2. Idle.step = "idle" /\ Idle.turns = <<>> /\ Idle.kept = 0
  BY DEF Idle
<1> QED
  BY <1>1, <1>2 DEF WindowShape

LEMMA EndedShape ==
    ASSUME NEW w, WindowShape(w), NEW step \in {"overflow", "failed"}, NEW reason
    PROVE  WindowShape(Ended(w, step, reason))
BY DEF WindowShape, Ended, Fields, Idle

\* What a summary says of the turns that are left out when n are kept.
SummaryOf(w, n, summary) ==
    /\ summary.turns <= summary.included
    /\ summary.included <= Cardinality(1 .. Len(w.turns) - n)
    /\ \A x \in summary.lines : x[1] \in 1 .. Len(w.turns) - n
    /\ summary.by = "structural" /\ ~Torn(w) =>
         Cardinality({x[1] : x \in summary.lines}) = summary.turns

\* The last check never finds an overflow.
LEMMA AssembleGood ==
    ASSUME NEW w, WindowShape(w), PrefixOK(w),
           NEW n \in Required(w.turns, w.budget) .. Len(w.turns), NEW summary, NEW cost \in Nat,
           cost = IF summary = <<>> THEN 0 ELSE summary[1].cost,
           cost + TurnCost(w.turns, n) <= Room(w),
           summary = <<>> /\ n < Len(w.turns) => TurnCost(w.turns, n + 1) > Room(w),
           summary # <<>> => SummaryOf(w, n, summary[1])
    PROVE  GoodWindow(Assemble(w, n, summary))
<1>1. /\ Room(w) \in Nat /\ Room(w) = w.budget.active - PrefixCost(w)
      /\ w.budget.active \in Nat /\ PrefixCost(w) \in Nat
      /\ Required(w.turns, w.budget) \in 1 .. Len(w.turns)
  BY RoomIs
<1>2. Len(w.turns) \in Nat /\ n \in 1 .. Len(w.turns)
  BY <1>1 DEF PrefixOK, Conversation
<1>3. TurnCost(w.turns, n) \in Nat
  BY <1>2, TurnCostStep DEF PrefixOK
<1>4. PICK v : v = [w EXCEPT !.step = "built", !.kept = n, !.summary = summary]
  OBVIOUS
<1>5. /\ WindowShape(v) /\ SamePrefix(v, w)
      /\ v.step = "built" /\ v.kept = n /\ v.summary = summary /\ v.source = w.source
  <2>1. w = [f \in Fields |-> w[f]] /\ n \in 0 .. Len(w.turns)
    BY <1>2 DEF WindowShape
  <2>2. /\ v = [f \in Fields |-> v[f]] /\ v.turns = w.turns
        /\ v.step = "built" /\ v.kept = n /\ v.summary = summary /\ v.source = w.source
    BY <1>4, <2>1 DEF Fields, Idle
  <2>3. SamePrefix(v, w)
    BY <1>4, <2>1 DEF Fields, Idle, SamePrefix
  <2> QED
    BY <1>2, <2>1, <2>2, <2>3 DEF WindowShape
<1>6. PrefixCost(v) = PrefixCost(w) /\ PrefixOK(v)
  BY <1>5, PrefixKept
<1>7. Cost(v) = PrefixCost(w) + cost + TurnCost(w.turns, n)
  BY <1>5, <1>6 DEF Cost, SamePrefix
<1>8. Cost(v) <= w.budget.active /\ v.budget = w.budget
  <2>1. PICK prefix \in Nat, turns \in Nat, active \in Nat :
          prefix = PrefixCost(w) /\ turns = TurnCost(w.turns, n) /\ active = w.budget.active
    BY <1>1, <1>3
  <2>2. cost + turns <= active - prefix
    BY <1>1, <2>1
  <2>3. cost \in Nat
    OBVIOUS
  <2>4. prefix + cost + turns <= active
    BY ONLY <2>1, <2>2, <2>3
  <2> QED
    BY <1>5, <1>7, <2>1, <2>4 DEF SamePrefix
<1>9. Assemble(w, n, summary) = v
  <2>1. Cost(v) \in Nat
    BY <1>1, <1>3, <1>7
  <2>2. ~(Cost(v) > w.budget.active)
    BY <1>1, <1>8, <2>1
  <2> QED
    BY <1>4, <2>2 DEF Assemble
<1>10. TurnsFit(v)
  <2> SUFFICES ASSUME summary = <<>>, n < Len(w.turns)
               PROVE  Cost(v) + w.turns[Len(w.turns) - n].cost > w.budget.active
    BY <1>5 DEF TurnsFit, SamePrefix
  <2>1. TurnCost(w.turns, n + 1) = TurnCost(w.turns, n) + w.turns[Len(w.turns) - n].cost
    BY <1>2, TurnCostStep DEF PrefixOK
  <2>2. Len(w.turns) - n \in 1 .. Len(w.turns)
    BY <1>2
  <2>3. w.turns[Len(w.turns) - n].cost \in Nat
    BY <2>2 DEF PrefixOK, Conversation
  <2>4. TurnCost(w.turns, n + 1) > Room(w) /\ cost = 0
    OBVIOUS
  <2>5. PICK prefix \in Nat, turns \in Nat, active \in Nat, next \in Nat :
          /\ prefix = PrefixCost(w) /\ turns = TurnCost(w.turns, n)
          /\ active = w.budget.active /\ next = w.turns[Len(w.turns) - n].cost
    BY <1>1, <1>3, <2>3
  <2>6. turns + next > active - prefix
    <3>1. turns + next = TurnCost(w.turns, n + 1) /\ Room(w) = active - prefix
      BY <1>1, <2>1, <2>5
    <3> QED
      BY ONLY <2>4, <3>1
  <2>7. Cost(v) = prefix + turns
    <3>1. Cost(v) = prefix + cost + turns /\ cost = 0
      BY ONLY <1>7, <2>4, <2>5
    <3> QED
      BY ONLY <2>5, <3>1
  <2>8. prefix + turns + next > active
    BY ONLY <2>6
  <2> QED
    BY ONLY <2>5, <2>7, <2>8
<1>11. Fitting(v)
  BY <1>2, <1>5, <1>6, <1>8, <1>10 DEF Fitting, PrefixOK, SamePrefix
<1>12. Honest(v)
  <2>1. Torn(v) <=> Torn(w)
    BY <1>5 DEF Torn, SamePrefix
  <2>2. OmittedTurns(v) = 1 .. Len(w.turns) - n
    BY <1>5 DEF OmittedTurns, SamePrefix
  <2> QED
    BY <1>5, <2>1, <2>2 DEF Honest, SummaryOf
<1> QED
  BY <1>5, <1>9, <1>11, <1>12 DEF GoodWindow

LEMMA UnsummarizedGood ==
    ASSUME NEW w, WindowShape(w), Pending(w)
    PROVE  GoodWindow(Unsummarized(w))
<1>1. PICK n : n = MostTurns(w.turns, w.kept, Room(w))
  OBVIOUS
<1>2. PrefixOK(w) /\ Room(w) \in Nat /\ Required(w.turns, w.budget) \in 1 .. Len(w.turns)
  BY RoomIs DEF Pending
<1>3. /\ Len(w.turns) \in Nat /\ w.kept \in 0 .. Len(w.turns)
      /\ w.kept \in Required(w.turns, w.budget) .. Len(w.turns)
      /\ TurnCost(w.turns, w.kept) <= Room(w)
  BY DEF WindowShape, Pending
<1>4. /\ n \in w.kept .. Len(w.turns) /\ TurnCost(w.turns, n) <= Room(w)
      /\ n < Len(w.turns) => ~(TurnCost(w.turns, n + 1) <= Room(w))
  <2>1. PICK least : least = w.kept
    OBVIOUS
  <2>2. PICK room : room = Room(w)
    OBVIOUS
  <2>3. least \in 0 .. Len(w.turns) /\ room \in Nat /\ n = MostTurns(w.turns, least, room)
    BY <1>1, <1>2, <1>3, <2>1, <2>2
  <2>4. /\ n \in least .. Len(w.turns)
        /\ TurnCost(w.turns, least) <= room => TurnCost(w.turns, n) <= room
        /\ n < Len(w.turns) => ~(TurnCost(w.turns, n + 1) <= room)
    BY <1>3, <2>3, MostTurnsFit
  <2> QED
    BY <1>3, <2>1, <2>2, <2>4
<1>5. n \in Required(w.turns, w.budget) .. Len(w.turns) /\ n \in 0 .. Len(w.turns)
  BY <1>2, <1>3, <1>4
<1>6. TurnCost(w.turns, n) \in Nat
  BY <1>2, <1>5, TurnCostStep DEF PrefixOK
<1>7. n < Len(w.turns) => TurnCost(w.turns, n + 1) > Room(w)
  <2> HAVE n < Len(w.turns)
  <2>1. n + 1 \in 0 .. Len(w.turns)
    BY <1>3, <1>5
  <2>2. TurnCost(w.turns, n + 1) \in Nat
    BY <1>2, <2>1, TurnCostStep DEF PrefixOK
  <2> QED
    BY <1>2, <1>4, <2>2
<1>8. 0 + TurnCost(w.turns, n) <= Room(w)
  BY <1>4, <1>6
<1>9. GoodWindow(Assemble(w, n, <<>>))
  BY <1>2, <1>5, <1>7, <1>8, AssembleGood
<1> QED
  BY <1>1, <1>9 DEF Unsummarized

\* The memory of a prefix: what is recalled is in the message, or left out for
\* a reason that holds.
LEMMA MemoryAccounted ==
    ASSUME NEW w, NEW recall, RecallOK(recall), w.recall = recall,
           w.budget \in Budget, NEW available \in Nat,
           w.memory = ProjectMemory(recall, w.budget, available),
           w.unrecalled = recall.omitted
               \cup {[id |-> r.id, reason |-> "projection_budget"] : r \in recall.matches \ w.memory},
           NEW taken \in Nat, taken = Needed(w) + RepositoryCost(w.resources, w.repository),
           available = w.budget.active - taken
    PROVE  MemoryFits(w) /\ MemoryCost(w.memory) \in 0 .. available
<1>1. PICK K : K = w.memory
  OBVIOUS
<1>2. PICK most : most = Least(w.budget.memory, recall.request.characters)
  OBVIOUS
<1>3. PICK capacity : capacity = Least(most, available)
  OBVIOUS
<1>4. most \in Nat /\ w.budget.active \in Nat
  BY <1>2 DEF Least, Budget, RecallOK, Askable
<1>5. /\ K \in SUBSET recall.matches /\ capacity \in Nat /\ MemoryCost(K) \in 0 .. capacity
      /\ \A r \in recall.matches \ K : MemoryCost(K \cup {r}) > capacity
  <2>1. PICK budget \in Budget : budget = w.budget
    OBVIOUS
  <2>2. /\ capacity = Least(Least(budget.memory, recall.request.characters), available)
        /\ K = ProjectMemory(recall, budget, available)
    BY <1>1, <1>2, <1>3, <2>1
  <2>3. capacity \in Nat /\ Packed(recall, capacity, K)
    BY <2>2, ProjectMemoryFits
  <2> QED
    BY <2>3 DEF Packed
<1>6. capacity <= most /\ capacity <= available /\ capacity \in {most, available}
  BY <1>3, <1>4 DEF Least
<1>7. MemoryCost(K) <= most /\ MemoryCost(K) \in 0 .. available
  BY <1>4, <1>5, <1>6
<1>8. /\ recall.matches \in SUBSET recall.records /\ Recallable(recall.records)
      /\ Cardinality(recall.matches) <= recall.request.records /\ recall.request.records \in Nat
  BY DEF RecallOK, Askable
<1>9. Cardinality(K) <= recall.request.records
  <2>1. IsFiniteSet(recall.matches)
    BY <1>8, FS_Subset DEF Recallable
  <2>2. /\ Cardinality(K) <= Cardinality(recall.matches)
        /\ Cardinality(K) \in Nat /\ Cardinality(recall.matches) \in Nat
    BY <1>5, <2>1, FS_Subset, FS_CardinalityType
  <2> QED
    BY <1>8, <2>2
<1>10. \A q, r \in recall.records : q.id = r.id => q = r
  BY <1>8 DEF Recallable
<1> DEFINE late(r) == [id |-> r.id, reason |-> "projection_budget"]
<1>11. /\ \A s \in w.unrecalled : s \in recall.omitted \/ \E r \in recall.matches \ K : s = late(r)
       /\ \A s \in recall.omitted : s \in w.unrecalled
       /\ \A r \in recall.matches \ K : late(r) \in w.unrecalled
  BY <1>1
<1>12. \A r \in recall.records : late(r).id = r.id /\ late(r).reason = "projection_budget"
  OBVIOUS
<1> HIDE DEF late
<1>13. /\ \A r \in recall.records : r \in recall.matches =>
            \A s \in recall.omitted : s.id # r.id
       /\ \A r \in recall.records : r \notin recall.matches =>
            \E s \in recall.omitted : s.id = r.id
       /\ \A s \in recall.omitted :
            \E r \in recall.records : s.id = r.id /\ Warranted(recall, r, s.reason)
       /\ \A s, u \in recall.omitted : s.id = u.id => s = u
  BY DEF RecallOK
<1>14. \A r \in recall.records : (r \in K) # (\E s \in w.unrecalled : s.id = r.id)
  <2> TAKE r \in recall.records
  <2>1. ASSUME r \in K, NEW s \in w.unrecalled, s.id = r.id
        PROVE  FALSE
    <3>1. s \notin recall.omitted
      BY <1>5, <1>13, <2>1
    <3>2. PICK q \in recall.matches \ K : s = late(q)
      BY <1>11, <3>1
    <3>3. q.id = r.id /\ q \in recall.records
      BY <1>8, <1>12, <2>1, <3>2
    <3> QED
      BY <1>10, <2>1, <3>2, <3>3
  <2>2. ASSUME r \notin K
        PROVE  \E s \in w.unrecalled : s.id = r.id
    <3>1. CASE r \in recall.matches
      BY <1>11, <1>12, <2>2, <3>1
    <3>2. CASE r \notin recall.matches
      BY <1>11, <1>13, <3>2
    <3> QED
      BY <3>1, <3>2
  <2> QED
    BY <2>1, <2>2
<1>15. \A r, reason : Warranted(recall, r, reason) => Justified(w, r, reason)
  BY DEF Warranted, Justified
<1>16. ASSUME NEW r \in recall.matches \ K
       PROVE  Justified(w, r, "projection_budget")
  <2>1. PICK more : more = MemoryCost(K \cup {r})
    OBVIOUS
  <2>2. more > capacity
    BY <1>5, <2>1
  <2>3. more \in Nat
    <3>1. K \cup {r} \in SUBSET recall.records
      BY <1>5, <1>8
    <3> QED
      BY <1>8, <2>1, <3>1, SizesAtMost
  <2>4. more > most \/ more > available
    BY <1>6, <2>2
  <2>5. more > available => taken + more > w.budget.active
    BY <1>4, <2>3
  <2> QED
    BY <1>1, <1>2, <2>1, <2>4, <2>5 DEF Justified
<1>17. \A s \in w.unrecalled : \E r \in recall.records : s.id = r.id /\ Justified(w, r, s.reason)
  <2> TAKE s \in w.unrecalled
  <2>1. CASE s \in recall.omitted
    BY <1>13, <1>15, <2>1
  <2>2. CASE s \notin recall.omitted
    <3>1. PICK r \in recall.matches \ K : s = late(r)
      BY <1>11, <2>2
    <3> QED
      BY <1>8, <1>12, <1>16, <3>1
  <2> QED
    BY <2>1, <2>2
<1>18. ASSUME NEW s \in w.unrecalled, NEW u \in w.unrecalled, s.id = u.id
       PROVE  s = u
  <2>1. \A x, y \in w.unrecalled : x.id = y.id /\ x \in recall.omitted => y \in recall.omitted
    <3> SUFFICES ASSUME NEW x \in w.unrecalled, NEW y \in w.unrecalled, x.id = y.id,
                        x \in recall.omitted, y \notin recall.omitted
                 PROVE  FALSE
      OBVIOUS
    <3>1. PICK r \in recall.matches \ K : y = late(r)
      BY <1>11
    <3>2. r \in recall.records /\ x.id = r.id
      BY <1>8, <1>12, <3>1
    <3> QED
      BY <1>13, <3>2
  <2>2. CASE s \in recall.omitted
    BY <1>13, <1>18, <2>1, <2>2
  <2>3. CASE s \notin recall.omitted
    <3>1. u \notin recall.omitted
      BY <1>18, <2>1, <2>3
    <3>2. PICK q \in recall.matches \ K : s = late(q)
      BY <1>11, <2>3
    <3>3. PICK r \in recall.matches \ K : u = late(r)
      BY <1>11, <3>1
    <3>4. q = r
      BY <1>8, <1>10, <1>12, <1>18, <3>2, <3>3
    <3> QED
      BY <3>2, <3>3, <3>4
  <2> QED
    BY <2>2, <2>3
<1> QED
  BY <1>1, <1>2, <1>7, <1>9, <1>14, <1>17, <1>18 DEF MemoryFits

\* The prefix takes no more than the required turns leave.
LEMMA PrefixedGood ==
    ASSUME NEW turns, Conversation(turns), NEW prompt \in Nat, NEW budget \in Budget,
           NEW resources, Projectable(resources), NEW recall, recall # None => RecallOK(recall),
           prompt + TurnCost(turns, Required(turns, budget)) <= budget.active,
           NEW w, w = Prefixed(turns, prompt, budget, resources, recall)
    PROVE  /\ WindowShape(w) /\ PrefixOK(w)
           /\ w.turns = turns /\ w.budget = budget /\ w.kept = Required(turns, budget)
           /\ w.step = "idle"
<1>1. PICK capacity : capacity = Capacity(turns, budget, prompt)
  OBVIOUS
<1>2. PICK repository : repository = ProjectRepository(resources, budget, capacity)
  OBVIOUS
<1>3. PICK cost : cost = RepositoryCost(resources, repository)
  OBVIOUS
<1>4. PICK needed : needed = prompt + TurnCost(turns, Required(turns, budget))
  OBVIOUS
<1>5. Required(turns, budget) \in 1 .. Len(turns) /\ Len(turns) \in Nat
  BY DEF Conversation, Budget, Required, Least
<1>6. TurnCost(turns, Required(turns, budget)) \in Nat
  BY <1>5, TurnCostStep
<1>7. needed \in Nat /\ budget.active \in Nat /\ needed <= budget.active
  BY <1>4, <1>6 DEF Budget
<1>8. capacity = budget.active - needed /\ capacity \in Nat
  BY <1>1, <1>4, <1>7 DEF Capacity, Left
<1>9. /\ repository \in SUBSET (1 .. Len(resources)) /\ cost \in 0 .. capacity
      /\ \A b \in Buckets : RepositoryCost(resources, InBucket(resources, repository, b))
                              <= budget.repository[b]
      /\ \A i \in 1 .. Len(resources) :
           i \in repository \/ ~FitsRepository(resources, repository, i, budget, capacity)
  <2>1. Projectable(resources) /\ budget \in Budget /\ capacity \in Nat
    BY <1>8
  <2>2. /\ repository \in SUBSET (1 .. Len(resources))
        /\ RepositoryCost(resources, repository) \in 0 .. capacity
        /\ \A b \in Buckets : RepositoryCost(resources, InBucket(resources, repository, b))
                                <= budget.repository[b]
        /\ \A i \in 1 .. Len(resources) :
             i \in repository \/ ~FitsRepository(resources, repository, i, budget, capacity)
    BY ONLY <1>2, <2>1, ProjectRepositoryFits
  <2> QED
    BY <1>3, <2>2
<1>10. PICK available : available = Left(capacity, cost)
  OBVIOUS
<1>11. available = capacity - cost /\ available \in Nat
  BY <1>8, <1>9, <1>10 DEF Left
<1>12. PICK base : base = [Idle EXCEPT !.turns = turns, !.budget = budget, !.prompt = prompt,
                              !.kept = Required(turns, budget),
                              !.resources = resources, !.repository = repository]
  OBVIOUS
<1>13. w = IF recall = None THEN base
           ELSE [base EXCEPT !.recall = recall,
                   !.memory = ProjectMemory(recall, budget, available),
                   !.unrecalled = recall.omitted
                       \cup {[id |-> r.id, reason |-> "projection_budget"]
                               : r \in recall.matches \ ProjectMemory(recall, budget, available)}]
  BY <1>1, <1>2, <1>3, <1>10, <1>12 DEF Prefixed
<1>14. /\ WindowShape(w) /\ w.step = "idle"
       /\ w.turns = turns /\ w.budget = budget /\ w.prompt = prompt
       /\ w.kept = Required(turns, budget)
       /\ w.resources = resources /\ w.repository = repository
  <2>1. /\ w = [f \in Fields |-> w[f]] /\ w.step = "idle" /\ w.turns = turns
        /\ w.kept = Required(turns, budget)
    BY <1>12, <1>13 DEF Idle, Fields
  <2>2. /\ w.budget = budget /\ w.prompt = prompt
        /\ w.resources = resources /\ w.repository = repository
    BY <1>12, <1>13 DEF Idle, Fields
  <2> QED
    BY <1>5, <2>1, <2>2 DEF WindowShape
<1>15. Needed(w) = needed
  BY <1>4, <1>14 DEF Needed
<1>16. RepositoryFits(w)
  BY <1>8, <1>9, <1>14, <1>15 DEF RepositoryFits
<1>17. MemoryFits(w) /\ MemoryCost(w.memory) \in 0 .. available
  <2>1. CASE recall = None
    <3>1. w.recall = None /\ w.memory = {}
      BY <1>12, <1>13, <2>1 DEF Idle
    <3> QED
      BY <1>11, <3>1 DEF MemoryFits, MemoryCost
  <2>2. CASE recall # None
    <3>1. /\ w.recall = recall /\ w.memory = ProjectMemory(recall, w.budget, available)
          /\ w.unrecalled = recall.omitted
               \cup {[id |-> r.id, reason |-> "projection_budget"] : r \in recall.matches \ w.memory}
      BY <1>12, <1>13, <1>14, <2>2 DEF Idle
    <3>2. PICK taken : taken = needed + cost
      OBVIOUS
    <3>3. /\ taken \in Nat /\ taken = Needed(w) + RepositoryCost(w.resources, w.repository)
          /\ available = w.budget.active - taken
      BY <1>3, <1>7, <1>8, <1>9, <1>11, <1>14, <1>15, <3>2
    <3>4. RecallOK(recall) /\ w.budget \in Budget
      BY <1>14, <2>2
    <3> QED
      BY <1>11, <3>1, <3>3, <3>4, MemoryAccounted
  <2> QED
    BY <2>1, <2>2
<1>18. PrefixCost(w) = prompt + cost + MemoryCost(w.memory)
  BY <1>3, <1>14 DEF PrefixCost
<1>19. PrefixCost(w) \in Nat
         /\ PrefixCost(w) + TurnCost(turns, Required(turns, budget)) <= budget.active
  <2>1. PICK required : required = TurnCost(turns, Required(turns, budget))
    OBVIOUS
  <2>2. PICK recalled : recalled = MemoryCost(w.memory)
    OBVIOUS
  <2>3. PICK active : active = budget.active
    OBVIOUS
  <2>4. PICK prefix : prefix = PrefixCost(w)
    OBVIOUS
  <2>5. required \in Nat /\ needed = prompt + required /\ active \in Nat /\ prompt \in Nat
    BY <1>4, <1>6, <1>7, <2>1, <2>3
  <2>6. capacity = active - needed /\ capacity \in Nat /\ cost \in 0 .. capacity
    BY <1>8, <1>9, <2>3
  <2>7. recalled \in 0 .. (capacity - cost) /\ prefix = prompt + cost + recalled
    BY <1>11, <1>17, <1>18, <2>2, <2>4
  <2>8. prefix \in Nat /\ prefix + required <= active
    BY ONLY <2>5, <2>6, <2>7
  <2> QED
    BY ONLY <2>1, <2>3, <2>4, <2>8
<1>20. PrefixOK(w)
  BY <1>14, <1>16, <1>17, <1>19 DEF PrefixOK
<1> QED
  BY <1>14, <1>20

\* With as many turns as leave the reserve.
LEMMA TrimmedGood ==
    ASSUME NEW w, WindowShape(w), PrefixOK(w), w.kept = Required(w.turns, w.budget),
           NEW v, v = Trimmed(w)
    PROVE  WindowShape(v) /\ Pending(v) /\ v.step = w.step
<1>1. PICK reserve : reserve = Reserve(w.budget, Beside(w, w.kept))
  OBVIOUS
<1>2. PICK n : n = MostTurns(w.turns, w.kept, Left(Room(w), reserve))
  OBVIOUS
<1>3. PICK source : source = StructuralSource(w.turns, Len(w.turns) - n, w.budget)
  OBVIOUS
<1>4. v = [w EXCEPT !.kept = n, !.source = source]
  BY <1>1, <1>2, <1>3 DEF Trimmed
<1>5. /\ Room(w) \in Nat /\ w.kept \in 1 .. Len(w.turns) /\ Len(w.turns) \in Nat
      /\ TurnCost(w.turns, w.kept) \in 0 .. Room(w)
  BY RoomIs DEF PrefixOK, Conversation
<1>6. Beside(w, w.kept) = Room(w) - TurnCost(w.turns, w.kept)
  BY <1>5 DEF Beside, Left
<1>7. reserve \in 0 .. Room(w) - TurnCost(w.turns, w.kept)
  <2>1. w.budget.summary \in Nat /\ Header \in Nat
    BY ContextBuilderAssumption DEF PrefixOK, Budget
  <2> QED
    BY <1>1, <1>5, <1>6, <2>1 DEF Reserve, Least
<1>8. PICK room : room = Left(Room(w), reserve)
  OBVIOUS
<1>9. room \in Nat /\ room <= Room(w) /\ TurnCost(w.turns, w.kept) <= room
  BY <1>5, <1>7, <1>8 DEF Left
<1>10. w.kept \in 0 .. Len(w.turns)
  BY <1>5
<1>11. n \in w.kept .. Len(w.turns) /\ TurnCost(w.turns, n) <= room
  BY <1>2, <1>5, <1>8, <1>9, <1>10, MostTurnsFit
<1>12. n \in 0 .. Len(w.turns) /\ Len(w.turns) - n \in 0 .. Len(w.turns)
  BY <1>5, <1>11
<1>13. TurnCost(w.turns, n) <= Room(w)
  <2>1. TurnCost(w.turns, n) \in Nat
    BY <1>12, TurnCostStep DEF PrefixOK
  <2> QED
    BY <1>5, <1>9, <1>11, <2>1
<1>14. source \in SUBSET (1 .. Len(w.turns) - n)
  BY <1>3, <1>12, SourceOfTurns DEF PrefixOK
<1>15. /\ WindowShape(v) /\ SamePrefix(v, w) /\ v.step = w.step
       /\ v.kept = n /\ v.source = source
  BY <1>4, <1>12 DEF WindowShape, Fields, Idle, SamePrefix
<1>16. PrefixOK(v) /\ Room(v) = Room(w)
  BY <1>15, PrefixKept
<1>17. Pending(v)
  BY <1>11, <1>13, <1>14, <1>15, <1>16 DEF Pending, OmittedTurns, SamePrefix
<1> QED
  BY <1>15, <1>17

\* Whatever is recalled and loaded, a projection is a good window.
LEMMA ProjectGood ==
    ASSUME NEW turns, Conversation(turns), NEW prompt \in Nat, NEW budget \in Budget,
           NEW resources, Projectable(resources), NEW recall, recall # None => RecallOK(recall)
    PROVE  GoodWindow(Project(turns, prompt, budget, resources, recall))
<1>1. PICK p : p = Project(turns, prompt, budget, resources, recall)
  OBVIOUS
<1>2. PICK w : w = Prefixed(turns, prompt, budget, resources, recall)
  OBVIOUS
<1>3. PICK v : v = Trimmed(w)
  OBVIOUS
<1>4. PICK first : first = PromptOnly(turns, prompt, budget)
  OBVIOUS
<1>5. Required(turns, budget) \in 1 .. Len(turns) /\ Len(turns) \in Nat
  BY DEF Conversation, Budget, Required, Least
<1>6. TurnCost(turns, Required(turns, budget)) \in Nat /\ budget.active \in Nat
  BY <1>5, TurnCostStep DEF Budget
<1>7. p = IF prompt + TurnCost(turns, Required(turns, budget)) > budget.active
          THEN Ended(first, "overflow", "required")
          ELSE IF TurnCost(turns, Len(turns)) <= Room(w) THEN Assemble(w, Len(turns), <<>>)
          ELSE IF SummaryLimit(v) = 0 \/ v.source = {} THEN Unsummarized(v)
          ELSE [v EXCEPT !.step = "summary"]
  BY <1>1, <1>2, <1>3, <1>4 DEF Project
<1>8. CASE prompt + TurnCost(turns, Required(turns, budget)) > budget.active
  <2>1. /\ first.turns = turns /\ first.budget = budget /\ first.prompt = prompt
        /\ first.kept = 0 /\ first.step = "idle" /\ first = [f \in Fields |-> first[f]]
    BY <1>4 DEF PromptOnly, Idle, Fields
  <2>2. WindowShape(first)
    BY <1>5, <2>1 DEF WindowShape
  <2>3. WindowShape(p)
    BY <1>7, <1>8, <2>2, EndedShape
  <2>4. /\ p.step = "overflow" /\ p.reason = "required"
        /\ p.turns = turns /\ p.budget = budget /\ p.prompt = prompt
    BY <1>7, <1>8, <2>1, <2>2 DEF Ended, WindowShape, Fields, Idle
  <2>5. Fitting(p)
    BY <1>8, <2>4 DEF Fitting, Needed
  <2>6. Honest(p)
    BY <2>4 DEF Honest
  <2> QED
    BY <1>1, <2>3, <2>4, <2>5, <2>6 DEF GoodWindow
<1>9. CASE prompt + TurnCost(turns, Required(turns, budget)) <= budget.active
  <2>1. /\ WindowShape(w) /\ PrefixOK(w)
        /\ w.turns = turns /\ w.budget = budget /\ w.kept = Required(turns, budget)
        /\ w.step = "idle"
    BY <1>2, <1>9, PrefixedGood
  <2>2. WindowShape(v) /\ Pending(v)
    BY <1>3, <2>1, TrimmedGood
  <2>3. CASE TurnCost(turns, Len(turns)) <= Room(w)
    <3>1. Len(turns) \in Required(turns, budget) .. Len(turns) /\ Len(turns) \in 0 .. Len(turns)
      BY <1>5
    <3>2. TurnCost(turns, Len(turns)) \in Nat
      BY <3>1, TurnCostStep
    <3>3. 0 + TurnCost(turns, Len(turns)) <= Room(w)
      BY <2>3, <3>2
    <3>4. ~(Len(turns) < Len(turns))
      BY <1>5
    <3>5. GoodWindow(Assemble(w, Len(turns), <<>>))
      BY <2>1, <3>1, <3>3, <3>4, AssembleGood
    <3>6. p = Assemble(w, Len(turns), <<>>)
      BY <1>6, <1>7, <1>9, <2>3
    <3> QED
      BY <1>1, <3>5, <3>6
  <2>4. CASE p = Unsummarized(v)
    BY <1>1, <2>2, <2>4, UnsummarizedGood
  <2>5. CASE p = [v EXCEPT !.step = "summary"]
    <3>1. /\ WindowShape(p) /\ p.step = "summary" /\ SamePrefix(p, v)
          /\ p.kept = v.kept /\ p.source = v.source
      BY <2>2, <2>5 DEF WindowShape, Fields, Idle, SamePrefix
    <3>2. PrefixOK(p) /\ Room(p) = Room(v)
      BY <2>2, <3>1, PrefixKept DEF Pending
    <3>3. Pending(p)
      BY <2>2, <3>1, <3>2 DEF Pending, OmittedTurns, SamePrefix
    <3>4. Fitting(p) /\ Honest(p)
      BY <3>1 DEF Fitting, Honest
    <3> QED
      BY <1>1, <3>1, <3>3, <3>4 DEF GoodWindow
  <2> QED
    BY <1>6, <1>7, <1>9, <2>3, <2>4, <2>5
<1> QED
  BY <1>6, <1>8, <1>9

\* A draft stands for the source; only a model's is ever too long, and whole
\* records are counted as they should be.
LEMMA DraftIsRight ==
    ASSUME NEW turns, Conversation(turns), NEW source \in SUBSET (1 .. Len(turns)),
           NEW limit \in Nat, NEW summarizer \in Summarizers,
           NEW draft \in Drafts(summarizer, turns, source, limit)
    PROVE  /\ draft.length \in Nat
           /\ draft.length > limit => "model" \in Summarizers
           /\ \A x \in draft.lines : x[1] \in source
           /\ (\A i \in source : Len(turns[i].lines) <= 1) =>
                /\ draft.turns <= Cardinality(source)
                /\ summarizer = "structural" =>
                     Cardinality({x[1] : x \in draft.lines}) = draft.turns
<1>1. PICK L : L = Lines(turns, source)
  OBVIOUS
<1>2. /\ IsFiniteSet(L) /\ Ordered(L, Later(L)) /\ Lengths(L, LineLength(turns, L))
      /\ \A x \in L : x[1] \in source
  BY <1>1, LinesType
<1>3. CASE summarizer = "structural"
  <2>1. PICK K : K = NewestThatFit(L, LineLength(turns, L), Later(L), limit)
    OBVIOUS
  <2>2. K \in SUBSET L /\ Joined(K, LineLength(turns, L)) \in 0 .. limit
    BY <1>2, <2>1, NewestFit
  <2>3. draft = [length |-> Joined(K, LineLength(turns, L)), turns |-> Cardinality(K), lines |-> K]
    BY <1>1, <1>3, <2>1 DEF Drafts, StructuralDraft
  <2>4. draft.length \in 0 .. limit /\ draft.turns = Cardinality(K) /\ draft.lines = K
    BY <2>2, <2>3
  <2>5. (\A i \in source : Len(turns[i].lines) <= 1) =>
          Cardinality({x[1] : x \in K}) = Cardinality(K) /\ Cardinality(K) <= Cardinality(source)
    BY <1>1, <2>2, LinesOfWhole
  <2> QED
    BY <1>2, <2>2, <2>4, <2>5
<1>4. CASE summarizer # "structural"
  <2>1. PICK n \in {0, 1, limit, limit + 1} :
          draft = [length |-> n, turns |-> Cardinality(L), lines |-> {}]
    BY <1>1, <1>4 DEF Drafts
  <2>2. draft.length = n /\ draft.turns = Cardinality(L) /\ draft.lines = {}
    BY <2>1
  <2>3. "model" \in Summarizers
    BY <1>4, ContextBuilderAssumption
  <2>4. (\A i \in source : Len(turns[i].lines) <= 1) => Cardinality(L) <= Cardinality(source)
    <3>1. L \in SUBSET Lines(turns, source)
      BY <1>1
    <3> QED
      BY <3>1, LinesOfWhole
  <2> QED
    BY <1>4, <2>2, <2>3, <2>4
<1> QED
  BY <1>3, <1>4

LEMMA FailedGood ==
    ASSUME NEW w, GoodWindow(w), NEW reason,
           \/ reason = "source turn count" /\ Torn(w)
           \/ reason \in {"summary too long", "provider"} /\ "model" \in Summarizers
    PROVE  GoodWindow(Ended(w, "failed", reason))
<1>1. PICK v : v = Ended(w, "failed", reason)
  OBVIOUS
<1>2. WindowShape(v)
  BY <1>1, EndedShape DEF GoodWindow
<1>3. v.step = "failed" /\ v.reason = reason /\ v.turns = w.turns /\ v.source = w.source
  BY <1>1 DEF GoodWindow, WindowShape, Ended, Fields, Idle
<1>4. Torn(w) => Torn(v)
  BY <1>3 DEF Torn
<1>5. Fitting(v) /\ Honest(v)
  BY <1>3, <1>4 DEF Fitting, Honest
<1> QED
  BY <1>1, <1>2, <1>3, <1>5 DEF GoodWindow

LEMMA AnsweredGood ==
    ASSUME NEW w, GoodWindow(w), w.step = "summary",
           NEW summarizer \in Summarizers, NEW escapes \in Escapes,
           NEW draft \in Drafts(summarizer, w.turns, w.source, SummaryLimit(w))
    PROVE  GoodWindow(Answered(w, summarizer, escapes, draft))
<1> DEFINE message == [cost |-> Header + draft.length + escapes, by |-> summarizer,
                       turns |-> draft.turns, lines |-> draft.lines,
                       included |-> Cardinality(w.source)]
<1>1. WindowShape(w) /\ Pending(w) /\ PrefixOK(w)
  BY DEF GoodWindow, Pending
<1>2. PICK limit : limit = SummaryLimit(w)
  OBVIOUS
<1>3. /\ Room(w) \in Nat /\ w.budget.active \in Nat
      /\ Required(w.turns, w.budget) \in 1 .. Len(w.turns) /\ Len(w.turns) \in Nat
  BY <1>1, RoomIs DEF PrefixOK, Conversation
<1>4. /\ w.kept \in Required(w.turns, w.budget) .. Len(w.turns)
      /\ TurnCost(w.turns, w.kept) <= Room(w)
      /\ w.source \in SUBSET (1 .. Len(w.turns) - w.kept)
  BY <1>1 DEF Pending, OmittedTurns
<1>5. w.kept \in 0 .. Len(w.turns) /\ w.source \in SUBSET (1 .. Len(w.turns))
  BY <1>3, <1>4
<1>6. TurnCost(w.turns, w.kept) \in Nat
  BY <1>1, <1>5, TurnCostStep DEF PrefixOK
<1>7. Beside(w, w.kept) = Room(w) - TurnCost(w.turns, w.kept)
  BY <1>3, <1>4, <1>6 DEF Beside, Left
<1>8. limit \in Nat
  <2>1. w.budget.summary \in Nat /\ Header \in Nat
    BY <1>1, ContextBuilderAssumption DEF PrefixOK, Budget
  <2> QED
    BY <1>2, <1>3, <1>4, <1>6, <1>7, <2>1 DEF SummaryLimit, Least, Left
<1>9. Conversation(w.turns)
  BY <1>1 DEF PrefixOK
<1>10. /\ draft.length \in Nat
       /\ draft.length > limit => "model" \in Summarizers
       /\ \A x \in draft.lines : x[1] \in w.source
       /\ (\A i \in w.source : Len(w.turns[i].lines) <= 1) =>
            /\ draft.turns <= Cardinality(w.source)
            /\ summarizer = "structural" =>
                 Cardinality({x[1] : x \in draft.lines}) = draft.turns
  BY <1>2, <1>5, <1>8, <1>9, DraftIsRight
<1>11. ~Torn(w) => \A i \in w.source : Len(w.turns[i].lines) <= 1
  <2> SUFFICES ASSUME ~Torn(w), NEW i \in w.source
               PROVE  Len(w.turns[i].lines) <= 1
    OBVIOUS
  <2>1. PICK n : n = Len(w.turns[i].lines)
    OBVIOUS
  <2>2. n \in Nat /\ ~(n > 1)
    BY <1>5, <1>9, <2>1 DEF Torn, Conversation
  <2> QED
    BY <2>1, <2>2
<1>12. ASSUME draft.length > limit
       PROVE  GoodWindow(Ended(w, "failed", "summary too long"))
  BY <1>10, <1>12, FailedGood
<1>13. GoodWindow(Unsummarized(w))
  BY <1>1, UnsummarizedGood
<1>14. ASSUME ~Claimed(draft, w.source)
       PROVE  GoodWindow(Ended(w, "failed", "source turn count"))
  <2>1. Torn(w)
    BY <1>10, <1>11, <1>14 DEF Claimed
  <2> QED
    BY <2>1, FailedGood
<1>15. ASSUME Claimed(draft, w.source), ~(message.cost > Beside(w, w.kept))
       PROVE  GoodWindow(Assemble(w, w.kept, <<message>>))
  <2>1. PICK cost : cost = message.cost
    OBVIOUS
  <2>2. /\ cost = Header + draft.length + escapes /\ message.by = summarizer
        /\ message.turns = draft.turns /\ message.lines = draft.lines
        /\ message.included = Cardinality(w.source)
    BY <2>1
  <2>3. cost \in Nat
    BY <1>10, <2>2, ContextBuilderAssumption
  <2>4. cost + TurnCost(w.turns, w.kept) <= Room(w)
    BY <1>3, <1>6, <1>7, <1>15, <2>1, <2>3
  <2>5. SummaryOf(w, w.kept, message)
    <3>1. IsFiniteSet(1 .. Len(w.turns) - w.kept)
      <4>1. PICK m \in Nat : m = Len(w.turns) - w.kept
        BY <1>3, <1>5
      <4> QED
        BY <4>1, FS_Interval
    <3>2. Cardinality(w.source) <= Cardinality(1 .. Len(w.turns) - w.kept)
      BY <1>4, <3>1, FS_Subset
    <3>3. \A x \in message.lines : x[1] \in 1 .. Len(w.turns) - w.kept
      BY <1>4, <1>10, <2>2
    <3>4. message.by = "structural" /\ ~Torn(w) =>
            Cardinality({x[1] : x \in message.lines}) = message.turns
      BY <1>10, <1>11, <2>2
    <3> QED
      BY <1>15, <2>2, <3>2, <3>3, <3>4 DEF SummaryOf, Claimed
  <2>6. PICK summary : summary = <<message>>
    OBVIOUS
  <2>7. summary # <<>> /\ summary[1] = message
    BY <2>6
  <2>8. PICK n : n = w.kept
    OBVIOUS
  <2>9. /\ n \in Required(w.turns, w.budget) .. Len(w.turns)
        /\ cost = IF summary = <<>> THEN 0 ELSE summary[1].cost
        /\ cost + TurnCost(w.turns, n) <= Room(w) /\ summary # <<>>
        /\ SummaryOf(w, n, summary[1])
    BY <1>4, <2>1, <2>4, <2>5, <2>7, <2>8
  <2>10. GoodWindow(Assemble(w, n, summary))
    BY ONLY <1>1, <2>3, <2>9, AssembleGood
  <2> QED
    BY <2>6, <2>8, <2>10
<1>16. Answered(w, summarizer, escapes, draft) =
         IF draft.length > limit THEN Ended(w, "failed", "summary too long")
         ELSE IF draft.length = 0 THEN Unsummarized(w)
         ELSE IF ~Claimed(draft, w.source) THEN Ended(w, "failed", "source turn count")
         ELSE IF message.cost > Beside(w, w.kept) THEN Unsummarized(w)
         ELSE Assemble(w, w.kept, <<message>>)
  BY <1>2 DEF Answered
<1> HIDE DEF message
<1> QED
  BY <1>12, <1>13, <1>14, <1>15, <1>16
-----------------------------------------------------------------------------
(* The invariant.                                                          *)

LEMMA InvInit == Init => IInv
<1> SUFFICES ASSUME Init
             PROVE  IInv
  OBVIOUS
<1>1. fs \in InitialFiles /\ clock = 0 /\ load = NoLoad /\ window = Idle
  BY DEF Init, FilesInit, LoadInit
<1>2. FilesOK
  <2>1. fs \in [Paths -> Node] /\ IsTree(fs) /\ \A p \in Paths : fs[p].stamp = 0
    BY <1>1, WorkspaceFilesAssumption
  <2>2. \A p \in Paths : fs[p].kind = "regular" => fs[p].content \in Contents
    BY <2>1 DEF IsTree, Node
  <2> QED
    BY <1>1, <2>1, <2>2 DEF FilesOK
<1>3. LoadOK
  <2>1. load \in Loads
    BY <1>1, NoLoadType
  <2>2. /\ load.step = "none" /\ load.purpose = "instruction" /\ load.todo = {}
        /\ load.catalog = <<>> /\ load.instructions = <<>> /\ load.body = None
        /\ load.omitted = <<>> /\ load.aggregate = 0 /\ load.listed = 0
        /\ load.mandatory = FALSE
    BY <1>1 DEF NoLoad
  <2>3. ReadsOK /\ CatalogOK /\ BodyOK
    BY <2>2 DEF ReadsOK, CatalogOK, BodyOK, Reading
  <2>4. AdmittedOK
    BY <2>2 DEF AdmittedOK
  <2>5. LimitsOK
    BY <2>2, RepositoryLoaderAssumption DEF LimitsOK, Limits
  <2> QED
    BY <2>1, <2>3, <2>4, <2>5 DEF LoadOK
<1>4. WindowOK
  <2>1. Idle.step = "idle"
    BY DEF Idle
  <2>2. Fitting(Idle) /\ Honest(Idle)
    BY <2>1 DEF Fitting, Honest
  <2> QED
    BY <1>1, <2>1, <2>2, IdleShape DEF WindowOK, GoodWindow
<1> QED
  BY <1>2, <1>3, <1>4 DEF IInv

LEMMA SameFiles ==
    ASSUME FilesOK, UNCHANGED files
    PROVE  FilesOK'
BY DEF FilesOK, files

LEMMA SameLoad ==
    ASSUME LoadOK, UNCHANGED files, load' = load
    PROVE  LoadOK'
<1>1. clock' = clock /\ fs' = fs
  BY DEF files
<1> QED
  BY <1>1 DEF LoadOK, ReadsOK, CatalogOK, BodyOK, AdmittedOK, LimitsOK, Reading, FromCatalog,
       CataloguedAs, Old, Holds

\* What is loaded are resources of the buckets, and every transcript is a
\* conversation.
LEMMA LoadedProjectable ==
    ASSUME LoadOK
    PROVE  Projectable(Loaded)
<1>1. load \in Loads /\ (load.body # None => load.body \in Entries)
  BY DEF LoadOK, AdmittedOK
<1> DEFINE As(bucket, seq) == [i \in 1 .. Len(seq) |->
                                 [bucket |-> bucket, path |-> seq[i].path,
                                  size |-> Size[seq[i].content]]]
           Resource == [bucket : Buckets, path : Paths, size : Nat]
<1>2. ASSUME NEW bucket \in Buckets, NEW seq \in Seq(Entries)
      PROVE  As(bucket, seq) \in Seq(Resource)
  <2>1. Len(seq) \in Nat /\ \A i \in 1 .. Len(seq) : seq[i] \in Entries
    BY <1>2
  <2>2. \A i \in 1 .. Len(seq) : seq[i].path \in Paths /\ Size[seq[i].content] \in Nat
    BY <2>1, WorkspaceFilesAssumption DEF Entries
  <2>3. \A i \in 1 .. Len(seq) :
          [bucket |-> bucket, path |-> seq[i].path, size |-> Size[seq[i].content]] \in Resource
    BY <1>2, <2>2
  <2> QED
    BY <2>1, <2>3
<1>3. PICK a : a = As("instruction", load.instructions)
  OBVIOUS
<1>4. PICK b : b = As("catalog", load.catalog)
  OBVIOUS
<1>5. PICK c : c = IF load.body = None THEN <<>> ELSE As("body", <<load.body>>)
  OBVIOUS
<1>6. Loaded = a \o b \o c
  BY <1>3, <1>4, <1>5 DEF Loaded
<1> HIDE DEF As
<1>7. a \in Seq(Resource) /\ b \in Seq(Resource)
  BY <1>1, <1>2, <1>3, <1>4 DEF Loads, Buckets
<1>8. c \in Seq(Resource)
  <2>1. CASE load.body = None
    BY <1>5, <2>1
  <2>2. CASE load.body # None
    <3>1. <<load.body>> \in Seq(Entries)
      BY <1>1, <2>2
    <3> QED
      BY <1>2, <1>5, <2>2, <3>1 DEF Buckets
  <2> QED
    BY <2>1, <2>2
<1>9. Loaded \in Seq(Resource)
  <2> HIDE DEF Resource
  <2>1. a \o b \in Seq(Resource)
    BY <1>7, ConcatProperties
  <2> QED
    BY <1>6, <1>8, <2>1, ConcatProperties
<1> HIDE DEF Resource
<1>10. Len(Loaded) \in Nat /\ \A i \in 1 .. Len(Loaded) : Loaded[i] \in Resource
  BY <1>9
<1> USE DEF Resource
<1> QED
  BY <1>10 DEF Projectable

LEMMA Conversing ==
    ASSUME NEW t \in Transcripts
    PROVE  Conversation(t)
<1> DEFINE Turn == [cost : Nat, lines : Seq(Nat)]
<1>1. \A turn \in Turn : turn.cost \in Nat /\ turn.lines \in Seq(Nat)
  OBVIOUS
<1> HIDE DEF Turn
<1>0. t \in Seq(Turn) /\ t # <<>> /\ \A i \in 1 .. Len(t) : t[i].lines # <<>>
  BY ContextRunAssumption DEF Turn
<1>2. Len(t) \in Nat \ {0} /\ \A i \in 1 .. Len(t) : t[i] \in Turn
  BY <1>0
<1>3. ASSUME NEW i \in 1 .. Len(t)
      PROVE  /\ t[i].cost \in Nat /\ Len(t[i].lines) \in Nat \ {0}
             /\ \A l \in 1 .. Len(t[i].lines) : t[i].lines[l] \in Nat
  <2>1. t[i].cost \in Nat /\ t[i].lines \in Seq(Nat) /\ t[i].lines # <<>>
    BY <1>0, <1>1, <1>2
  <2>2. PICK lines \in Seq(Nat) : lines = t[i].lines
    BY <2>1
  <2>3. Len(lines) \in Nat \ {0} /\ \A l \in 1 .. Len(lines) : lines[l] \in Nat
    BY <2>1, <2>2
  <2> QED
    BY <2>1, <2>2, <2>3
<1> QED
  BY <1>2, <1>3 DEF Conversation

LEMMA InvNext == IInv /\ [Next]_vars => IInv'
<1> SUFFICES ASSUME FilesOK, LoadOK, WindowOK, [Next]_vars
             PROVE  IInv'
  BY DEF IInv
<1>1. CASE Loading
  <2>1. window' = window /\ UNCHANGED files
    BY <1>1 DEF Loading, Load, Unaltered, CollectInstructions, CollectSkills, SelectBody,
         Open, Take, Admit
  <2>2. FilesOK'
    BY <2>1, SameFiles
  <2>3. LoadOK'
    BY <1>1, CollectInstructionsKeeps, CollectSkillsKeeps, SelectBodyKeeps, OpenKeeps,
       TakeKeeps, AdmitKeeps DEF Loading, Load
  <2>4. WindowOK'
    BY <2>1 DEF WindowOK
  <2> QED
    BY <2>2, <2>3, <2>4 DEF IInv
<1>2. CASE Edit
  <2>1. PICK p \in Editable : Change(p)
    BY <1>2 DEF Edit
  <2>2. load' = load /\ window' = window
    BY <1>2 DEF Edit
  <2>3. /\ FilesOK' /\ clock' = clock + 1
        /\ \A q \in Paths : fs'[q] = fs[q] \/ fs'[q].stamp = clock + 1
    BY <2>1, ChangeKeeps
  <2>4. LoadOK'
    BY <2>2, <2>3, EditKeepsLoad
  <2>5. WindowOK'
    BY <2>2 DEF WindowOK
  <2> QED
    BY <2>3, <2>4, <2>5 DEF IInv
<1>3. ASSUME UNCHANGED <<files, load>>, WindowOK'
      PROVE  IInv'
  BY <1>3, SameFiles, SameLoad DEF IInv
<1>4. ASSUME NEW t \in Transcripts, NEW prompt \in Prompts, NEW budget \in Budgets,
             NEW resources, Projectable(resources), NEW recall, recall # None => RecallOK(recall),
             window' = Project(t, prompt, budget, resources, recall)
      PROVE  WindowOK'
  <2>1. Conversation(t) /\ prompt \in Nat /\ budget \in Budget
    BY Conversing, ContextRunAssumption
  <2>2. GoodWindow(window')
    BY <1>4, <2>1, ProjectGood
  <2> QED
    BY <2>2 DEF WindowOK
<1>5. CASE BuildForCoding
  <2>1. PICK t \in Transcripts, prompt \in Prompts, budget \in Budgets :
          window' = Project(t, prompt, budget, Loaded, None)
    BY <1>5 DEF BuildForCoding
  <2>2. UNCHANGED <<files, load>>
    BY <1>5 DEF BuildForCoding, Frame
  <2> QED
    BY <1>3, <1>4, <2>1, <2>2, LoadedProjectable
<1>6. CASE BuildForSession
  <2>1. PICK t \in Transcripts, prompt \in Prompts, budget \in Budgets,
             m \in Memories, request \in Requests :
          window' = Project(t, prompt, budget, <<>>,
                            IF m = None THEN None ELSE Select(m, request))
    BY <1>6 DEF BuildForSession
  <2>2. UNCHANGED <<files, load>>
    BY <1>6 DEF BuildForSession, Frame
  <2>3. Projectable(<<>>)
    BY DEF Projectable
  <2>4. PICK recall : recall = IF m = None THEN None ELSE Select(m, request)
    OBVIOUS
  <2>5. recall # None => RecallOK(recall)
    <3> HAVE recall # None
    <3>1. m # None /\ recall = Select(m, request)
      BY <2>4
    <3>2. Recallable(m) /\ Askable(request)
      BY <2>1, <3>1, ContextRunAssumption DEF Recallable, Askable
    <3> QED
      BY <3>1, <3>2, SelectIsRight
  <2>6. window' = Project(t, prompt, budget, <<>>, recall)
    BY <2>1, <2>4
  <2> QED
    BY <1>3, <1>4, <2>2, <2>3, <2>5, <2>6
<1>7. CASE Summarize
  <2>1. UNCHANGED <<files, load>> /\ window.step = "summary"
    BY <1>7 DEF Summarize, Frame
  <2>2. PICK summarizer \in Summarizers, escapes \in Escapes :
          \E draft \in Drafts(summarizer, window.turns, window.source, SummaryLimit(window)) :
             window' = Answered(window, summarizer, escapes, draft)
    BY <1>7 DEF Summarize
  <2>3. PICK draft \in Drafts(summarizer, window.turns, window.source, SummaryLimit(window)) :
          window' = Answered(window, summarizer, escapes, draft)
    BY <2>2
  <2>4. GoodWindow(window')
    BY <2>1, <2>3, AnsweredGood DEF WindowOK
  <2> QED
    BY <1>3, <2>1, <2>4 DEF WindowOK
<1>8. CASE SummarizerFails
  <2>1. /\ UNCHANGED <<files, load>> /\ "model" \in Summarizers
        /\ window' = Ended(window, "failed", "provider")
    BY <1>8 DEF SummarizerFails, Frame
  <2>2. GoodWindow(window')
    BY <2>1, FailedGood DEF WindowOK
  <2> QED
    BY <1>3, <2>1, <2>2 DEF WindowOK
<1>9. CASE UNCHANGED vars
  <2>1. UNCHANGED <<files, load>> /\ window' = window
    BY <1>9 DEF vars
  <2> QED
    BY <1>3, <2>1 DEF WindowOK
<1> QED
  BY <1>1, <1>2, <1>5, <1>6, <1>7, <1>8, <1>9 DEF Next, Done

\* The files, what is read of them and the window, in every state.
THEOREM Inductive == Spec => []IInv
BY InvInit, InvNext, PTL DEF Spec

LEMMA InvType == IInv => TypeOK
<1> SUFFICES ASSUME IInv
             PROVE  TypeOK
  OBVIOUS
<1>1. load \in Loads /\ LimitsOK
  BY DEF IInv, LoadOK
<1>2. load.step \in Steps /\ load.purpose \in Purposes
  BY <1>1 DEF Loads
<1> QED
  BY <1>1, <1>2 DEF IInv, TypeOK, FilesOK, LimitsOK, WindowOK, GoodWindow, WindowShape, Steps

\* A load keeps its limits, and a window keeps at most the turns there are
\* (RepositoryContextLoader.load, ContextBuilder.build).
THEOREM TypeCorrect == Spec => []TypeOK
BY Inductive, InvType, PTL

LEMMA HeldConcat ==
    ASSUME NEW s \in Seq(Entries), NEW t \in Seq(Entries),
           \A i \in 1 .. Len(s) : s[i].held = s[i].content,
           \A i \in 1 .. Len(t) : t[i].held = t[i].content
    PROVE  /\ s \o t \in Seq(Entries)
           /\ \A i \in 1 .. Len(s \o t) : (s \o t)[i].held = (s \o t)[i].content
<1>1. /\ s \o t \in Seq(Entries) /\ Len(s \o t) = Len(s) + Len(t)
      /\ \A i \in 1 .. Len(s) + Len(t) :
           (s \o t)[i] = IF i <= Len(s) THEN s[i] ELSE t[i - Len(s)]
  BY ConcatProperties
<1>2. Len(s) \in Nat /\ Len(t) \in Nat
  OBVIOUS
<1>3. ASSUME NEW i \in 1 .. Len(s) + Len(t)
      PROVE  (s \o t)[i].held = (s \o t)[i].content
  <2>1. CASE i <= Len(s)
    <3>1. i \in 1 .. Len(s) /\ (s \o t)[i] = s[i]
      BY <1>1, <1>2, <2>1
    <3> QED
      BY <3>1
  <2>2. CASE ~(i <= Len(s))
    <3>1. i - Len(s) \in 1 .. Len(t)
      BY <1>2, <2>2
    <3>2. (s \o t)[i] = t[i - Len(s)]
      BY <1>1, <2>2
    <3> QED
      BY <3>1, <3>2
  <2> QED
    BY <2>1, <2>2
<1> QED
  BY <1>1, <1>3

LEMMA InvLoaded == IInv => LoadedAsIs
<1> SUFFICES ASSUME IInv
             PROVE  LoadedAsIs
  OBVIOUS
<1>1. load \in Loads /\ CatalogOK /\ AdmittedOK
  BY DEF IInv, LoadOK
<1>2. PICK tail : tail = IF load.body = None THEN <<>> ELSE <<load.body>>
  OBVIOUS
<1>3. tail \in Seq(Entries) /\ \A i \in 1 .. Len(tail) : tail[i].held = tail[i].content
  BY <1>1, <1>2 DEF AdmittedOK
<1>4. PICK all : all = load.instructions \o load.catalog \o tail
  OBVIOUS
<1>5. load.instructions \in Seq(Entries) /\ load.catalog \in Seq(Entries)
  BY <1>1 DEF Loads
<1>6. \A i \in 1 .. Len(all) : all[i].held = all[i].content
  <2>1. PICK front : front = load.instructions \o load.catalog
    OBVIOUS
  <2>2. front \in Seq(Entries) /\ \A i \in 1 .. Len(front) : front[i].held = front[i].content
    BY <1>1, <1>5, <2>1, HeldConcat DEF AdmittedOK
  <2> QED
    BY <1>3, <1>4, <2>1, <2>2, HeldConcat
<1>7. \A i, j \in 1 .. Len(load.catalog) : load.catalog[i].key = load.catalog[j].key => i = j
  BY <1>1 DEF CatalogOK
<1> QED
  BY <1>1, <1>2, <1>4, <1>6, <1>7 DEF LoadedAsIs, AdmittedOK

\* What a load returns is what the files held when it was admitted, although
\* others write while it reads: instructions, catalog and body, the body of the
\* very entry that was asked for, and no mandatory instruction is left out.
THEOREM LoadsAreTrue == Spec => []LoadedAsIs
BY Inductive, InvLoaded, PTL

\* Whatever is loaded, recalled and said so far, and whatever the summarizer
\* answers, a window that is built fits its budget, ends with the required
\* turns, and leaves out no turn, resource or record there is still room for;
\* only a prompt and required turns that are too large by themselves overflow,
\* so the last check never does (ContextBuilder.build, MemorySelector.select).
THEOREM WindowsFit == Spec => []WindowFits
<1>1. IInv => WindowFits
  BY DEF IInv, WindowOK, GoodWindow, WindowFits
<1> QED
  BY <1>1, Inductive, PTL

\* A summary stands for turns that are left out and counts no more of them than
\* it was given; a build fails over that count only when a record has a line
\* separator in it, and over the length only for a model's summary
\* (StructuralContextSummarizer.summarize, ContextBuilder._summarize).
THEOREM SummariesAreHonest == Spec => []SummaryIsHonest
<1>1. IInv => SummaryIsHonest
  BY DEF IInv, WindowOK, GoodWindow, SummaryIsHonest
<1> QED
  BY <1>1, Inductive, PTL
===============================================================================
