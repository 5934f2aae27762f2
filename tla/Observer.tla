------------------------------ MODULE Observer ------------------------------
(***************************************************************************)
(* WorkspaceObserver (src/dqagent/workspace.py): a bounded capture of the  *)
(* workspace, entry by entry, while others change it, and the diff of two  *)
(* captures.                                                               *)
(*                                                                         *)
(* A capture is a walk: a stack of directories, each listed once and then  *)
(* visited in order.  What it cannot see (a rule excludes it, a limit is   *)
(* reached, it is a link, an operation fails, the run is stopped) becomes  *)
(* a blind spot, and the diff may only speak of what no blind spot hides.  *)
(*                                                                         *)
(* A digest stands for the content it is the digest of.  A directory is    *)
(* listed in one step and a file read in one step; entries whose name is   *)
(* not UTF-8, and the rendered text of a diff, are left out.               *)
(***************************************************************************)
EXTENDS WorkspaceFiles, Sequences, SequencesExt

CONSTANTS Order,       \* Order[p]: the rank of _logical_key among siblings
          LimitChoices,\* WorkspaceLimits: [entries, file, total]
          Stops,       \* reasons that may end a capture early
          MaxFaults    \* bound: operations that fail and captures that are stopped

\* WorkspaceLimits, as its constructor accepts them.
Limits == [entries : Nat \ {0}, file : Nat \ {0}, total : Nat \ {0}]

\* These reasons leave an entry itself in place: only its content, or what is
\* below a link, is unknown.
ContentReasons == {"per_file_bytes_limit", "aggregate_bytes_limit", "link_not_followed",
                   "unsupported_kind", "content_changed_during_read"}

\* WorkspaceBlindSpotReason.
Reasons == ContentReasons \cup ExclusionReasons
             \cup {"entries_limit", "filesystem_error", "elapsed_limit", "cancelled"}

ASSUME ObserverAssumption ==
    /\ Order \in [Paths -> Nat] /\ MaxFaults \in Nat
    /\ Stops \subseteq {"elapsed_limit", "cancelled"}
    /\ LimitChoices \subseteq Limits /\ None \notin Reasons

VARIABLES limits,      \* the scope's limits
          faults,      \* how many have failed or been stopped so far
          stack,       \* _walk_directory's frames: directory, listed?, todo
          entries,     \* the entries observed so far, by path
          blind,       \* the blind spots so far
          observed,    \* observed_bytes
          stopped,     \* _ObservationState.stop_reason
          reading,     \* the file _observe_regular_file is about to read
          start,       \* history: the workspace when this capture began
          disturbed    \* history: what others may have changed since then

capture == <<stack, entries, blind, observed, stopped, reading, start, disturbed>>

-----------------------------------------------------------------------------
Spot(p, reason, subtree) ==
    [path |-> p, reason |-> reason, subtree |-> subtree, aggregate |-> FALSE]

Entry(kind, size, digest) == [kind |-> kind, size |-> size, digest |-> digest]

View(p) == [kind |-> fs[p].kind, content |-> fs[p].content, size |-> SizeOf(p)]

Fault == faults < MaxFaults /\ faults' = faults + 1
NoFault == faults' = faults

\* _stop_reason: the first reason stays.
MayStop == IF stopped = None THEN Stops ELSE {stopped}
StopsFor(why) == stopped' = why /\ IF why = stopped THEN NoFault ELSE Fault
GoesOn == stopped = None

Frame(d) == [dir |-> d, listed |-> FALSE, todo |-> <<>>]
Pop == SubSeq(stack, 1, Len(stack) - 1)
Step == [stack EXCEPT ![Len(stack)].todo = Tail(@)]

\* Leave a frame, or go on to the next candidate, with one more blind spot.
Abandon(spots) == /\ stack' = Pop
                  /\ blind' = blind \cup spots
                  /\ UNCHANGED <<entries, observed, reading>>

Idle == <<>>

CaptureInit ==
    /\ limits \in LimitChoices /\ faults = 0
    /\ stack = Idle /\ entries = <<>> /\ blind = {} /\ observed = 0
    /\ stopped = None /\ reading = None
    /\ start = [p \in Paths |-> View(p)] /\ disturbed = {}

\* capture: a fresh _ObservationState; a root that cannot be resolved is one
\* blind spot over everything.
BeginCapture ==
    /\ entries' = <<>> /\ observed' = 0 /\ stopped' = None /\ reading' = None
    /\ start' = [p \in Paths |-> View(p)] /\ disturbed' = {}
    /\ \/ NoFault /\ stack' = <<Frame(Root)>> /\ blind' = {}
       \/ /\ Fault /\ stack' = Idle
          /\ blind' = {Spot(Root, "filesystem_error", TRUE)}
    /\ UNCHANGED limits

-----------------------------------------------------------------------------
(* Listing a directory.                                                    *)

HiddenIn(d) == {p \in Children(d) : Present(p) /\ Hidden[p] # None}
Candidates(d) == {p \in Children(d) : Present(p) /\ Hidden[p] = None}

\* The order in which they are visited.
Orderings(d) ==
    {s \in [1 .. Cardinality(Candidates(d)) -> Candidates(d)] :
        /\ ToSet(s) = Candidates(d)
        /\ \A i, j \in DOMAIN s : i < j => Order[s[i]] <= Order[s[j]]}

\* _add_explicit_blind_spot over the excluded children seen: the first of a
\* reason by its path, the others by one aggregate spot on the directory.
\* scandir's order is arbitrary, so any of them may be the first.
HiddenSpots(d, seen) ==
    LET reasons == {Hidden[p] : p \in seen}
        Of(r) == {p \in seen : Hidden[p] = r}
    IN  {UNION {{Spot(first[r], r, TRUE)}
                  \cup (IF Cardinality(Of(r)) > 1
                        THEN {[Spot(d, r, FALSE) EXCEPT !.aggregate = TRUE]} ELSE {})
                : r \in reasons} :
         first \in {f \in [reasons -> seen] : \A r \in reasons : f[r] \in Of(r)}}

List ==
    /\ stack # Idle /\ reading = None /\ ~Last(stack).listed
    /\ LET d == Last(stack).dir
           available == limits.entries - Cardinality(DOMAIN entries)
       IN  \/ \E why \in MayStop, seen \in SUBSET HiddenIn(d) :
                /\ StopsFor(why)
                /\ \E spots \in HiddenSpots(d, seen) : Abandon(spots \cup {Spot(d, why, TRUE)})
           \/ /\ GoesOn /\ available <= 0 /\ NoFault
              /\ Abandon({Spot(d, "entries_limit", TRUE)})
              /\ UNCHANGED stopped
           \/ /\ GoesOn /\ available > 0
              /\ IF fs[d].kind = "directory" THEN Fault ELSE NoFault
              /\ \E seen \in SUBSET HiddenIn(d) : \E spots \in HiddenSpots(d, seen) :
                    Abandon(spots \cup {Spot(d, "filesystem_error", TRUE)})
              /\ UNCHANGED stopped
           \/ /\ GoesOn /\ available > 0 /\ fs[d].kind = "directory" /\ NoFault
              /\ \E ordered \in Orderings(d), spots \in HiddenSpots(d, HiddenIn(d)) :
                    LET fits == Len(ordered) <= available
                    IN  /\ stack' = [stack EXCEPT ![Len(stack)] =
                             [dir |-> d, listed |-> TRUE,
                              todo |-> IF fits THEN ordered ELSE SubSeq(ordered, 1, available)]]
                        /\ blind' = blind \cup spots \cup
                             (IF fits THEN {} ELSE {Spot(d, "entries_limit", TRUE)})
              /\ UNCHANGED <<entries, observed, reading, stopped>>
    /\ UNCHANGED <<limits, start, disturbed>>

-----------------------------------------------------------------------------
(* Visiting the candidates of a listed directory.                          *)

Add(p, entry) ==
    entries' = [q \in DOMAIN entries \cup {p} |-> IF q = p THEN entry ELSE entries[q]]

\* Mutant of Full: the limit is only looked at when a directory is entered.
NeverFull == FALSE
\* The entries of a subdirectory count against the limit of its parent's rest.
Full == Cardinality(DOMAIN entries) >= limits.entries

\* Why the content of a file of this size is not read, if it is not.
LimitSpot(size) ==
    IF size > limits.file THEN "per_file_bytes_limit"
    ELSE IF size > limits.total - observed THEN "aggregate_bytes_limit"
    ELSE None

\* An entry whose content is not observed, and why.
VisitUnread(p) ==
    LET kind == fs[p].kind
        why == CASE kind = "link" -> "link_not_followed"
                 [] kind = "other" -> "unsupported_kind"
                 [] OTHER -> LimitSpot(SizeOf(p))
    IN  /\ kind \in {"link", "other", "regular"} /\ why # None
        /\ Add(p, Entry(kind, SizeOf(p), None))
        /\ blind' = blind \cup {Spot(p, why, kind = "link")}
        /\ stack' = Step
        /\ UNCHANGED <<observed, reading>>

Visit ==
    /\ stack # Idle /\ reading = None /\ Last(stack).listed /\ Last(stack).todo # <<>>
    /\ LET d == Last(stack).dir
           p == Head(Last(stack).todo)
       IN  \/ \E why \in MayStop : StopsFor(why) /\ Abandon({Spot(d, why, TRUE)})
           \/ /\ GoesOn /\ Full /\ NoFault
              /\ Abandon({Spot(d, "entries_limit", TRUE)})
              /\ UNCHANGED stopped
           \/ /\ GoesOn /\ ~Full
              /\ IF Present(p) THEN Fault ELSE NoFault
              /\ stack' = Step
              /\ blind' = blind \cup {Spot(p, "filesystem_error", TRUE)}
              /\ UNCHANGED <<entries, observed, reading, stopped>>
           \/ /\ GoesOn /\ ~Full /\ fs[p].kind = "directory" /\ NoFault
              /\ Add(p, Entry("directory", SizeOf(p), None))
              /\ stack' = Append(Step, Frame(p))
              /\ UNCHANGED <<blind, observed, reading, stopped>>
           \/ GoesOn /\ ~Full /\ NoFault /\ VisitUnread(p) /\ UNCHANGED stopped
           \/ /\ GoesOn /\ ~Full /\ fs[p].kind = "regular" /\ NoFault
              /\ LimitSpot(SizeOf(p)) = None
              /\ reading' = [path |-> p, size |-> SizeOf(p)]
              /\ UNCHANGED <<stack, entries, blind, observed, stopped>>
    /\ UNCHANGED <<limits, start, disturbed>>

\* The candidates of a directory are done.
Ascend ==
    /\ stack # Idle /\ reading = None /\ Last(stack).listed /\ Last(stack).todo = <<>>
    /\ stack' = Pop
    /\ UNCHANGED <<limits, faults, entries, blind, observed, stopped, reading, start, disturbed>>

\* What opening p finds: a link put there meanwhile is followed, to any content.
Found(p) ==
    CASE fs[p].kind = "regular" -> {fs[p].content}
      [] fs[p].kind = "link" -> Contents
      [] OTHER -> {}

\* After the stat of Visit at most the size seen then is read, and a size or
\* kind that differs is content that changed.
ReadFile ==
    /\ reading # None
    /\ LET p == reading.path
           bytes(c) == IF Size[c] < reading.size THEN Size[c] ELSE reading.size
           Seen(digest, spots) == /\ Add(p, Entry("regular", reading.size, digest))
                                  /\ blind' = blind \cup spots
       IN  \/ \E why \in MayStop :
                /\ StopsFor(why) /\ Seen(None, {Spot(p, why, FALSE)})
                /\ observed' \in {observed} \cup {observed + bytes(c) : c \in Found(p)}
           \/ /\ IF fs[p].kind = "regular" THEN Fault ELSE fs[p].kind # "other" /\ NoFault
              /\ Seen(None, {Spot(p, "filesystem_error", FALSE)})
              /\ UNCHANGED <<observed, stopped>>
           \/ \E c \in Found(p) :
                /\ NoFault
                /\ observed' = observed + bytes(c)
                /\ IF Size[c] = reading.size THEN Seen(c, {})
                   ELSE Seen(None, {Spot(p, "content_changed_during_read", FALSE)})
                /\ UNCHANGED stopped
    /\ stack' = Step /\ reading' = None
    /\ UNCHANGED <<limits, start, disturbed>>

Walk == List \/ Visit \/ Ascend \/ ReadFile

-----------------------------------------------------------------------------
(* The snapshot of a finished walk, and the diff of two.                   *)

\* _merge_blind_spots: one spot for a path, a reason and an aggregate flag;
\* the one over the subtree wins.
Merge(spots) ==
    {s \in spots : s.subtree \/ [s EXCEPT !.subtree = TRUE] \notin spots}

\* The last stop check, and a stop that left no blind spot behind.
Snapshot(why) ==
    [entries |-> entries, start |-> start, disturbed |-> disturbed, bytes |-> observed,
     blind |-> Merge(blind \cup IF why \in {None} \cup {s.reason : s \in blind} THEN {}
                                ELSE {Spot(Root, why, TRUE)})]

Intersects(p, spot) ==
    \/ p = spot.path
    \/ (spot.subtree /\ Within(p, spot.path))
    \/ Within(spot.path, p)

\* _summary_matches_path: an aggregate spot hides every path its rule excludes.
SummaryMatches(reason, p) == \E q \in Above[p] : Hidden[q] = reason

ScopeIsClear(spots, paths) ==
    /\ paths # {}
    /\ \A p \in paths, s \in spots :
         ~ IF s.aggregate THEN \/ p = s.path \/ Within(s.path, p)
                               \/ SummaryMatches(s.reason, p)
           ELSE Intersects(p, s)

ExistenceIsClear(spots, p) ==
    \A s \in spots :
      IF s.reason \in ContentReasons
      THEN ~(s.subtree /\ s.path # p /\ Within(p, s.path))
      ELSE ~(s.path = p \/ (s.subtree /\ Within(p, s.path)))

\* Mutant of BothClear: a path missing from one capture is only looked for in
\* the blind spots of the other.
FinalClear(p, b, f) == ExistenceIsClear(f.blind, p)
BothClear(p, b, f) == ExistenceIsClear(b.blind, p) /\ ExistenceIsClear(f.blind, p)

\* _compare_entries.
Changes(b, f) ==
    LET before == DOMAIN b.entries
        after == DOMAIN f.entries
        Change_(p, kind) == [path |-> p, kind |-> kind]
        both == before \cap after
        Retyped(p) == b.entries[p].kind # f.entries[p].kind
        Resized(p) == b.entries[p].size # f.entries[p].size
        Rewritten(p) == /\ None \notin {b.entries[p].digest, f.entries[p].digest}
                        /\ b.entries[p].digest # f.entries[p].digest
    IN  {Change_(p, "create") : p \in {q \in after \ before : BothClear(q, b, f)}}
        \cup {Change_(p, "delete") : p \in {q \in before \ after : BothClear(q, b, f)}}
        \cup {Change_(p, "type_change") : p \in {q \in both : Retyped(q)}}
        \cup {Change_(p, "modify") :
                p \in {q \in both : ~Retyped(q) /\ (Resized(q) \/ Rewritten(q))}}

DiffBlind(b, f) == Merge(b.blind \cup f.blind)

\* _build_diff_completeness: without targets everything has to be clear.
TargetComplete(b, f, targets) ==
    LET spots == DiffBlind(b, f)
    IN  IF targets = {} THEN spots = {} ELSE ScopeIsClear(spots, targets)
=============================================================================
