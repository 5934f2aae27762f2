-------------------------- MODULE WorkspaceProofs --------------------------
(***************************************************************************)
(* What holds of every workspace, every tree of paths and every set of     *)
(* rules and limits, while an editor changes files at any moment and       *)
(* operations fail: the types and the limits of a capture, that a patch    *)
(* says truly what it did and destroys nothing it was not shown, and that  *)
(* the diff of two captures is exact where it claims to be.                *)
(*                                                                         *)
(* The heart of the last is Covered: at every moment of a walk, whatever   *)
(* was there when the capture began and has been left alone since is an    *)
(* entry, or hidden by a blind spot, or still to be visited by a frame of  *)
(* the stack.                                                              *)
(***************************************************************************)
EXTENDS Workspace, FiniteSetTheorems, SequenceTheorems, TLAPS

----------------------------------------------------------------------------
(* The inductive invariant *)

Executing == {"recheck", "temp", "write", "replace", "open", "fill", "remove"}
OfUpdate == {"temp", "write", "replace"}
Destroying == OfUpdate \cup {"remove"}

\* Which steps belong to which operation, and what the call knows at each.
CallOK ==
    /\ call.step # "returned" =>
         /\ call.lost = None /\ ~call.left
         /\ call.did = IF call.step = "fill" THEN "opened" ELSE "nothing"
    /\ call.step \notin {"none", "returned"} => call.operation # "none"
    /\ call.step \in {"read", "recheck"} => call.operation \in {"update", "delete"}
    /\ call.step \in {"open", "fill"} => call.operation = "create"
    /\ call.step \in OfUpdate => call.operation = "update"
    /\ call.step = "remove" => call.operation = "delete"
    /\ call.step \in {"read", "confirm", "recheck"} =>
         /\ call.resolved \in Signature
         /\ call.operation # "create" => ~call.resolved.missing /\ call.resolved.target <= clock
    /\ call.step \in Executing => call.raw = call.expected
    /\ call.step \in {"recheck"} \cup OfUpdate /\ call.operation = "update" =>
         call.raw \in Contents /\ Patched[call.raw] \in Contents

\* The file whose signature was taken holds the bytes that were read.
ReadIsOfResolved ==
    /\ call.step \in {"confirm", "recheck"} /\ call.operation # "create"
    /\ Present(Target) /\ fs[Target].stamp = call.resolved.target
    => call.raw = fs[Target].content

\* From the last revalidation on, the target is what the call expects or newer.
ExpectedOrNewer ==
    call.step \in Destroying =>
      /\ call.checkedAt <= clock
      /\ \/ fs[Target].kind = "regular" /\ fs[Target].content = call.expected
         \/ fs[Target].stamp > call.checkedAt

\* A file the call made is its own as long as it has the stamp it was made with.
HandleIsOwn ==
    /\ call.step = "write" =>
         /\ call.handle \in Nat /\ call.handle <= clock
         /\ fs[Temp].stamp = call.handle => fs[Temp].kind = "regular"
         /\ Present(Temp) => fs[Temp].stamp = call.handle
    /\ call.step = "replace" /\ Present(Temp) => fs[Temp].content = Patched[call.expected]
    /\ call.step = "fill" =>
         /\ call.handle \in Nat /\ call.handle <= clock
         /\ fs[Target].stamp = call.handle => fs[Target].kind = "regular"

\* Only the call makes the temporary file.
TempIsOurs ==
    /\ phase # "patch" => call = NoCall
    /\ phase \in {"begin", "baseline", "patch"} /\ Present(Temp) =>
         call.step \in {"write", "replace"} \/ (call.step = "returned" /\ call.left)

-----------------------------------------------------------------------------
SpotSet == [path : Paths, reason : Reasons, subtree : BOOLEAN, aggregate : BOOLEAN]
SpotsOK(spots) == \A s \in spots : s.aggregate => ~s.subtree /\ s.reason \in ExclusionReasons

Views == [kind : Kinds, content : Contents \cup {None}, size : Nat]
EntrySet == [kind : Kinds \ {"missing"}, size : Nat, digest : Contents \cup {None}]

\* What a view shows of a node that is neither a file nor a directory.
ViewsOK(views) ==
    \A p \in Paths :
      /\ views[p].content # None <=> views[p].kind = "regular"
      /\ views[p].kind \in {"missing", "link", "other"} => views[p].size = 1

\* An entry of a path no one changed is true of it.
Sound(seen, views, changed) ==
    \A p \in DOMAIN seen \ changed :
      /\ seen[p].kind = views[p].kind /\ seen[p].size = views[p].size
      /\ seen[p].digest \in {None, views[p].content}

\* No path above p, p included, is excluded.
Visible(p) == \A a \in Above[p] \ {Root} : Hidden[a] = None

\* A file whose content was not read has a blind spot that says so.
UnreadIsBlind(seen, spots) ==
    \A p \in DOMAIN seen :
      seen[p].kind = "regular" /\ seen[p].digest = None =>
        \E s \in spots : s.path = p /\ ~s.aggregate

\* A blind spot that may hide the entry of p.
Hides(s, p) ==
    IF s.aggregate THEN \E a \in Above[p] \ {Root} : Hidden[a] = s.reason
    ELSE IF s.reason \in ContentReasons THEN s.subtree /\ s.path # p /\ Within(p, s.path)
    ELSE s.path = p \/ (s.subtree /\ Within(p, s.path))

Known(p, seen, spots) == p \in DOMAIN seen \/ \E s \in spots : Hides(s, p)

\* Frame f will come to p: it has yet to list a directory above p, or to visit
\* p or a directory above it.
WillVisit(f, p) ==
    IF f.listed THEN \E i \in 1 .. Len(f.todo) : f.todo[i] \in Above[p]
    ELSE f.dir # p /\ f.dir \in Above[p]

FrameSet == [dir : Paths, listed : BOOLEAN, todo : Seq(Paths)]
FrameOK(f) ==
    /\ Visible(f.dir)
    /\ \A i \in 1 .. Len(f.todo) : /\ f.todo[i] \in Children(f.dir)
                                   /\ Hidden[f.todo[i]] = None

CaptureTypeOK ==
    /\ stack \in Seq(FrameSet)
    /\ DOMAIN entries \subseteq Paths /\ \A p \in DOMAIN entries : entries[p] \in EntrySet
    /\ blind \subseteq SpotSet /\ observed \in Nat
    /\ start \in [Paths -> Views]
    /\ reading # None => reading \in [path : Paths, size : Nat]

\* The walk as such.
WalkOK ==
    /\ \A i \in 1 .. Len(stack) : FrameOK(stack[i])
    /\ \A p \in DOMAIN entries : Visible(p)
    /\ SpotsOK(blind) /\ UnreadIsBlind(entries, blind)
    /\ reading # None =>
         /\ stack # Idle /\ Last(stack).listed /\ Last(stack).todo # <<>>
         /\ reading.path = Head(Last(stack).todo)
         /\ Cardinality(DOMAIN entries) < limits.entries
         /\ observed + reading.size <= limits.total
    /\ ~Capturing => stack = Idle /\ reading = None

\* What the walk knows of the workspace as it was when the capture began.
Undisturbed ==
    \A p \in Paths \ disturbed :
      /\ View(p) = start[p]
      /\ \A a \in Above[p] : fs[a].kind = start[a].kind
ReadingIsRegular ==
    reading # None =>
      /\ \A p \in Paths \ disturbed :
           reading.path \in Above[p] => start[reading.path].kind = "regular"
      /\ reading.path \notin disturbed => reading.size = start[reading.path].size
Covered ==
    \A p \in Paths \ ({Root} \cup disturbed) :
      start[p].kind # "missing" =>
        Known(p, entries, blind) \/ \E i \in 1 .. Len(stack) : WillVisit(stack[i], p)

CaptureOK ==
    Capturing =>
      /\ ViewsOK(start) /\ Undisturbed /\ Sound(entries, start, disturbed)
      /\ ReadingIsRegular /\ Covered

\* What a snapshot is worth.
Good(s) ==
    /\ DOMAIN s.entries \subseteq Paths /\ s.blind \subseteq SpotSet
    /\ \A p \in DOMAIN s.entries : s.entries[p] \in EntrySet /\ Visible(p)
    /\ s.start \in [Paths -> Views]
    /\ SpotsOK(s.blind) /\ UnreadIsBlind(s.entries, s.blind) /\ ViewsOK(s.start)
    /\ Sound(s.entries, s.start, s.disturbed)
    /\ \A p \in Paths \ ({Root} \cup s.disturbed) :
         s.start[p].kind # "missing" => Known(p, s.entries, s.blind)

SnapshotsOK ==
    /\ DOMAIN snapshots = {"baseline", "final"}
    /\ phase \in {"patch", "final", "compared"} => Good(snapshots.baseline)
    /\ phase = "compared" => Good(snapshots.final)
----------------------------------------------------------------------------
(* Paths *)

\* The set of which Above[p] is the least.
Closed(S) == \A r \in S \ {Root} : Parent[r] \in S

LEMMA AboveLeast ==
  ASSUME NEW p \in Paths, NEW S \in SUBSET Paths, p \in S, Closed(S)
  PROVE  Above[p] \subseteq S
  BY DEF Above, Closed

LEMMA AboveIsClosed ==
  ASSUME NEW p \in Paths
  PROVE  /\ p \in Above[p] /\ Above[p] \subseteq Paths /\ Closed(Above[p])
         /\ Root \in Above[p]
<1>1. Above[p] = {q \in Paths : \A S \in SUBSET Paths :
                    /\ p \in S
                    /\ \A r \in S \ {Root} : Parent[r] \in S
                    => q \in S}
  BY DEF Above
<1>2. p \in Above[p] /\ Above[p] \subseteq Paths
  BY <1>1
<1>3. ASSUME NEW r \in Above[p] \ {Root} PROVE Parent[r] \in Above[p]
  <2>1. Parent[r] \in Paths
    BY <1>2, WorkspaceFilesAssumption
  <2>2. ASSUME NEW S \in SUBSET Paths, p \in S, \A q \in S \ {Root} : Parent[q] \in S
        PROVE  Parent[r] \in S
    BY <1>1, <2>2
  <2> QED
    BY <1>1, <2>1, <2>2
<1> QED
  BY <1>2, <1>3, WorkspaceFilesAssumption DEF Closed

LEMMA AboveTransitive ==
  ASSUME NEW p \in Paths, NEW q \in Above[p]
  PROVE  q \in Paths /\ Above[q] \subseteq Above[p]
  BY AboveIsClosed, AboveLeast

LEMMA AboveRoot == Above[Root] = {Root}
<1>1. Root \in Paths
  BY WorkspaceFilesAssumption
<1>2. Above[Root] \subseteq {Root}
  BY <1>1, AboveLeast DEF Closed
<1> QED
  BY <1>1, <1>2, AboveIsClosed

\* What is above p is p or above its parent.
LEMMA AboveParent ==
  ASSUME NEW p \in Paths \ {Root}
  PROVE  Parent[p] \in Paths /\ Above[p] = {p} \cup Above[Parent[p]]
<1>1. Parent[p] \in Above[p] /\ Above[p] \subseteq Paths /\ p \in Above[p]
  BY AboveIsClosed DEF Closed
<1> DEFINE S == {p} \cup Above[Parent[p]]
<1>2. Parent[p] \in Above[Parent[p]] /\ Above[Parent[p]] \subseteq Paths /\ Closed(Above[Parent[p]])
  BY <1>1, AboveIsClosed
<1>3. Closed(S)
  BY <1>2 DEF Closed
<1>4. Above[p] \subseteq S
  BY <1>2, <1>3, AboveLeast
<1> QED
  BY <1>1, <1>4, AboveTransitive

\* A path is not above its parent: every path is below the root.
LEMMA NoCycle ==
  ASSUME NEW p \in Paths \ {Root}
  PROVE  p \notin Above[Parent[p]]
<1> SUFFICES ASSUME p \in Above[Parent[p]] PROVE FALSE
  OBVIOUS
<1> DEFINE S == {r \in Above[p] : p \in Above[r]}
<1>1. p \in S /\ S \subseteq Paths
  BY AboveIsClosed
<1>2. ASSUME NEW r \in S \ {Root} PROVE Parent[r] \in S
  <2>1. r \in Paths \ {Root} /\ Parent[r] \in Above[p]
    BY <1>1, AboveIsClosed DEF Closed
  <2>2. p \in Above[Parent[r]]
    BY <2>1, AboveParent
  <2> QED
    BY <2>1, <2>2
<1>3. Closed(S)
  BY <1>2 DEF Closed
<1>4. Root \in S
  BY <1>1, <1>3, AboveLeast, AboveIsClosed
<1> QED
  BY <1>4, AboveRoot

\* Between p and a directory above it there is a child of that directory.
LEMMA AboveChild ==
  ASSUME NEW p \in Paths, NEW d \in Above[p], d # p
  PROVE  \E c \in Above[p] \ {Root} : Parent[c] = d
<1> DEFINE S == {a \in Above[p] : a = p \/ \E c \in Above[p] \ {Root} : Parent[c] = a}
<1>1. p \in S /\ S \subseteq Paths
  BY AboveIsClosed
<1>2. Closed(S)
  BY AboveIsClosed DEF Closed
<1>3. d \in S
  BY <1>1, <1>2, AboveLeast
<1> QED
  BY <1>3

LEMMA AboveDirectories ==
  ASSUME NEW f, IsTree(f), NEW p \in Paths, f[p].kind # "missing",
         NEW a \in Above[p], a # p
  PROVE  f[a].kind = "directory"
<1> DEFINE S == {b \in Above[p] : b = p \/ f[b].kind = "directory"}
<1>1. p \in S /\ S \subseteq Paths
  BY AboveIsClosed
<1>2. ASSUME NEW r \in S \ {Root} PROVE Parent[r] \in S
  <2>1. r \in Paths \ {Root} /\ Parent[r] \in Above[p]
    BY <1>1, AboveIsClosed DEF Closed
  <2>2. f[r].kind # "missing"
    OBVIOUS
  <2> QED
    BY <2>1, <2>2 DEF IsTree
<1>3. Closed(S)
  BY <1>2 DEF Closed
<1>4. a \in S
  BY <1>1, <1>3, AboveLeast
<1> QED
  BY <1>4

----------------------------------------------------------------------------
(* Changes of the files *)

\* Put, of the files f at clock n.
After(f, n, p, node) ==
    [q \in Paths |-> IF q = p THEN node ELSE IF Within(q, p) THEN Gone(n + 1) ELSE f[q]]

\* Files that are a tree, none of them later than n.
TreeAt(f, n) ==
    f \in [Paths -> Node] /\ IsTree(f) /\ \A p \in Paths : f[p].stamp <= n

LEMMA PutKeepsTree ==
  ASSUME NEW f, NEW n \in Nat, TreeAt(f, n), NEW p \in Paths \ {Root},
         NEW node \in Node, node.stamp = n + 1,
         node.content # None <=> node.kind = "regular",
         node.kind # "missing" => f[Parent[p]].kind = "directory"
  PROVE  /\ TreeAt(After(f, n, p, node), n + 1)
         /\ After(f, n, p, node)[p] = node
         /\ \A q \in Paths : \/ After(f, n, p, node)[q] = f[q] /\ q # p /\ ~Within(q, p)
                             \/ After(f, n, p, node)[q].stamp = n + 1
         /\ \A q \in Paths \ {p} : \/ After(f, n, p, node)[q] = f[q]
                                   \/ After(f, n, p, node)[q] = Gone(n + 1)
<1> DEFINE g == After(f, n, p, node)
<1>1. Gone(n + 1) \in Node /\ Gone(n + 1).kind = "missing" /\ Gone(n + 1).content = None
      /\ Gone(n + 1).stamp = n + 1
  BY DEF Gone, Node, Kinds
<1>2. \A q \in Paths : g[q] = IF q = p THEN node ELSE IF Within(q, p) THEN Gone(n + 1) ELSE f[q]
  BY DEF After
<1>3. g \in [Paths -> Node]
  BY <1>1 DEF After, TreeAt
<1>4. \A q \in Paths : g[q].stamp <= n + 1
  <2> TAKE q \in Paths
  <2>1. f[q].stamp \in Nat /\ f[q].stamp <= n
    BY DEF TreeAt, Node
  <2> QED
    BY <1>1, <1>2, <2>1
<1>5. \A q \in Paths : g[q].content # None <=> g[q].kind = "regular"
  BY <1>1, <1>2 DEF TreeAt, IsTree
<1>6. ASSUME NEW q \in Paths \ {Root}, g[q].kind # "missing"
      PROVE  g[Parent[q]].kind = "directory"
  <2>1. Parent[q] \in Paths
    BY AboveParent
  <2>2. Parent[q] # p /\ ~Within(Parent[q], p)
    <3>1. CASE q = p
      BY <3>1, NoCycle, AboveParent, AboveIsClosed DEF Within
    <3>2. CASE q # p
      <4>1. ~Within(q, p)
        BY <1>1, <1>2, <1>6, <3>2
      <4> QED
        BY <4>1, <2>1, AboveParent, AboveIsClosed DEF Within
    <3> QED
      BY <3>1, <3>2
  <2>3. f[Parent[q]].kind = "directory"
    <3>1. CASE q = p
      BY <3>1, <1>6, <1>2
    <3>2. CASE q # p
      BY <3>2, <1>1, <1>2, <1>6 DEF TreeAt, IsTree
    <3> QED
      BY <3>1, <3>2
  <2> QED
    BY <1>2, <2>1, <2>2, <2>3
<1>7. IsTree(g)
  BY <1>5, <1>6 DEF IsTree
<1>8. g[p] = node
  BY <1>2
<1>9. \A q \in Paths : (g[q] = f[q] /\ q # p /\ ~Within(q, p)) \/ g[q].stamp = n + 1
  BY <1>1, <1>2
<1>10. \A q \in Paths \ {p} : g[q] = f[q] \/ g[q] = Gone(n + 1)
  BY <1>2
<1> QED
  BY <1>3, <1>4, <1>7, <1>8, <1>9, <1>10 DEF TreeAt

----------------------------------------------------------------------------
(* The patch call *)

CallInv ==
    /\ TreeAt(fs, clock) /\ clock \in Nat /\ call \in Calls
    /\ CallOK /\ ReadIsOfResolved /\ ExpectedOrNewer /\ HandleIsOwn /\ TempIsOurs
    /\ EffectIsTrue /\ StaleNotReplaced

LEMMA OutcomeFields ==
  ASSUME NEW c \in Calls, NEW effect \in EffectStates, Outcome(c, effect)
  PROVE  /\ call' \in Calls /\ call'.step = "returned" /\ call'.effect = effect
         /\ call'.did = c.did /\ call'.left = c.left /\ call'.lost = c.lost
         /\ call'.wrote = c.wrote /\ call'.operation = c.operation
         /\ call'.expected = c.expected /\ call'.checkedAt = c.checkedAt
<1>1. call' = [c EXCEPT !.step = "returned", !.effect = effect,
                        !.resolved = None, !.raw = None, !.handle = None]
  BY DEF Outcome
<1>2. call'.step = "returned" /\ call'.effect = effect /\ call'.resolved = None
      /\ call'.raw = None /\ call'.handle = None
  BY <1>1 DEF Calls
<1>3. call'.did = c.did /\ call'.left = c.left /\ call'.lost = c.lost /\ call'.stage = c.stage
      /\ call'.wrote = c.wrote /\ call'.operation = c.operation
      /\ call'.expected = c.expected /\ call'.checkedAt = c.checkedAt
  BY <1>1 DEF Calls
<1>4. call' \in Calls
  BY <1>1 DEF Calls
<1> QED
  BY <1>2, <1>3, <1>4

\* A call that is over, with files that are a tree, when its effect is true.
LEMMA Returns ==
  ASSUME NEW c \in Calls, NEW effect \in EffectStates, Outcome(c, effect),
         TreeAt(fs', clock'), clock' \in Nat, phase' = phase, phase = "patch",
         \/ c.lost = None
         \/ c.lost.kind = "regular" /\ c.lost.content = c.expected
         \/ c.lost.stamp > c.checkedAt,
         effect = "none" => c.did = "nothing" /\ ~c.left,
         effect = "partial" => c.did # "nothing" \/ c.left,
         effect = "complete" =>
           /\ ~c.left
           /\ CASE c.operation = "create" -> c.did = "created" /\ c.wrote = Created
                [] c.operation = "update" -> c.did = "replaced" /\ c.wrote = Patched[c.expected]
                [] OTHER -> c.did = "removed",
         Present(Temp)' => c.left
  PROVE  CallInv'
<1>1. /\ call' \in Calls /\ call'.step = "returned" /\ call'.effect = effect
      /\ call'.did = c.did /\ call'.left = c.left /\ call'.lost = c.lost
      /\ call'.wrote = c.wrote /\ call'.operation = c.operation
      /\ call'.expected = c.expected /\ call'.checkedAt = c.checkedAt
  BY OutcomeFields
<1>2. EffectIsTrue'
  BY <1>1 DEF EffectIsTrue
<1>3. StaleNotReplaced'
  BY <1>1 DEF StaleNotReplaced
<1>4. CallOK' /\ ReadIsOfResolved' /\ ExpectedOrNewer' /\ HandleIsOwn' /\ TempIsOurs'
  BY <1>1 DEF CallOK, ReadIsOfResolved, ExpectedOrNewer, HandleIsOwn, TempIsOurs,
              Executing, OfUpdate, Destroying
<1> QED
  BY <1>1, <1>2, <1>3, <1>4 DEF CallInv

\* The call ends before it has written anything.
LEMMA EndsEarly ==
  ASSUME CallInv, phase = "patch", phase' = phase, Unchanged,
         NEW effect \in {"none", "unknown", "raised"}, Ends(effect),
         call.step \notin {"write", "replace", "fill", "returned"}
  PROVE  CallInv'
<1>1. call \in Calls /\ Outcome(call, effect) /\ effect \in EffectStates
  BY DEF Ends, CallInv, EffectStates
<1>2. call.lost = None /\ ~call.left /\ call.did = "nothing"
  BY DEF CallInv, CallOK
<1>3. ~Present(Temp)
  BY DEF CallInv, TempIsOurs
<1>4. TreeAt(fs', clock') /\ clock' \in Nat /\ ~Present(Temp)'
  BY <1>3 DEF Unchanged, files, CallInv, Present
<1> QED
  BY <1>1, <1>2, <1>4, Returns

Early == {"resolve", "read", "confirm", "guard", "recheck", "temp", "open", "remove"}

LEMMA OutOfTimeEarly ==
  ASSUME CallInv, phase = "patch", phase' = phase, Unchanged,
         OutOfTime("none") \/ Ends("none"), call.step \in Early
  PROVE  CallInv'
  BY EndsEarly DEF OutOfTime, Early

\* The call goes on, without a change of the files, to a step before any effect.
LEMMA GoesOnEarly ==
  ASSUME CallInv, phase = "patch", phase' = phase, Unchanged,
         call.step \notin {"write", "replace", "fill", "returned"},
         call' \in Calls, call'.step \in Early,
         call'.lost = None, ~call'.left, call'.did = "nothing",
         CallOK', ReadIsOfResolved', ExpectedOrNewer'
  PROVE  CallInv'
<1>1. TreeAt(fs', clock') /\ clock' \in Nat /\ ~Present(Temp)'
  BY DEF Unchanged, files, CallInv, Present, TempIsOurs
<1>2. HandleIsOwn' /\ TempIsOurs' /\ EffectIsTrue'
  BY <1>1 DEF HandleIsOwn, TempIsOurs, EffectIsTrue, Early
<1>3. StaleNotReplaced'
  BY DEF StaleNotReplaced
<1> QED
  BY <1>1, <1>2, <1>3 DEF CallInv

LEMMA AskPreserves ==
  ASSUME CallInv, phase = "patch", phase' = phase, Ask
  PROVE  CallInv'
<1>1. PICK operation \in Operations, expected \in Requests :
        call' = [NoCall EXCEPT !.step = "resolve", !.stage = "prepare",
                               !.operation = operation,
                               !.expected = IF operation = "create" THEN None ELSE expected]
  BY DEF Ask
<1>2. expected \in Contents /\ Created \in Contents
  BY PatchToolAssumption
<1>3. call' \in Calls
  BY <1>1, <1>2 DEF Calls, NoCall
<1>4. call'.step = "resolve" /\ call'.lost = None /\ ~call'.left /\ call'.did = "nothing"
  BY <1>1 DEF NoCall
<1>5. call'.operation # "none"
  BY <1>1, PatchToolAssumption DEF NoCall
<1>6. CallOK' /\ ReadIsOfResolved' /\ ExpectedOrNewer'
  BY <1>4, <1>5 DEF CallOK, ReadIsOfResolved, ExpectedOrNewer, Executing, OfUpdate, Destroying
<1> QED
  BY <1>3, <1>4, <1>6, GoesOnEarly DEF Ask, Early

\* What a signature says of the file it is taken of.
LEMMA ResolvedFacts ==
  ASSUME TreeAt(fs, clock), clock \in Nat, Resolves(Target)
  PROVE  /\ Resolved(Target) \in Signature
         /\ Resolved(Target).missing = ~Present(Target)
         /\ Present(Target) => /\ Resolved(Target).target = fs[Target].stamp
                               /\ fs[Target].kind = "regular"
         /\ fs[Target].stamp <= clock
<1>1. Target \in Paths \ {Root} /\ Parent[Target] \in Paths
  BY PatchToolAssumption, AboveParent
<1>2. fs[Target].stamp \in Nat /\ fs[Parent[Target]].stamp \in Nat /\ fs[Target].stamp <= clock
  BY <1>1 DEF TreeAt, Node
<1>3. Present(Target) \in BOOLEAN
  BY DEF Present
<1>4. Resolved(Target) \in Signature
  BY <1>2, <1>3 DEF Resolved, Signature
<1>5. Present(Target) => fs[Target].kind = "regular"
  BY DEF Resolves, Present
<1> QED
  BY <1>2, <1>4, <1>5 DEF Resolved

LEMMA ResolveTargetPreserves ==
  ASSUME CallInv, phase = "patch", phase' = phase, ResolveTarget
  PROVE  CallInv'
<1>1. call.step = "resolve" /\ call \in Calls /\ Unchanged
  BY DEF ResolveTarget, CallInv
<1>2. CASE OutOfTime("none") \/ Ends("none")
  BY <1>1, <1>2, OutOfTimeEarly DEF Early
<1>3. CASE Suits /\ call' = [call EXCEPT !.resolved = Resolved(Target),
                        !.step = IF call.operation = "create" THEN "confirm" ELSE "read"]
  <2>1. Resolved(Target) \in Signature
        /\ (call.operation # "create" => ~Resolved(Target).missing /\ Resolved(Target).target <= clock)
    BY <1>3, ResolvedFacts DEF Suits, CallInv
  <2>2. call' \in Calls
    <3>1. PICK sig \in Signature \cup {None}, next \in {"confirm", "read"} :
            call' = [call EXCEPT !.resolved = sig, !.step = next]
      BY <1>3, <2>1
    <3> QED
      BY <1>1, <3>1 DEF Calls
  <2>3. call'.step = (IF call.operation = "create" THEN "confirm" ELSE "read")
        /\ call'.resolved = Resolved(Target)
    BY <1>1, <1>3 DEF Calls
  <2>4. call'.lost = call.lost /\ call'.left = call.left /\ call'.did = call.did
        /\ call'.operation = call.operation
    BY <1>1, <1>3 DEF Calls
  <2>5. call.lost = None /\ ~call.left /\ call.did = "nothing"
    BY <1>1 DEF CallInv, CallOK
  <2>6. clock' = clock /\ call.operation \in {"none", "create", "update", "delete"}
    BY <1>1, PatchToolAssumption DEF Unchanged, files, Calls
  <2>7. call.operation # "none"
    BY <1>1 DEF CallInv, CallOK
  <2>8. CallOK' /\ ReadIsOfResolved' /\ ExpectedOrNewer'
    BY <2>1, <2>3, <2>4, <2>5, <2>6, <2>7
       DEF CallOK, ReadIsOfResolved, ExpectedOrNewer, Executing, OfUpdate, Destroying
  <2> QED
    BY <1>1, <2>2, <2>3, <2>4, <2>5, <2>8, GoesOnEarly DEF Early
<1> QED
  BY <1>1, <1>2, <1>3 DEF ResolveTarget

LEMMA ReadTargetPreserves ==
  ASSUME CallInv, phase = "patch", phase' = phase, NEW fault \in BOOLEAN, ReadTarget(fault)
  PROVE  CallInv'
<1>1. call.step = "read" /\ call \in Calls /\ Unchanged /\ fs' = fs /\ clock' = clock
  BY DEF ReadTarget, CallInv, Unchanged, files
<1>2. CASE OutOfTime("none") \/ Ends("none")
  BY <1>1, <1>2, OutOfTimeEarly DEF Early
<1>3. CASE /\ fs[Target].kind = "regular"
           /\ call' = [call EXCEPT !.raw = fs[Target].content, !.step = "confirm"]
  <2>1. fs[Target].content \in Contents
    BY <1>3, PatchToolAssumption DEF CallInv, TreeAt, IsTree, Node
  <2>2. call' \in Calls /\ call'.step = "confirm" /\ call'.raw = fs[Target].content
    BY <1>1, <1>3, <2>1 DEF Calls
  <2>3. call'.lost = call.lost /\ call'.left = call.left /\ call'.did = call.did
        /\ call'.operation = call.operation /\ call'.resolved = call.resolved
    BY <1>1, <1>3 DEF Calls
  <2>4. CallOK' /\ ReadIsOfResolved' /\ ExpectedOrNewer'
    BY <1>1, <2>2, <2>3
       DEF CallInv, CallOK, ReadIsOfResolved, ExpectedOrNewer, Executing, OfUpdate, Destroying
  <2> QED
    BY <1>1, <2>2, <2>3, <2>4, GoesOnEarly DEF Early, CallInv, CallOK
<1> QED
  BY <1>1, <1>2, <1>3 DEF ReadTarget

\* The target is the file that was read when its signature still matches.
LEMMA MatchIsRead ==
  ASSUME CallInv, call.step \in {"confirm", "recheck"}, call.operation # "create",
         StillResolves(Target, call.resolved)
  PROVE  fs[Target].kind = "regular" /\ fs[Target].content = call.raw
<1>1. /\ Resolved(Target) = call.resolved /\ Resolves(Target)
      /\ TreeAt(fs, clock) /\ clock \in Nat
  BY DEF StillResolves, CallInv
<1>2. ~call.resolved.missing
  BY DEF CallInv, CallOK
<1>3. Present(Target) /\ fs[Target].stamp = call.resolved.target /\ fs[Target].kind = "regular"
  BY <1>1, <1>2, ResolvedFacts
<1> QED
  BY <1>3 DEF CallInv, ReadIsOfResolved

LEMMA ConfirmPreserves ==
  ASSUME CallInv, phase = "patch", phase' = phase, Confirm
  PROVE  CallInv'
<1>1. call.step = "confirm" /\ call \in Calls /\ Unchanged /\ fs' = fs /\ clock' = clock
      /\ clock \in Nat
  BY DEF Confirm, CallInv, Unchanged, files
<1>2. CASE OutOfTime("none") \/ Ends("none")
  BY <1>1, <1>2, OutOfTimeEarly DEF Early
<1>3. ASSUME StillResolves(Target, call.resolved), call.raw = call.expected, Applies,
             call.stage = "prepare",
             call' = [call EXCEPT !.step = "guard", !.resolved = None, !.raw = None]
      PROVE  CallInv'
  <2>1. call' \in Calls /\ call'.step = "guard"
    BY <1>1, <1>3 DEF Calls
  <2>2. call'.lost = call.lost /\ call'.left = call.left /\ call'.did = call.did
        /\ call'.operation = call.operation
    BY <1>1, <1>3 DEF Calls
  <2>3. CallOK' /\ ReadIsOfResolved' /\ ExpectedOrNewer'
    BY <1>1, <2>1, <2>2
       DEF CallInv, CallOK, ReadIsOfResolved, ExpectedOrNewer, Executing, OfUpdate, Destroying
  <2> QED
    BY <1>1, <2>1, <2>2, <2>3, GoesOnEarly DEF Early, CallInv, CallOK
<1>4. ASSUME StillResolves(Target, call.resolved), call.raw = call.expected, Applies,
             call' = [call EXCEPT !.checkedAt = clock,
                        !.step = IF call.operation = "create" THEN "open" ELSE "recheck"]
      PROVE  CallInv'
  <2>1. PICK next \in {"open", "recheck"} :
          /\ call' = [call EXCEPT !.checkedAt = clock, !.step = next]
          /\ next = IF call.operation = "create" THEN "open" ELSE "recheck"
    BY <1>4
  <2>2. call' \in Calls /\ call'.step = next /\ call'.checkedAt = clock
    <3>1. next \in {"open", "recheck"} /\ call' = [call EXCEPT !.checkedAt = clock, !.step = next]
      BY <2>1
    <3> QED
      BY <1>1, <3>1 DEF Calls
  <2>3. call'.lost = call.lost /\ call'.left = call.left /\ call'.did = call.did
        /\ call'.operation = call.operation /\ call'.resolved = call.resolved
        /\ call'.raw = call.raw /\ call'.expected = call.expected
    BY <1>1, <2>1 DEF Calls
  <2>4. call.operation # "create" => fs[Target].content = call.raw /\ call.raw \in Contents
    <3> SUFFICES ASSUME call.operation # "create"
                 PROVE  fs[Target].content = call.raw /\ call.raw \in Contents
      OBVIOUS
    <3>1. fs[Target].kind = "regular" /\ fs[Target].content = call.raw
      BY <1>1, <1>4, MatchIsRead
    <3> QED
      BY <3>1, PatchToolAssumption DEF CallInv, TreeAt, IsTree, Node
  <2>5. call.operation = "update" => Patched[call.raw] \in Contents
    <3> SUFFICES ASSUME call.operation = "update" PROVE Patched[call.raw] \in Contents
      OBVIOUS
    <3>1. Patched[call.raw] # None
      BY <1>4 DEF Applies, Produces
    <3> QED
      BY <2>4, <3>1, PatchToolAssumption
  <2>6. call.operation \in {"create", "update", "delete"}
    BY <1>1, PatchToolAssumption DEF CallInv, CallOK, Calls
  <2>7. CallOK'
    BY <1>1, <1>4, <2>1, <2>2, <2>3, <2>4, <2>5, <2>6
       DEF CallInv, CallOK, Executing, OfUpdate
  <2>8. ReadIsOfResolved' /\ ExpectedOrNewer'
    BY <1>1, <2>2, <2>3, <2>4 DEF ReadIsOfResolved, ExpectedOrNewer, OfUpdate, Destroying
  <2>9. CASE next = "open"
    BY <1>1, <2>2, <2>3, <2>7, <2>8, <2>9, GoesOnEarly DEF Early, CallInv, CallOK
  <2>10. CASE next = "recheck"
    BY <1>1, <2>2, <2>3, <2>7, <2>8, <2>10, GoesOnEarly DEF Early, CallInv, CallOK
  <2> QED
    BY <2>9, <2>10
<1> QED
  BY <1>1, <1>2, <1>3, <1>4 DEF Confirm

LEMMA GuardPreserves ==
  ASSUME CallInv, phase = "patch", phase' = phase, Guard
  PROVE  CallInv'
<1>1. call.step = "guard" /\ call \in Calls /\ Unchanged
  BY DEF Guard, CallInv
<1>2. CASE OutOfTime("none") \/ Ends("none")
  BY <1>1, <1>2, OutOfTimeEarly DEF Early
<1>3. CASE call' = [call EXCEPT !.step = "resolve", !.stage = "execute"]
  <2>1. call' \in Calls /\ call'.step = "resolve"
    BY <1>1, <1>3 DEF Calls
  <2>2. call'.lost = call.lost /\ call'.left = call.left /\ call'.did = call.did
        /\ call'.operation = call.operation
    BY <1>1, <1>3 DEF Calls
  <2>3. CallOK' /\ ReadIsOfResolved' /\ ExpectedOrNewer'
    BY <1>1, <2>1, <2>2
       DEF CallInv, CallOK, ReadIsOfResolved, ExpectedOrNewer, Executing, OfUpdate, Destroying
  <2> QED
    BY <1>1, <2>1, <2>2, <2>3, GoesOnEarly DEF Early, CallInv, CallOK
<1> QED
  BY <1>1, <1>2, <1>3 DEF Guard

LEMMA RecheckPreserves ==
  ASSUME CallInv, phase = "patch", phase' = phase, Recheck
  PROVE  CallInv'
<1>1. call.step = "recheck" /\ call \in Calls /\ Unchanged /\ fs' = fs /\ clock' = clock
      /\ clock \in Nat
  BY DEF Recheck, CallInv, Unchanged, files
<1>2. CASE OutOfTime("none") \/ Ends("none")
  BY <1>1, <1>2, OutOfTimeEarly DEF Early
<1>3. ASSUME StillResolves(Target, call.resolved),
             call' = [call EXCEPT !.checkedAt = clock,
                        !.step = IF call.operation = "update" THEN "temp" ELSE "remove"]
      PROVE  CallInv'
  <2>1. PICK next \in {"temp", "remove"} :
          /\ call' = [call EXCEPT !.checkedAt = clock, !.step = next]
          /\ next = IF call.operation = "update" THEN "temp" ELSE "remove"
    BY <1>3
  <2>2. call' \in Calls /\ call'.step = next /\ call'.checkedAt = clock
    <3>1. next \in {"temp", "remove"} /\ call' = [call EXCEPT !.checkedAt = clock, !.step = next]
      BY <2>1
    <3> QED
      BY <1>1, <3>1 DEF Calls
  <2>3. call'.lost = call.lost /\ call'.left = call.left /\ call'.did = call.did
        /\ call'.operation = call.operation /\ call'.resolved = call.resolved
        /\ call'.raw = call.raw /\ call'.expected = call.expected
    BY <1>1, <2>1 DEF Calls
  <2>4. call.operation \in {"update", "delete"} /\ call.raw = call.expected
    BY <1>1 DEF CallInv, CallOK, Executing
  <2>5. fs[Target].kind = "regular" /\ fs[Target].content = call.raw
    BY <1>1, <1>3, <2>4, MatchIsRead
  <2>6. CallOK'
    BY <1>1, <2>1, <2>2, <2>3, <2>4 DEF CallInv, CallOK, Executing, OfUpdate
  <2>7. ExpectedOrNewer'
    BY <1>1, <2>2, <2>3, <2>4, <2>5 DEF ExpectedOrNewer, CallInv
  <2>8. ReadIsOfResolved'
    BY <2>2 DEF ReadIsOfResolved
  <2>9. CASE next = "temp"
    BY <1>1, <2>2, <2>3, <2>6, <2>7, <2>8, <2>9, GoesOnEarly DEF Early, CallInv, CallOK
  <2>10. CASE next = "remove"
    BY <1>1, <2>2, <2>3, <2>6, <2>7, <2>8, <2>10, GoesOnEarly DEF Early, CallInv, CallOK
  <2> QED
    BY <2>9, <2>10
<1> QED
  BY <1>1, <1>2, <1>3 DEF Recheck

LEMMA PutFacts ==
  ASSUME TreeAt(fs, clock), clock \in Nat, NEW p \in Paths \ {Root},
         NEW node \in Node, node.stamp = clock + 1,
         node.content # None <=> node.kind = "regular",
         node.kind # "missing" => fs[Parent[p]].kind = "directory",
         Put(p, node)
  PROVE  /\ TreeAt(fs', clock') /\ clock' = clock + 1 /\ clock' \in Nat /\ fs'[p] = node
         /\ \A q \in Paths : \/ fs'[q] = fs[q] /\ q # p /\ ~Within(q, p)
                             \/ fs'[q].stamp = clock + 1
         /\ \A q \in Paths \ {p} : fs'[q] = fs[q] \/ fs'[q] = Gone(clock + 1)
<1>1. fs' = After(fs, clock, p, node) /\ clock' = clock + 1
  BY DEF Put, After
<1>2. /\ TreeAt(After(fs, clock, p, node), clock + 1)
      /\ After(fs, clock, p, node)[p] = node
      /\ \A q \in Paths : \/ After(fs, clock, p, node)[q] = fs[q] /\ q # p /\ ~Within(q, p)
                          \/ After(fs, clock, p, node)[q].stamp = clock + 1
      /\ \A q \in Paths \ {p} : \/ After(fs, clock, p, node)[q] = fs[q]
                                \/ After(fs, clock, p, node)[q] = Gone(clock + 1)
  BY PutKeepsTree
<1> HIDE DEF After
<1> QED
  BY <1>1, <1>2

LEMMA Nodes ==
  ASSUME NEW n \in Nat
  PROVE  /\ Gone(n) \in Node /\ Gone(n).stamp = n /\ Gone(n).kind = "missing"
         /\ Gone(n).content = None
         /\ \A c \in Contents : /\ File(n, c) \in Node /\ File(n, c).stamp = n
                                /\ File(n, c).kind = "regular" /\ File(n, c).content = c
         /\ \A k \in Kinds : /\ Special(n, k) \in Node /\ Special(n, k).stamp = n
                             /\ Special(n, k).kind = k /\ Special(n, k).content = None
  BY DEF Gone, File, Special, Node, Kinds

\* A step that writes c into the file at p, in place.
LEMMA Rewritten ==
  ASSUME TreeAt(fs, clock), clock \in Nat, NEW p \in Paths, fs[p].kind = "regular",
         NEW c \in Contents, fs' = [fs EXCEPT ![p].content = c]
  PROVE  /\ TreeAt(fs', clock) /\ fs'[p].content = c /\ fs'[p].kind = "regular"
         /\ \A q \in Paths \ {p} : fs'[q] = fs[q]
<1>1. fs \in [Paths -> Node] /\ fs[p] \in Node
  BY DEF TreeAt
<1>2. fs'[p] = [fs[p] EXCEPT !.content = c] /\ \A q \in Paths \ {p} : fs'[q] = fs[q]
  BY <1>1
<1>3. /\ fs'[p] \in Node /\ fs'[p].content = c /\ fs'[p].kind = "regular"
      /\ fs'[p].stamp = fs[p].stamp
  BY <1>1, <1>2 DEF Node
<1>4. fs' \in [Paths -> Node]
  BY <1>1, <1>3
<1>5. \A q \in Paths : fs'[q].kind = fs[q].kind /\ fs'[q].stamp = fs[q].stamp
  BY <1>2, <1>3
<1>6. \A q \in Paths : fs'[q].stamp <= clock
  BY <1>5 DEF TreeAt
<1>7. ASSUME NEW q \in Paths PROVE fs'[q].content # None <=> fs'[q].kind = "regular"
  <2>1. CASE q = p
    BY <2>1, <1>3, WorkspaceFilesAssumption
  <2>2. CASE q # p
    BY <2>2, <1>2 DEF TreeAt, IsTree
  <2> QED
    BY <2>1, <2>2
<1>8. \A q \in Paths \ {Root} : fs'[q].kind # "missing" => fs'[Parent[q]].kind = "directory"
  BY <1>5, AboveParent DEF TreeAt, IsTree
<1> QED
  BY <1>2, <1>3, <1>4, <1>6, <1>7, <1>8 DEF TreeAt, IsTree

LEMMA Places ==
  /\ Target \in Paths \ {Root} /\ Temp \in Paths \ {Root} /\ Temp # Target
  /\ Parent[Temp] = Parent[Target]
  BY PatchToolAssumption

\* The temporary file is removed, or left and reported.
LEMMA RemoveTempFacts ==
  ASSUME TreeAt(fs, clock), clock \in Nat, RemoveTemp
  PROVE  TreeAt(fs', clock') /\ clock' \in Nat /\ ~Present(Temp)'
<1>1. CASE Present(Temp)
  <2>1. Put(Temp, Gone(clock + 1)) /\ clock + 1 \in Nat
    BY <1>1 DEF RemoveTemp
  <2>2. TreeAt(fs', clock') /\ clock' \in Nat /\ fs'[Temp] = Gone(clock + 1)
    BY <2>1, Nodes, Places, PutFacts
  <2> QED
    BY <2>1, <2>2, Nodes DEF Present
<1>2. CASE ~Present(Temp)
  BY <1>2 DEF RemoveTemp, Present
<1> QED
  BY <1>1, <1>2

LEMMA FailsWithTempPreserves ==
  ASSUME CallInv, phase = "patch", phase' = phase, call.step \in {"write", "replace"},
         NEW effect \in {"none", "unknown"}, NEW cleaned \in BOOLEAN,
         FailsWithTemp(effect, cleaned)
  PROVE  CallInv'
<1> DEFINE left == ~cleaned
           c == [call EXCEPT !.left = left]
           claimed == IF effect = "none" /\ ~cleaned THEN "partial" ELSE effect
<1>1. TreeAt(fs, clock) /\ clock \in Nat /\ call \in Calls
      /\ call.lost = None /\ call.did = "nothing"
  BY DEF CallInv, CallOK
<1>2. c \in Calls /\ c.left = left /\ c.lost = None /\ c.did = "nothing"
  <2>1. left \in BOOLEAN
    OBVIOUS
  <2> HIDE DEF left
  <2> QED
    BY <1>1, <2>1 DEF Calls
<1>3. claimed \in EffectStates /\ Outcome(c, claimed)
  BY DEF FailsWithTemp, EffectStates
<1>4. TreeAt(fs', clock') /\ clock' \in Nat /\ (Present(Temp)' => ~cleaned)
  <2>1. CASE cleaned
    BY <2>1, <1>1, RemoveTempFacts DEF FailsWithTemp
  <2>2. CASE ~cleaned
    BY <2>2, <1>1 DEF FailsWithTemp
  <2> QED
    BY <2>1, <2>2
<1>5. /\ claimed = "none" => cleaned
      /\ claimed = "partial" => ~cleaned
      /\ claimed # "complete"
  OBVIOUS
<1> HIDE DEF c, claimed
<1> QED
  BY <1>2, <1>3, <1>4, <1>5, Returns

LEMMA MakeTempPreserves ==
  ASSUME CallInv, phase = "patch", phase' = phase, NEW fault \in BOOLEAN, MakeTemp(fault)
  PROVE  CallInv'
<1>1. call.step = "temp" /\ call \in Calls /\ TreeAt(fs, clock) /\ clock \in Nat
  BY DEF MakeTemp, CallInv
<1>2. CASE (Ends("none") \/ Ends("unknown")) /\ Unchanged
  BY <1>1, <1>2, EndsEarly
<1>3. ASSUME fs[Parent[Temp]].kind = "directory", Put(Temp, File(clock + 1, Empty)),
             call' = [call EXCEPT !.handle = clock + 1, !.step = "write"]
      PROVE  CallInv'
  <2>1. clock + 1 \in Nat /\ Empty \in Contents
    BY <1>1, PatchToolAssumption
  <2>2. /\ TreeAt(fs', clock') /\ clock' = clock + 1 /\ clock' \in Nat
        /\ fs'[Temp] = File(clock + 1, Empty)
        /\ \A q \in Paths : \/ fs'[q] = fs[q] /\ q # Temp /\ ~Within(q, Temp)
                            \/ fs'[q].stamp = clock + 1
    <3>1. File(clock + 1, Empty) \in Node /\ File(clock + 1, Empty).stamp = clock + 1
          /\ File(clock + 1, Empty).kind = "regular" /\ File(clock + 1, Empty).content # None
      BY <2>1, Nodes, WorkspaceFilesAssumption
    <3> QED
      BY <1>1, <1>3, <3>1, Places, PutFacts
  <2>3. call' \in Calls /\ call'.step = "write" /\ call'.handle = clock + 1
    BY <1>1, <1>3, <2>1 DEF Calls
  <2>4. /\ call'.lost = call.lost /\ call'.left = call.left /\ call'.did = call.did
        /\ call'.operation = call.operation /\ call'.raw = call.raw
        /\ call'.expected = call.expected /\ call'.checkedAt = call.checkedAt
    BY <1>1, <1>3 DEF Calls
  <2>5. CallOK'
    BY <1>1, <2>3, <2>4 DEF CallInv, CallOK, Executing, OfUpdate
  <2>6. ReadIsOfResolved' /\ EffectIsTrue' /\ TempIsOurs'
    BY <2>3 DEF ReadIsOfResolved, EffectIsTrue, TempIsOurs
  <2>7. StaleNotReplaced'
    BY <1>1, <2>4 DEF StaleNotReplaced, CallInv, CallOK
  <2>8. ExpectedOrNewer'
    <3>1. call.checkedAt \in Nat /\ call.checkedAt <= clock
          /\ (\/ fs[Target].kind = "regular" /\ fs[Target].content = call.expected
              \/ fs[Target].stamp > call.checkedAt)
      BY <1>1 DEF CallInv, ExpectedOrNewer, Destroying, OfUpdate, Calls
    <3>2. fs'[Target] = fs[Target] \/ fs'[Target].stamp = clock + 1
      BY <2>2, Places
    <3> QED
      BY <1>1, <2>2, <2>4, <3>1, <3>2 DEF ExpectedOrNewer
  <2>9. HandleIsOwn'
    <3>1. fs'[Temp].stamp = clock + 1 /\ fs'[Temp].kind = "regular"
      BY <2>1, <2>2, Nodes
    <3> QED
      BY <2>1, <2>2, <2>3, <3>1 DEF HandleIsOwn
  <2> QED
    BY <2>2, <2>3, <2>5, <2>6, <2>7, <2>8, <2>9 DEF CallInv
<1> QED
  BY <1>1, <1>2, <1>3 DEF MakeTemp

LEMMA WriteTempPreserves ==
  ASSUME CallInv, phase = "patch", phase' = phase, NEW cleaned \in BOOLEAN, WriteTemp(cleaned)
  PROVE  CallInv'
<1>1. call.step = "write" /\ call \in Calls /\ TreeAt(fs, clock) /\ clock \in Nat
  BY DEF WriteTemp, CallInv
<1>2. CASE \E effect \in {"none", "unknown"} : FailsWithTemp(effect, cleaned)
  BY <1>1, <1>2, FailsWithTempPreserves
<1>3. ASSUME Goto("replace"), clock' = clock,
             IF fs[Temp].stamp = call.handle
             THEN fs' = [fs EXCEPT ![Temp].content = Produces] ELSE fs' = fs
      PROVE  CallInv'
  <2>1. call' = [call EXCEPT !.step = "replace"]
    BY <1>3 DEF Goto
  <2>2. call' \in Calls /\ call'.step = "replace"
    BY <1>1, <2>1 DEF Calls
  <2>3. /\ call'.lost = call.lost /\ call'.left = call.left /\ call'.did = call.did
        /\ call'.operation = call.operation /\ call'.raw = call.raw
        /\ call'.expected = call.expected /\ call'.checkedAt = call.checkedAt
    BY <1>1, <2>1 DEF Calls
  <2>4. /\ call.operation = "update" /\ call.raw = call.expected
        /\ Patched[call.raw] \in Contents
    BY <1>1 DEF CallInv, CallOK, OfUpdate, Executing
  <2>5. Produces = Patched[call.expected]
    BY <2>4 DEF Produces
  <2>6. /\ TreeAt(fs', clock') /\ fs'[Target] = fs[Target]
        /\ Present(Temp)' => fs'[Temp].content = Patched[call.expected]
    <3>1. CASE fs[Temp].stamp = call.handle
      <4>1. fs[Temp].kind = "regular"
        BY <1>1, <3>1 DEF CallInv, HandleIsOwn
      <4>2. fs' = [fs EXCEPT ![Temp].content = Patched[call.expected]]
        BY <1>3, <2>5, <3>1
      <4>3. Patched[call.expected] \in Contents /\ Temp \in Paths /\ Target \in Paths \ {Temp}
        BY <2>4, Places
      <4>4. /\ TreeAt(fs', clock) /\ fs'[Temp].content = Patched[call.expected]
            /\ \A q \in Paths \ {Temp} : fs'[q] = fs[q]
        BY <1>1, <4>1, <4>2, <4>3, Rewritten
      <4> QED
        BY <1>3, <4>3, <4>4
    <3>2. CASE fs[Temp].stamp # call.handle
      BY <1>1, <1>3, <3>2 DEF CallInv, HandleIsOwn, Present
    <3> QED
      BY <3>1, <3>2
  <2>7. CallOK'
    BY <1>1, <2>2, <2>3 DEF CallInv, CallOK, Executing, OfUpdate
  <2>8. ReadIsOfResolved' /\ EffectIsTrue' /\ TempIsOurs' /\ HandleIsOwn'
    BY <2>2, <2>3, <2>6 DEF ReadIsOfResolved, EffectIsTrue, TempIsOurs, HandleIsOwn
  <2>9. StaleNotReplaced'
    BY <1>1, <2>3 DEF StaleNotReplaced, CallInv, CallOK
  <2>10. ExpectedOrNewer'
    BY <1>1, <1>3, <2>3, <2>6 DEF ExpectedOrNewer, CallInv, Destroying, OfUpdate
  <2> QED
    BY <1>1, <1>3, <2>2, <2>6, <2>7, <2>8, <2>9, <2>10 DEF CallInv
<1> QED
  BY <1>1, <1>2, <1>3 DEF WriteTemp

LEMMA ReplacePreserves ==
  ASSUME CallInv, phase = "patch", phase' = phase, NEW fault \in BOOLEAN,
         NEW cleaned \in BOOLEAN, Replace(fault, cleaned)
  PROVE  CallInv'
<1>1. call.step = "replace" /\ call \in Calls /\ TreeAt(fs, clock) /\ clock \in Nat
  BY DEF Replace, CallInv
<1>2. CASE \E effect \in {"none", "unknown"} : FailsWithTemp(effect, cleaned)
  BY <1>1, <1>2, FailsWithTempPreserves
<1>3. ASSUME Present(Temp), fs[Target].kind # "directory",
             fs' = [fs EXCEPT ![Target] = File(clock + 1, fs[Temp].content),
                              ![Temp] = Gone(clock + 1)],
             clock' = clock + 1, NEW effect \in {"complete", "unknown", "raised"},
             Outcome([call EXCEPT !.did = "replaced", !.wrote = fs[Temp].content,
                                  !.lost = fs[Target]], effect)
      PROVE  CallInv'
  <2>1. /\ fs \in [Paths -> Node] /\ Target \in Paths /\ Temp \in Paths /\ Temp # Target
        /\ fs[Target] \in Node
    BY <1>1, Places DEF TreeAt
  <2>2. /\ call.operation = "update" /\ fs[Temp].content = Patched[call.expected]
        /\ Patched[call.expected] \in Contents
    BY <1>1, <1>3 DEF CallInv, CallOK, OfUpdate, Executing, HandleIsOwn
  <2> DEFINE w == Patched[call.expected]
             c == [call EXCEPT !.did = "replaced", !.wrote = w, !.lost = fs[Target]]
  <2>3. /\ c \in Calls /\ c.did = "replaced" /\ c.wrote = w /\ c.lost = fs[Target]
        /\ c.left = call.left /\ c.operation = call.operation
        /\ c.expected = call.expected /\ c.checkedAt = call.checkedAt
    <3> DEFINE lost == fs[Target]
    <3>1. w \in Contents /\ lost \in Node
      BY <2>1, <2>2
    <3>2. c = [call EXCEPT !.did = "replaced", !.wrote = w, !.lost = lost] /\ call \in Calls
      BY <1>1
    <3> HIDE DEF w, lost, c
    <3>3. c \in Calls /\ c.did = "replaced" /\ c.wrote = w /\ c.lost = lost
      BY <3>1, <3>2 DEF Calls
    <3>4. /\ c.left = call.left /\ c.operation = call.operation
          /\ c.expected = call.expected /\ c.checkedAt = call.checkedAt
      BY <3>2 DEF Calls
    <3> QED
      BY <3>3, <3>4 DEF lost
  <2>4. /\ fs'[Target] = File(clock + 1, w) /\ fs'[Temp] = Gone(clock + 1)
        /\ \A q \in Paths \ {Target, Temp} : fs'[q] = fs[q]
    BY <1>3, <2>1, <2>2
  <2>5. /\ File(clock + 1, w) \in Node /\ File(clock + 1, w).stamp = clock + 1
        /\ File(clock + 1, w).kind = "regular" /\ File(clock + 1, w).content # None
        /\ Gone(clock + 1) \in Node /\ Gone(clock + 1).stamp = clock + 1
        /\ Gone(clock + 1).kind = "missing" /\ Gone(clock + 1).content = None
    <3>1. w \in Contents /\ w # None /\ clock + 1 \in Nat
      BY <1>1, <2>2, WorkspaceFilesAssumption
    <3> HIDE DEF w
    <3> QED
      BY <3>1, Nodes
  <2> HIDE DEF w, c
  <2>6. fs' \in [Paths -> Node]
    BY <1>3, <2>1, <2>2, <2>5 DEF w
  <2>7. \A q \in Paths : fs'[q].stamp <= clock + 1
    <3> TAKE q \in Paths
    <3>1. fs[q].stamp \in Nat /\ fs[q].stamp <= clock
      BY <1>1 DEF TreeAt, Node
    <3> QED
      BY <1>1, <2>4, <2>5, <3>1
  <2>8. ASSUME NEW q \in Paths PROVE fs'[q].content # None <=> fs'[q].kind = "regular"
    <3>1. CASE q \in {Target, Temp}
      BY <3>1, <2>4, <2>5
    <3>2. CASE q \notin {Target, Temp}
      BY <3>2, <1>1, <2>4 DEF TreeAt, IsTree
    <3> QED
      BY <3>1, <3>2
  <2>9. ASSUME NEW q \in Paths \ {Root}, fs'[q].kind # "missing"
        PROVE  fs'[Parent[q]].kind = "directory"
    <3>1. fs[Parent[q]].kind = "directory"
      <4>1. CASE q = Target
        BY <4>1, <1>1, <1>3, Places DEF TreeAt, IsTree, Present
      <4>2. CASE q = Temp
        BY <4>2, <2>4, <2>5, <2>9
      <4>3. CASE q \notin {Target, Temp}
        BY <4>3, <1>1, <2>4, <2>9 DEF TreeAt, IsTree
      <4> QED
        BY <4>1, <4>2, <4>3
    <3>2. Parent[q] # Target
      BY <1>3, <3>1
    <3>3. Parent[q] # Temp
      BY <1>1, <1>3, <2>2, <3>1, WorkspaceFilesAssumption, <2>1 DEF TreeAt, IsTree
    <3> QED
      BY <2>4, <3>1, <3>2, <3>3, AboveParent
  <2>10. TreeAt(fs', clock') /\ clock' \in Nat /\ ~Present(Temp)'
    <3>1. IsTree(fs')
      BY <2>8, <2>9 DEF IsTree
    <3> QED
      BY <1>1, <1>3, <2>4, <2>5, <2>6, <2>7, <3>1 DEF TreeAt, Present
  <2>11. \/ c.lost.kind = "regular" /\ c.lost.content = c.expected
         \/ c.lost.stamp > c.checkedAt
    BY <1>1, <2>3 DEF CallInv, ExpectedOrNewer, Destroying, OfUpdate
  <2>12. Outcome(c, effect) /\ effect \in EffectStates
    BY <1>3, <2>2 DEF c, w, EffectStates
  <2>13. ~c.left /\ c.operation = "update" /\ c.did = "replaced" /\ c.wrote = Patched[c.expected]
    BY <1>1, <2>2, <2>3 DEF CallInv, CallOK, w
  <2> QED
    BY <2>3, <2>10, <2>11, <2>12, <2>13, Returns
<1> QED
  BY <1>1, <1>2, <1>3 DEF Replace

LEMMA OpenNewPreserves ==
  ASSUME CallInv, phase = "patch", phase' = phase, NEW fault \in BOOLEAN, OpenNew(fault)
  PROVE  CallInv'
<1>1. call.step = "open" /\ call \in Calls /\ TreeAt(fs, clock) /\ clock \in Nat
  BY DEF OpenNew, CallInv
<1>2. CASE (OutOfTime("none") \/ Ends("none")) /\ Unchanged
  BY <1>1, <1>2, OutOfTimeEarly DEF Early
<1>3. ASSUME fs[Parent[Target]].kind = "directory", Put(Target, File(clock + 1, Empty)),
             call' = [call EXCEPT !.step = "fill", !.handle = clock + 1, !.did = "opened",
                                  !.wrote = Empty]
      PROVE  CallInv'
  <2>1. clock + 1 \in Nat /\ Empty \in Contents
    BY <1>1, PatchToolAssumption
  <2>2. /\ File(clock + 1, Empty) \in Node /\ File(clock + 1, Empty).stamp = clock + 1
        /\ File(clock + 1, Empty).kind = "regular" /\ File(clock + 1, Empty).content # None
        /\ Gone(clock + 1).kind = "missing"
    BY <2>1, Nodes, WorkspaceFilesAssumption
  <2>3. /\ TreeAt(fs', clock') /\ clock' = clock + 1 /\ clock' \in Nat
        /\ fs'[Target] = File(clock + 1, Empty)
        /\ \A q \in Paths \ {Target} : fs'[q] = fs[q] \/ fs'[q] = Gone(clock + 1)
    BY <1>1, <1>3, <2>2, Places, PutFacts
  <2>4. ~Present(Temp)'
    <3>1. fs[Temp].kind = "missing"
      BY <1>1 DEF CallInv, TempIsOurs, Present
    <3> QED
      BY <2>2, <2>3, <3>1, Places DEF Present
  <2>5. call' \in Calls /\ call'.step = "fill" /\ call'.handle = clock + 1 /\ call'.did = "opened"
    BY <1>1, <1>3, <2>1 DEF Calls
  <2>6. /\ call'.lost = call.lost /\ call'.left = call.left /\ call'.raw = call.raw
        /\ call'.operation = call.operation /\ call'.expected = call.expected
    BY <1>1, <1>3 DEF Calls
  <2>7. CallOK'
    BY <1>1, <2>5, <2>6 DEF CallInv, CallOK, Executing, OfUpdate
  <2>8. ReadIsOfResolved' /\ ExpectedOrNewer' /\ EffectIsTrue' /\ TempIsOurs'
    BY <2>4, <2>5 DEF ReadIsOfResolved, ExpectedOrNewer, EffectIsTrue, TempIsOurs,
                      Destroying, OfUpdate
  <2>9. StaleNotReplaced'
    BY <1>1, <2>6 DEF StaleNotReplaced, CallInv, CallOK
  <2>10. HandleIsOwn'
    BY <2>1, <2>2, <2>3, <2>5 DEF HandleIsOwn
  <2> QED
    BY <2>3, <2>5, <2>7, <2>8, <2>9, <2>10 DEF CallInv
<1> QED
  BY <1>1, <1>2, <1>3 DEF OpenNew

LEMMA FillNewPreserves ==
  ASSUME CallInv, phase = "patch", phase' = phase, FillNew
  PROVE  CallInv'
<1>1. /\ call.step = "fill" /\ call \in Calls /\ TreeAt(fs, clock) /\ clock \in Nat
      /\ call.lost = None /\ ~call.left /\ call.did = "opened" /\ call.operation = "create"
      /\ ~Present(Temp) /\ Created \in Contents
  BY PatchToolAssumption DEF FillNew, CallInv, CallOK, TempIsOurs
<1>2. ASSUME NEW effect \in {"partial", "raised"}, Ends(effect), Unchanged
      PROVE  CallInv'
  <2>1. Outcome(call, effect) /\ effect \in EffectStates
    BY <1>2 DEF Ends, EffectStates
  <2>2. TreeAt(fs', clock') /\ clock' \in Nat /\ ~Present(Temp)'
    BY <1>1, <1>2 DEF Unchanged, files, Present
  <2> QED
    BY <1>1, <2>1, <2>2, Returns
<1>3. ASSUME IF fs[Target].stamp = call.handle
             THEN fs' = [fs EXCEPT ![Target].content = Created] ELSE fs' = fs,
             clock' = clock, NEW effect \in {"complete", "partial", "unknown", "raised"},
             Outcome([call EXCEPT !.did = "created", !.wrote = Created], effect)
      PROVE  CallInv'
  <2> DEFINE c == [call EXCEPT !.did = "created", !.wrote = Created]
  <2>1. /\ c \in Calls /\ c.did = "created" /\ c.wrote = Created /\ c.lost = None /\ ~c.left
        /\ c.operation = "create"
    <3>1. c \in Calls /\ c.did = "created" /\ c.wrote = Created
      <4> DEFINE w == Created
      <4>1. call \in Calls /\ w \in Contents
        BY <1>1
      <4>2. c = [call EXCEPT !.did = "created", !.wrote = w]
        OBVIOUS
      <4> HIDE DEF w, c
      <4>3. c \in Calls /\ c.did = "created" /\ c.wrote = w
        BY ONLY <4>1, <4>2 DEF Calls
      <4> QED
        BY <4>3 DEF w
    <3>2. c.lost = call.lost /\ c.left = call.left /\ c.operation = call.operation
      BY <1>1 DEF Calls
    <3> QED
      BY <1>1, <3>1, <3>2
  <2>2. TreeAt(fs', clock') /\ clock' \in Nat /\ ~Present(Temp)'
    <3>1. CASE fs[Target].stamp = call.handle
      <4>1. fs[Target].kind = "regular"
        BY <1>1, <3>1 DEF CallInv, HandleIsOwn
      <4>2. TreeAt(fs', clock) /\ \A q \in Paths \ {Target} : fs'[q] = fs[q]
        BY <1>1, <1>3, <3>1, <4>1, Places, Rewritten
      <4> QED
        BY <1>1, <1>3, <4>2, Places DEF Present
    <3>2. CASE fs[Target].stamp # call.handle
      BY <1>1, <1>3, <3>2 DEF Present
    <3> QED
      BY <3>1, <3>2
  <2>3. Outcome(c, effect) /\ effect \in EffectStates
    BY <1>3 DEF EffectStates
  <2> HIDE DEF c
  <2> QED
    BY <2>1, <2>2, <2>3, Returns
<1> QED
  BY <1>1, <1>2, <1>3 DEF FillNew

LEMMA RemoveTargetPreserves ==
  ASSUME CallInv, phase = "patch", phase' = phase, NEW fault \in BOOLEAN, RemoveTarget(fault)
  PROVE  CallInv'
<1>1. /\ call.step = "remove" /\ call \in Calls /\ TreeAt(fs, clock) /\ clock \in Nat
      /\ ~call.left /\ call.operation = "delete" /\ ~Present(Temp)
  BY DEF RemoveTarget, CallInv, CallOK, TempIsOurs
<1>2. CASE Ends("unknown") /\ Unchanged
  BY <1>1, <1>2, EndsEarly
<1>3. ASSUME Put(Target, Gone(clock + 1)), NEW effect \in {"complete", "unknown", "raised"},
             Outcome([call EXCEPT !.did = "removed", !.lost = fs[Target]], effect)
      PROVE  CallInv'
  <2> DEFINE c == [call EXCEPT !.did = "removed", !.lost = fs[Target]]
  <2>1. fs[Target] \in Node /\ clock + 1 \in Nat
    BY <1>1, Places DEF TreeAt
  <2>2. /\ c \in Calls /\ c.did = "removed" /\ c.lost = fs[Target] /\ ~c.left
        /\ c.operation = "delete" /\ c.expected = call.expected /\ c.checkedAt = call.checkedAt
    BY <1>1, <2>1 DEF Calls
  <2>3. /\ Gone(clock + 1) \in Node /\ Gone(clock + 1).stamp = clock + 1
        /\ Gone(clock + 1).kind = "missing" /\ Gone(clock + 1).content = None
    BY <2>1, Nodes
  <2>4. /\ TreeAt(fs', clock') /\ clock' \in Nat
        /\ \A q \in Paths \ {Target} : fs'[q] = fs[q] \/ fs'[q] = Gone(clock + 1)
    BY <1>1, <1>3, <2>3, Places, PutFacts
  <2>5. ~Present(Temp)'
    BY <1>1, <2>3, <2>4, Places DEF Present
  <2>6. \/ c.lost.kind = "regular" /\ c.lost.content = c.expected
        \/ c.lost.stamp > c.checkedAt
    BY <1>1, <2>2 DEF CallInv, ExpectedOrNewer, Destroying
  <2>7. Outcome(c, effect) /\ effect \in EffectStates
    BY <1>3 DEF EffectStates
  <2> HIDE DEF c
  <2> QED
    BY <2>2, <2>4, <2>5, <2>6, <2>7, Returns
<1> QED
  BY <1>1, <1>2, <1>3 DEF RemoveTarget

LEMMA PatchStepPreserves ==
  ASSUME CallInv, phase = "patch", phase' = phase, NEW fault \in BOOLEAN,
         NEW cleaned \in BOOLEAN, PatchStep(fault, cleaned)
  PROVE  CallInv'
  BY AskPreserves, ResolveTargetPreserves, ReadTargetPreserves, ConfirmPreserves,
     GuardPreserves, RecheckPreserves, MakeTempPreserves, WriteTempPreserves,
     ReplacePreserves, OpenNewPreserves, FillNewPreserves, RemoveTargetPreserves
     DEF PatchStep

----------------------------------------------------------------------------
(* The outside editor *)

\* What a change does to the files: those it alters get the new stamp, and
\* none appears but at its path.
LEMMA ChangeFacts ==
  ASSUME TreeAt(fs, clock), clock \in Nat, NEW p \in Editable, Change(p)
  PROVE  /\ TreeAt(fs', clock') /\ clock' = clock + 1 /\ clock' \in Nat
         /\ \A q \in Paths : \/ fs'[q] = fs[q] /\ ~Within(q, p)
                             \/ fs'[q].stamp = clock + 1
         /\ \A q \in Paths \ {p} : fs'[q] = fs[q] \/ fs'[q] = Gone(clock + 1)
         /\ edits \in 0 .. MaxEdits => edits' \in 0 .. MaxEdits
<1>1. PICK node \in Node :
        /\ Put(p, node) /\ node.stamp = clock + 1
        /\ node.content # None <=> node.kind = "regular"
        /\ node.kind # "missing" => fs[Parent[p]].kind = "directory"
  <2>1. clock + 1 \in Nat /\ {"directory", "link"} \subseteq Kinds
    BY DEF Kinds
  <2>2. fs[Parent[p]].kind = "directory"
    BY DEF Change
  <2>3. ASSUME NEW c \in Contents, Put(p, File(clock + 1, c))
        PROVE  \E node \in Node :
                 /\ Put(p, node) /\ node.stamp = clock + 1
                 /\ node.content # None <=> node.kind = "regular"
                 /\ node.kind # "missing" => fs[Parent[p]].kind = "directory"
    <3>1. /\ File(clock + 1, c) \in Node /\ File(clock + 1, c).stamp = clock + 1
          /\ File(clock + 1, c).kind = "regular" /\ File(clock + 1, c).content = c
      BY <2>1, Nodes
    <3>2. c # None
      BY WorkspaceFilesAssumption
    <3> QED
      BY <2>2, <2>3, <3>1, <3>2
  <2>4. CASE Put(p, Special(clock + 1, "directory"))
    <3>1. /\ Special(clock + 1, "directory") \in Node /\ Special(clock + 1, "directory").stamp = clock + 1
          /\ Special(clock + 1, "directory").kind = "directory"
          /\ Special(clock + 1, "directory").content = None
      BY <2>1, Nodes
    <3> QED
      BY <2>2, <2>4, <3>1
  <2>5. CASE Put(p, Special(clock + 1, "link"))
    <3>1. /\ Special(clock + 1, "link") \in Node /\ Special(clock + 1, "link").stamp = clock + 1
          /\ Special(clock + 1, "link").kind = "link"
          /\ Special(clock + 1, "link").content = None
      BY <2>1, Nodes
    <3> QED
      BY <2>2, <2>5, <3>1
  <2>6. CASE Put(p, Gone(clock + 1))
    <3>1. /\ Gone(clock + 1) \in Node /\ Gone(clock + 1).stamp = clock + 1
          /\ Gone(clock + 1).kind = "missing" /\ Gone(clock + 1).content = None
      BY <2>1, Nodes
    <3> QED
      BY <2>2, <2>6, <3>1
  <2> QED
    BY <2>3, <2>4, <2>5, <2>6 DEF Change
<1>2. p \in Paths \ {Root}
  BY WorkspaceFilesAssumption
<1>3. /\ TreeAt(fs', clock') /\ clock' = clock + 1 /\ clock' \in Nat /\ fs'[p] = node
      /\ \A q \in Paths : \/ fs'[q] = fs[q] /\ q # p /\ ~Within(q, p)
                          \/ fs'[q].stamp = clock + 1
      /\ \A q \in Paths \ {p} : fs'[q] = fs[q] \/ fs'[q] = Gone(clock + 1)
  BY <1>1, <1>2, PutFacts
<1>4. edits \in 0 .. MaxEdits => edits' \in 0 .. MaxEdits
  BY WorkspaceFilesAssumption DEF Change
<1> QED
  BY <1>3, <1>4

LEMMA ChangeKeepsCall ==
  ASSUME CallInv, NEW p \in Editable, Change(p), call' = call, phase' = phase
  PROVE  CallInv'
<1>1. TreeAt(fs, clock) /\ clock \in Nat /\ call \in Calls
  BY DEF CallInv
<1>2. /\ TreeAt(fs', clock') /\ clock' = clock + 1 /\ clock' \in Nat
      /\ \A q \in Paths : fs'[q] = fs[q] \/ fs'[q].stamp = clock + 1
      /\ \A q \in Paths \ {p} : fs'[q] = fs[q] \/ fs'[q] = Gone(clock + 1)
  BY <1>1, ChangeFacts
<1>3. fs'[Target] = fs[Target] \/ fs'[Target].stamp = clock + 1
  BY <1>2, Places
<1>4. fs'[Temp] = fs[Temp] \/ (fs'[Temp] = Gone(clock + 1) /\ ~Present(Temp)'
                               /\ fs'[Temp].stamp = clock + 1)
  BY <1>1, <1>2, Places, PatchToolAssumption, Nodes DEF Present
<1>5. Present(Temp)' => Present(Temp) /\ fs'[Temp] = fs[Temp]
  BY <1>4 DEF Present
<1>6. CallOK'
  <2>1. call.resolved \in Signature => call.resolved.target \in Nat
    BY DEF Signature
  <2> QED
    BY <1>1, <1>2, <2>1 DEF CallInv, CallOK
<1>7. ReadIsOfResolved'
  <2> SUFFICES ASSUME call.step \in {"confirm", "recheck"}, call.operation # "create",
                      Present(Target)', fs'[Target].stamp = call.resolved.target
               PROVE  call.raw = fs'[Target].content
    BY DEF ReadIsOfResolved
  <2>1. call.resolved.target \in Nat /\ call.resolved.target <= clock
    BY DEF CallInv, CallOK, Signature
  <2>2. fs'[Target] = fs[Target]
    BY <1>1, <1>3, <2>1
  <2> QED
    BY <2>2 DEF CallInv, ReadIsOfResolved, Present
<1>8. ExpectedOrNewer'
  <2> SUFFICES ASSUME call.step \in Destroying
               PROVE  /\ call.checkedAt <= clock'
                      /\ \/ fs'[Target].kind = "regular" /\ fs'[Target].content = call.expected
                         \/ fs'[Target].stamp > call.checkedAt
    BY DEF ExpectedOrNewer
  <2>1. call.checkedAt \in Nat /\ call.checkedAt <= clock
        /\ (\/ fs[Target].kind = "regular" /\ fs[Target].content = call.expected
            \/ fs[Target].stamp > call.checkedAt)
    BY <1>1 DEF CallInv, ExpectedOrNewer, Calls
  <2> QED
    BY <1>1, <1>2, <1>3, <2>1
<1>9. HandleIsOwn'
  <2>1. ASSUME call.step \in {"write", "fill"} PROVE call.handle \in Nat /\ call.handle <= clock
    BY <2>1 DEF CallInv, HandleIsOwn
  <2>2. ASSUME call.step = "write"
        PROVE  /\ fs'[Temp].stamp = call.handle => fs'[Temp].kind = "regular"
               /\ Present(Temp)' => fs'[Temp].stamp = call.handle
    BY <1>1, <1>4, <1>5, <2>1, <2>2 DEF CallInv, HandleIsOwn
  <2>3. ASSUME call.step = "fill"
        PROVE  fs'[Target].stamp = call.handle => fs'[Target].kind = "regular"
    BY <1>1, <1>3, <2>1, <2>3 DEF CallInv, HandleIsOwn
  <2>4. call.step = "replace" /\ Present(Temp)' => fs'[Temp].content = Patched[call.expected]
    BY <1>5 DEF CallInv, HandleIsOwn
  <2> QED
    BY <1>1, <1>2, <2>1, <2>2, <2>3, <2>4 DEF HandleIsOwn
<1>10. TempIsOurs' /\ EffectIsTrue' /\ StaleNotReplaced'
  BY <1>5 DEF CallInv, TempIsOurs, EffectIsTrue, StaleNotReplaced
<1> QED
  BY <1>1, <1>2, <1>6, <1>7, <1>8, <1>9, <1>10 DEF CallInv

----------------------------------------------------------------------------
(* Views *)

LEMMA Viewed ==
  ASSUME TreeAt(fs, clock), NEW p \in Paths
  PROVE  /\ SizeOf(p) \in Nat /\ View(p) \in Views
         /\ View(p).kind = fs[p].kind /\ View(p).content = fs[p].content
         /\ View(p).size = SizeOf(p)
         /\ View(p).content # None <=> View(p).kind = "regular"
         /\ View(p).kind \in {"missing", "link", "other"} => View(p).size = 1
<1>1. fs[p] \in Node /\ (fs[p].content # None <=> fs[p].kind = "regular")
  BY DEF TreeAt, IsTree
<1>2. fs[p].kind \in Kinds /\ fs[p].content \in Contents \cup {None}
  BY <1>1 DEF Node
<1>3. Cardinality({q \in Children(p) : Present(q)}) \in Nat
  <2>1. {q \in Children(p) : Present(q)} \in SUBSET Paths
    BY DEF Children
  <2> QED
    BY <2>1, FS_Subset, FS_CardinalityType, WorkspaceFilesAssumption
<1>4. CASE fs[p].kind = "regular"
  <2>1. SizeOf(p) = Size[fs[p].content] /\ fs[p].content \in Contents
    BY <1>1, <1>2, <1>4 DEF SizeOf
  <2>2. SizeOf(p) \in Nat
    BY <2>1, WorkspaceFilesAssumption
  <2> QED
    BY <1>1, <1>2, <1>4, <2>2 DEF View, Views
<1>5. CASE fs[p].kind = "directory"
  <2>1. SizeOf(p) = Cardinality({q \in Children(p) : Present(q)})
    BY <1>5 DEF SizeOf
  <2> QED
    BY <1>1, <1>2, <1>3, <1>5, <2>1 DEF View, Views
<1>6. CASE fs[p].kind \notin {"regular", "directory"}
  <2>1. SizeOf(p) = 1
    BY <1>6 DEF SizeOf
  <2> QED
    BY <1>1, <1>2, <1>6, <2>1 DEF View, Views
<1> QED
  BY <1>4, <1>5, <1>6

\* A change of p is seen only in p, below it, and in the directory it is in.
LEMMA Undone ==
  ASSUME TreeAt(fs, clock), clock \in Nat, NEW p \in Editable, Change(p),
         NEW q \in Paths \ Disturbed(p)
  PROVE  /\ View(q)' = View(q)
         /\ \A a \in Above[q] : fs'[a] = fs[a]
<1>1. p \in Paths \ {Root}
  BY WorkspaceFilesAssumption
<1>2. \A r \in Paths : r \notin Below(p) => fs'[r] = fs[r]
  <2>1. PICK node : Put(p, node)
    BY DEF Change
  <2> QED
    BY <2>1, AboveIsClosed DEF Put, Below, Within
<1>3. q \notin Below(p) /\ q # Parent[p]
  BY DEF Disturbed
<1>4. ASSUME NEW a \in Above[q] PROVE fs'[a] = fs[a]
  <2>1. a \in Paths /\ Above[a] \subseteq Above[q]
    BY AboveTransitive
  <2>2. a \notin Below(p)
    BY <1>3, <2>1 DEF Below, Within
  <2> QED
    BY <1>2, <2>1, <2>2
<1>5. ASSUME NEW c \in Children(q) PROVE fs'[c] = fs[c]
  <2>1. c \in Paths \ {Root} /\ Parent[c] = q
    BY DEF Children
  <2>2. c \notin Below(p)
    BY <1>3, <2>1, AboveParent DEF Below, Within
  <2> QED
    BY <1>2, <2>1, <2>2
<1>6. {c \in Children(q) : Present(c)}' = {c \in Children(q) : Present(c)}
  BY <1>5 DEF Children, Present
<1>7. fs'[q] = fs[q]
  BY <1>2, <1>3
<1>8. SizeOf(q)' = SizeOf(q)
  BY <1>6, <1>7 DEF SizeOf
<1> QED
  BY <1>4, <1>7, <1>8 DEF View

----------------------------------------------------------------------------
(* Blind spots *)

LEMMA SpotFields ==
  ASSUME NEW p \in Paths, NEW reason \in Reasons, NEW subtree \in BOOLEAN
  PROVE  /\ Spot(p, reason, subtree) \in SpotSet
         /\ Spot(p, reason, subtree).path = p /\ Spot(p, reason, subtree).reason = reason
         /\ Spot(p, reason, subtree).subtree = subtree
         /\ Spot(p, reason, subtree).aggregate = FALSE
  BY DEF Spot, SpotSet

\* A spot over a subtree, for anything but content, hides all that is in it.
LEMMA SubtreeHides ==
  ASSUME NEW d \in Paths, NEW why \in Reasons \ ContentReasons, NEW p \in Paths, d \in Above[p]
  PROVE  Hides(Spot(d, why, TRUE), p)
  BY SpotFields DEF Hides, Within

\* What the excluded children seen leave behind: each hides what is below it.
LEMMA HiddenAreBlind ==
  ASSUME NEW d \in Paths, NEW seen \in SUBSET HiddenIn(d), NEW spots \in HiddenSpots(d, seen)
  PROVE  /\ spots \subseteq SpotSet /\ SpotsOK(spots)
         /\ \A c \in seen, p \in Paths : c \in Above[p] => \E s \in spots : Hides(s, p)
<1> DEFINE reasons == {Hidden[p] : p \in seen}
           Of(r) == {p \in seen : Hidden[p] = r}
           explicit(first, r) == Spot(first[r], r, TRUE)
           summary(r) == [Spot(d, r, FALSE) EXCEPT !.aggregate = TRUE]
<1>1. PICK first \in [reasons -> seen] :
        /\ \A r \in reasons : first[r] \in Of(r)
        /\ spots = UNION {{explicit(first, r)}
                            \cup (IF Cardinality(Of(r)) > 1 THEN {summary(r)} ELSE {})
                          : r \in reasons}
  BY DEF HiddenSpots
<1>2. seen \subseteq Paths \ {Root} /\ \A p \in seen : Hidden[p] \in ExclusionReasons
  BY WorkspaceFilesAssumption DEF HiddenIn, Children
<1>3. reasons \subseteq ExclusionReasons
  BY <1>2
<1>4. ASSUME NEW r \in reasons
      PROVE  /\ explicit(first, r) \in SpotSet /\ ~explicit(first, r).aggregate
             /\ explicit(first, r).path = first[r] /\ explicit(first, r).reason = r
             /\ explicit(first, r).subtree
             /\ summary(r) \in SpotSet /\ ~summary(r).subtree /\ summary(r).reason = r
             /\ summary(r).aggregate
  <2>1. r \in Reasons /\ first[r] \in Paths
    BY <1>1, <1>2, <1>3 DEF Reasons
  <2> QED
    BY <2>1 DEF Spot, SpotSet
<1> HIDE DEF explicit, summary
<1>5. ASSUME NEW s \in spots
      PROVE  s \in SpotSet /\ (s.aggregate => ~s.subtree /\ s.reason \in ExclusionReasons)
  <2>1. PICK r \in reasons : s \in {explicit(first, r), summary(r)}
    BY <1>1
  <2> QED
    BY <1>3, <1>4, <2>1
<1>6. ASSUME NEW c \in seen, NEW p \in Paths, c \in Above[p]
      PROVE  \E s \in spots : Hides(s, p)
  <2> DEFINE r == Hidden[c]
  <2>1. r \in reasons /\ r \in ExclusionReasons /\ r \notin ContentReasons
    BY <1>2 DEF ExclusionReasons, ContentReasons
  <2> HIDE DEF r
  <2>2. explicit(first, r) \in spots
    BY <1>1, <2>1
  <2>3. CASE first[r] = c
    BY <1>4, <1>6, <2>1, <2>2, <2>3 DEF Hides, Within
  <2>4. CASE first[r] # c
    <3>1. {c, first[r]} \in SUBSET Of(r) /\ IsFiniteSet(Of(r))
      <4>1. Of(r) \in SUBSET Paths
        BY <1>2
      <4>2. IsFiniteSet(Of(r))
        BY <4>1, FS_Subset, WorkspaceFilesAssumption
      <4> QED
        BY <1>1, <2>1, <4>2 DEF r
    <3>2. Cardinality({c, first[r]}) = 2
      <4>1. IsFiniteSet({c}) /\ Cardinality({c}) = 1 /\ first[r] \notin {c}
        BY <2>4, FS_Singleton
      <4>2. Cardinality({c} \cup {first[r]}) = Cardinality({c}) + 1
        BY <4>1, FS_AddElement
      <4>3. {c, first[r]} = {c} \cup {first[r]}
        OBVIOUS
      <4> QED
        BY <4>1, <4>2, <4>3
    <3>3. Cardinality(Of(r)) > 1
      <4>1. Cardinality({c, first[r]}) <= Cardinality(Of(r)) /\ Cardinality(Of(r)) \in Nat
        BY <3>1, FS_Subset, FS_CardinalityType
      <4> QED
        BY <3>2, <4>1
    <3>4. summary(r) \in spots
      <4> DEFINE of(x) == {explicit(first, x)}
                            \cup (IF Cardinality(Of(x)) > 1 THEN {summary(x)} ELSE {})
      <4>1. summary(r) \in of(r)
        BY <3>3
      <4>2. spots = UNION {of(x) : x \in reasons}
        BY <1>1
      <4> HIDE DEF of, reasons, Of
      <4> QED
        BY <2>1, <4>1, <4>2
    <3>5. c \in Above[p] \ {Root} /\ Hidden[c] = summary(r).reason /\ summary(r).aggregate
      BY <1>2, <1>4, <1>6, <2>1 DEF r
    <3> QED
      BY <3>4, <3>5 DEF Hides
  <2> QED
    BY <2>3, <2>4
<1> QED
  BY <1>5, <1>6 DEF SpotsOK

----------------------------------------------------------------------------
(* The walk *)

WalkInv ==
    /\ TreeAt(fs, clock) /\ clock \in Nat
    /\ limits \in LimitChoices /\ faults \in 0 .. MaxFaults
    /\ stopped \in Stops \cup {None} /\ disturbed \subseteq Paths
    /\ Cardinality(DOMAIN entries) <= limits.entries /\ observed <= limits.total
    /\ CaptureTypeOK /\ WalkOK /\ CaptureOK

\* What a step of the walk leaves alone.
SameCapture ==
    UNCHANGED <<files, limits, start, disturbed, phase>>

Top == Last(stack)

LEMMA TopFacts ==
  ASSUME WalkInv, stack # Idle
  PROVE  /\ Len(stack) \in Nat \ {0} /\ Top = stack[Len(stack)] /\ Top \in FrameSet
         /\ FrameOK(Top) /\ Top.dir \in Paths /\ Top.todo \in Seq(Paths)
         /\ stack \in Seq(FrameSet)
<1>1. stack \in Seq(FrameSet) /\ stack # <<>>
  BY DEF WalkInv, CaptureTypeOK, Idle
<1>2. Len(stack) \in Nat \ {0} /\ stack[Len(stack)] \in FrameSet
  BY <1>1
<1>3. FrameOK(stack[Len(stack)])
  BY <1>2 DEF WalkInv, WalkOK
<1> QED
  BY <1>1, <1>2, <1>3 DEF Top, Last, FrameSet

LEMMA PopFacts ==
  ASSUME WalkInv, stack # Idle
  PROVE  /\ Pop \in Seq(FrameSet) /\ Len(Pop) = Len(stack) - 1
         /\ \A i \in 1 .. Len(stack) - 1 : Pop[i] = stack[i]
<1>1. Len(stack) \in Nat \ {0} /\ stack \in Seq(FrameSet)
  BY TopFacts
<1> DEFINE n == Len(stack) - 1
<1>2. n \in Nat /\ \A i \in 1 .. n : stack[i] \in FrameSet
  BY <1>1
<1> HIDE DEF n
<1>3. /\ SubSeq(stack, 1, n) \in Seq(FrameSet)
      /\ Len(SubSeq(stack, 1, n)) = IF 1 <= n THEN n - 1 + 1 ELSE 0
      /\ \A i \in 1 .. n - 1 + 1 : SubSeq(stack, 1, n)[i] = stack[1 + i - 1]
  BY <1>2, SubSeqProperties
<1>4. n - 1 + 1 = n /\ \A i \in 1 .. n : 1 + i - 1 = i
  BY <1>2
<1>5. Len(SubSeq(stack, 1, n)) = n /\ \A i \in 1 .. n : SubSeq(stack, 1, n)[i] = stack[i]
  BY <1>2, <1>3, <1>4
<1> QED
  BY <1>3, <1>5 DEF Pop, n

LEMMA StepFacts ==
  ASSUME WalkInv, stack # Idle, Top.todo # <<>>
  PROVE  /\ Step \in Seq(FrameSet) /\ Len(Step) = Len(stack)
         /\ \A i \in 1 .. Len(stack) - 1 : Step[i] = stack[i]
         /\ Step[Len(stack)].dir = Top.dir /\ Step[Len(stack)].listed = Top.listed
         /\ Step[Len(stack)].todo = Tail(Top.todo)
         /\ Step[Len(stack)] \in FrameSet /\ FrameOK(Step[Len(stack)])
         /\ Head(Top.todo) \in Children(Top.dir) /\ Hidden[Head(Top.todo)] = None
<1>1. /\ Len(stack) \in Nat \ {0} /\ Top = stack[Len(stack)] /\ Top \in FrameSet
      /\ FrameOK(Top) /\ Top.dir \in Paths /\ Top.todo \in Seq(Paths)
      /\ stack \in Seq(FrameSet)
  BY TopFacts
<1> DEFINE n == Len(stack)
           f == [Top EXCEPT !.todo = Tail(Top.todo)]
<1>2. Tail(Top.todo) \in Seq(Paths) /\ Len(Tail(Top.todo)) = Len(Top.todo) - 1
      /\ Len(Top.todo) \in Nat \ {0}
      /\ (\A i \in 1 .. Len(Tail(Top.todo)) : Tail(Top.todo)[i] = Top.todo[i + 1])
  BY <1>1
<1>3. f \in FrameSet /\ f.dir = Top.dir /\ f.listed = Top.listed /\ f.todo = Tail(Top.todo)
  BY <1>1, <1>2 DEF FrameSet
<1>4. FrameOK(f)
  <2>1. Visible(f.dir)
    BY <1>1, <1>3 DEF FrameOK
  <2>2. ASSUME NEW i \in 1 .. Len(f.todo)
        PROVE  f.todo[i] \in Children(f.dir) /\ Hidden[f.todo[i]] = None
    <3>1. i + 1 \in 1 .. Len(Top.todo) /\ f.todo[i] = Top.todo[i + 1]
      BY <1>2, <1>3
    <3> QED
      BY <1>1, <1>3, <3>1 DEF FrameOK
  <2> QED
    BY <2>1, <2>2 DEF FrameOK
<1>5. Step = [stack EXCEPT ![n] = f]
  BY <1>1 DEF Step
<1> HIDE DEF f
<1>6. /\ Step \in Seq(FrameSet) /\ Len(Step) = n /\ Step[n] = f
      /\ \A i \in 1 .. n - 1 : Step[i] = stack[i]
  BY <1>1, <1>3, <1>5
<1>7. Head(Top.todo) \in Children(Top.dir) /\ Hidden[Head(Top.todo)] = None
  <2>1. Head(Top.todo) = Top.todo[1] /\ 1 \in 1 .. Len(Top.todo)
    BY <1>1, <1>2
  <2> QED
    BY <1>1, <2>1 DEF FrameOK
<1> QED
  BY <1>3, <1>4, <1>6, <1>7

\* A frame that has listed comes to its next candidate, or to what is left of it.
LEMMA NextOrLater ==
  ASSUME WalkInv, stack # Idle, Top.listed, Top.todo # <<>>, NEW p \in Paths, WillVisit(Top, p)
  PROVE  Head(Top.todo) \in Above[p] \/ WillVisit(Step[Len(stack)], p)
<1>1. PICK i \in 1 .. Len(Top.todo) : Top.todo[i] \in Above[p]
  BY DEF WillVisit
<1>2. Top.todo \in Seq(Paths)
  BY TopFacts
<1>3. CASE i = 1
  BY <1>1, <1>2, <1>3
<1>4. CASE i # 1
  <2>1. i - 1 \in 1 .. Len(Tail(Top.todo)) /\ Tail(Top.todo)[i - 1] = Top.todo[i]
    BY <1>1, <1>2, <1>4
  <2>2. Step[Len(stack)].listed /\ Step[Len(stack)].todo = Tail(Top.todo)
    BY StepFacts
  <2> QED
    BY <1>1, <2>1, <2>2 DEF WillVisit
<1> QED
  BY <1>3, <1>4

\* Leaving a frame with a spot over its directory hides all the frame would visit.
LEMMA LeavingHides ==
  ASSUME WalkInv, stack # Idle, NEW p \in Paths, WillVisit(Top, p),
         NEW why \in Reasons \ ContentReasons
  PROVE  Hides(Spot(Top.dir, why, TRUE), p)
<1>1. Top.dir \in Paths /\ FrameOK(Top)
  BY TopFacts
<1>2. Top.dir \in Above[p]
  <2>1. CASE Top.listed
    <3>1. PICK i \in 1 .. Len(Top.todo) : Top.todo[i] \in Above[p]
      BY <2>1 DEF WillVisit
    <3>2. Top.todo[i] \in Paths \ {Root} /\ Parent[Top.todo[i]] = Top.dir
      BY <1>1 DEF FrameOK, Children
    <3> QED
      BY <3>1, <3>2, AboveIsClosed DEF Closed
  <2>2. CASE ~Top.listed
    BY <2>2 DEF WillVisit
  <2> QED
    BY <2>1, <2>2
<1> QED
  BY <1>1, <1>2, SubtreeHides

\* What a step must establish: the rest of the invariant is about what it leaves alone.
LEMMA WalkPreserves ==
  ASSUME WalkInv, Capturing, SameCapture, faults' \in 0 .. MaxFaults,
         stopped' \in Stops \cup {None},
         Cardinality(DOMAIN entries') <= limits.entries, observed' <= limits.total,
         CaptureTypeOK', WalkOK', Sound(entries', start, disturbed),
         ReadingIsRegular', Covered'
  PROVE  WalkInv'
<1>1. /\ fs' = fs /\ clock' = clock /\ limits' = limits /\ start' = start
      /\ disturbed' = disturbed /\ phase' = phase
  BY DEF SameCapture, files
<1>2. Undisturbed' = Undisturbed
  BY <1>1 DEF Undisturbed, View, SizeOf, Present
<1>3. Sound(entries, start, disturbed)'
  BY <1>1 DEF Sound
<1>4. ViewsOK(start)' = ViewsOK(start)
  BY <1>1 DEF ViewsOK
<1>5. CaptureOK'
  BY <1>1, <1>2, <1>3, <1>4 DEF CaptureOK, WalkInv
<1> QED
  BY <1>1, <1>5 DEF WalkInv

LEMMA KnownStays ==
  ASSUME NEW p, NEW seen, NEW more, NEW spots, NEW others,
         DOMAIN seen \subseteq DOMAIN more, spots \subseteq others, Known(p, seen, spots)
  PROVE  Known(p, more, others)
  BY DEF Known

\* The walk leaves a frame, with spots that hide all the frame would visit.
LEMMA AbandonPreserves ==
  ASSUME WalkInv, Capturing, SameCapture, faults' \in 0 .. MaxFaults,
         stopped' \in Stops \cup {None}, stack # Idle, reading = None,
         NEW spots, Abandon(spots), spots \subseteq SpotSet, SpotsOK(spots),
         \A p \in Paths : WillVisit(Top, p) => \E s \in spots : Hides(s, p)
  PROVE  WalkInv'
<1>1. /\ stack' = Pop /\ blind' = blind \cup spots
      /\ entries' = entries /\ observed' = observed /\ reading' = reading
  BY DEF Abandon
<1>2. /\ start' = start /\ disturbed' = disturbed /\ limits' = limits /\ phase' = phase
  BY DEF SameCapture
<1>3. /\ Pop \in Seq(FrameSet) /\ Len(Pop) = Len(stack) - 1 /\ Len(stack) \in Nat \ {0}
      /\ \A i \in 1 .. Len(stack) - 1 : Pop[i] = stack[i]
  BY PopFacts, TopFacts
<1>4. CaptureTypeOK'
  BY <1>1, <1>2, <1>3 DEF CaptureTypeOK, WalkInv
<1>5. WalkOK'
  <2>1. \A i \in 1 .. Len(Pop) : FrameOK(Pop[i])
    BY <1>3 DEF WalkInv, WalkOK
  <2>2. SpotsOK(blind \cup spots) /\ UnreadIsBlind(entries, blind \cup spots)
    BY DEF WalkInv, WalkOK, SpotsOK, UnreadIsBlind
  <2>3. \A p \in DOMAIN entries : Visible(p)
    BY DEF WalkInv, WalkOK
  <2> QED
    BY <1>1, <1>2, <2>1, <2>2, <2>3 DEF WalkOK, Capturing
<1>6. Covered'
  <2> SUFFICES ASSUME NEW p \in Paths \ ({Root} \cup disturbed), start[p].kind # "missing"
               PROVE  \/ Known(p, entries, blind \cup spots)
                      \/ \E i \in 1 .. Len(Pop) : WillVisit(Pop[i], p)
    BY <1>1, <1>2 DEF Covered
  <2>1. Known(p, entries, blind) \/ \E i \in 1 .. Len(stack) : WillVisit(stack[i], p)
    BY DEF WalkInv, CaptureOK, Covered
  <2>2. CASE Known(p, entries, blind)
    BY <2>2, KnownStays
  <2>3. ASSUME NEW i \in 1 .. Len(stack), WillVisit(stack[i], p)
        PROVE  \/ Known(p, entries, blind \cup spots)
               \/ \E j \in 1 .. Len(Pop) : WillVisit(Pop[j], p)
    <3>1. CASE i = Len(stack)
      <4>1. WillVisit(Top, p)
        BY <2>3, <3>1, TopFacts
      <4> QED
        BY <4>1 DEF Known
    <3>2. CASE i # Len(stack)
      BY <1>3, <2>3, <3>2
    <3> QED
      BY <3>1, <3>2
  <2> QED
    BY <2>1, <2>2, <2>3
<1>7. ReadingIsRegular' /\ Sound(entries', start, disturbed)
  BY <1>1, <1>2 DEF ReadingIsRegular, WalkInv, CaptureOK
<1>8. Cardinality(DOMAIN entries') <= limits.entries /\ observed' <= limits.total
  BY <1>1 DEF WalkInv
<1> QED
  BY <1>4, <1>5, <1>6, <1>7, <1>8, WalkPreserves

LEMMA AscendPreserves ==
  ASSUME WalkInv, Capturing, SameCapture, Ascend
  PROVE  WalkInv'
<1>1. stack # Idle /\ reading = None /\ Top.listed /\ Top.todo = <<>> /\ Abandon({})
      /\ faults' = faults /\ stopped' = stopped
  BY DEF Ascend, Abandon, Top
<1>2. \A p \in Paths : ~WillVisit(Top, p)
  BY <1>1 DEF WillVisit
<1>3. SpotsOK({}) /\ {} \subseteq SpotSet
  BY DEF SpotsOK
<1>4. faults' \in 0 .. MaxFaults /\ stopped' \in Stops \cup {None}
  BY <1>1 DEF WalkInv
<1> QED
  BY <1>1, <1>2, <1>3, <1>4, AbandonPreserves

LEMMA Faults ==
  ASSUME WalkInv, Fault \/ NoFault
  PROVE  faults' \in 0 .. MaxFaults
  BY ObserverAssumption DEF WalkInv, Fault, NoFault

LEMMA StopReasons ==
  ASSUME WalkInv, NEW why \in MayStop
  PROVE  /\ why \in Reasons \ ContentReasons /\ why \in Stops
         /\ StopsFor(why) => faults' \in 0 .. MaxFaults /\ stopped' \in Stops \cup {None}
<1>1. why \in Stops
  BY DEF MayStop, WalkInv
<1>2. StopsFor(why) => faults' \in 0 .. MaxFaults
  BY Faults DEF StopsFor
<1> QED
  BY <1>1, <1>2, ObserverAssumption DEF StopsFor, Reasons, ContentReasons

\* Leaving the frame of Top for a reason that is not about content.
LEMMA GiveUpPreserves ==
  ASSUME WalkInv, Capturing, SameCapture, faults' \in 0 .. MaxFaults,
         stopped' \in Stops \cup {None}, stack # Idle, reading = None,
         NEW why \in Reasons \ ContentReasons, NEW spots \in SUBSET SpotSet, SpotsOK(spots),
         Abandon(spots \cup {Spot(Top.dir, why, TRUE)})
  PROVE  WalkInv'
<1>1. Top.dir \in Paths
  BY TopFacts
<1>2. /\ Spot(Top.dir, why, TRUE) \in SpotSet /\ Spot(Top.dir, why, TRUE).aggregate = FALSE
  BY <1>1, SpotFields
<1>3. SpotsOK(spots \cup {Spot(Top.dir, why, TRUE)})
  BY <1>2 DEF SpotsOK
<1>4. \A p \in Paths : WillVisit(Top, p) => Hides(Spot(Top.dir, why, TRUE), p)
  BY LeavingHides
<1> QED
  BY <1>2, <1>3, <1>4, AbandonPreserves

LEMMA AlwaysReasons ==
  {"entries_limit", "filesystem_error"} \subseteq Reasons \ ContentReasons
  BY DEF Reasons, ContentReasons

\* What is above a path no one changed, and there when the capture began.
LEMMA StillThere ==
  ASSUME WalkInv, Capturing, NEW p \in Paths \ disturbed, start[p].kind # "missing",
         NEW a \in Above[p]
  PROVE  /\ a \in Paths /\ Present(a) /\ fs[a].kind = start[a].kind
         /\ a # p => fs[a].kind = "directory"
<1>1. Undisturbed /\ TreeAt(fs, clock)
  BY DEF WalkInv, CaptureOK
<1>2. p \in Above[p] /\ a \in Paths
  BY AboveIsClosed
<1>3. fs[p].kind = start[p].kind /\ fs[a].kind = start[a].kind
  BY <1>1, <1>2 DEF Undisturbed
<1>4. a # p => fs[a].kind = "directory"
  BY <1>1, <1>3, AboveDirectories DEF TreeAt
<1> QED
  BY <1>2, <1>3, <1>4 DEF Present

\* The candidates of a directory in an order are a sequence of just these.
LEMMA OrderingFacts ==
  ASSUME NEW d \in Paths, NEW ordered \in Orderings(d)
  PROVE  /\ ordered \in Seq(Candidates(d)) /\ Len(ordered) \in Nat
         /\ \A c \in Candidates(d) : \E i \in 1 .. Len(ordered) : ordered[i] = c
<1>1. Cardinality(Candidates(d)) \in Nat
  <2>1. Candidates(d) \in SUBSET Paths
    BY DEF Candidates, Children
  <2> QED
    BY <2>1, FS_Subset, FS_CardinalityType, WorkspaceFilesAssumption
<1>2. /\ ordered \in [1 .. Cardinality(Candidates(d)) -> Candidates(d)]
      /\ ToSet(ordered) = Candidates(d)
  BY DEF Orderings
<1>3. ordered \in Seq(Candidates(d))
  BY <1>1, <1>2, SeqDef
<1>4. DOMAIN ordered = 1 .. Len(ordered) /\ Len(ordered) \in Nat
  BY <1>3
<1> QED
  BY <1>2, <1>3, <1>4 DEF ToSet

\* The part of a sequence that fits.
LEMMA Prefix ==
  ASSUME NEW S, NEW T, S \subseteq T, NEW s \in Seq(S), NEW k \in Nat, NEW t,
         t = IF Len(s) <= k THEN s ELSE SubSeq(s, 1, k)
  PROVE  /\ t \in Seq(T) /\ Len(t) \in Nat
         /\ \A i \in 1 .. Len(t) : t[i] \in S
         /\ Len(s) <= k => t = s
<1>1. t \in Seq(S)
  <2>1. CASE Len(s) <= k
    BY <2>1
  <2>2. CASE ~(Len(s) <= k)
    <3>1. Len(s) \in Nat /\ t = SubSeq(s, 1, k)
      BY <2>2
    <3>2. \A i \in 1 .. k : i \in 1 .. Len(s)
      BY <2>2, <3>1
    <3>3. \A i \in 1 .. k : s[i] \in S
      BY <3>2
    <3>4. SubSeq(s, 1, k) \in Seq(S)
      BY <3>3, SubSeqProperties
    <3> QED
      BY <3>1, <3>4
  <2> QED
    BY <2>1, <2>2
<1>2. Len(t) \in Nat /\ \A i \in 1 .. Len(t) : t[i] \in S
  BY <1>1
<1>3. t \in Seq(T)
  <2> DEFINE n == Len(t)
  <2>1. n \in Nat /\ t \in [1 .. n -> S]
    BY <1>1, LenProperties
  <2> HIDE DEF n
  <2>2. t \in [1 .. n -> T]
    BY <2>1
  <2> QED
    BY <2>1, <2>2
<1> QED
  BY <1>2, <1>3

LEMMA ReplaceLast ==
  ASSUME NEW S, NEW s \in Seq(S), Len(s) \in Nat \ {0}, NEW f \in S, NEW t,
         t = [s EXCEPT ![Len(s)] = f]
  PROVE  /\ t \in Seq(S) /\ Len(t) = Len(s) /\ t[Len(s)] = f
         /\ \A i \in 1 .. Len(s) - 1 : t[i] = s[i]
  OBVIOUS

\* A listed directory: the frame comes to the children that fit, and blind
\* spots hide the others.
LEMMA ListedPreserves ==
  ASSUME WalkInv, Capturing, SameCapture, faults' \in 0 .. MaxFaults, stopped' = stopped,
         stack # Idle, reading = None, ~Top.listed,
         NEW available \in Nat, NEW ordered \in Orderings(Top.dir),
         NEW spots \in HiddenSpots(Top.dir, HiddenIn(Top.dir)),
         NEW todo, todo = IF Len(ordered) <= available THEN ordered
                          ELSE SubSeq(ordered, 1, available),
         NEW cut, cut = IF Len(ordered) <= available THEN {}
                        ELSE {Spot(Top.dir, "entries_limit", TRUE)},
         stack' = [stack EXCEPT ![Len(stack)] =
                     [dir |-> Top.dir, listed |-> TRUE, todo |-> todo]],
         blind' = blind \cup spots \cup cut,
         UNCHANGED <<entries, observed, reading>>
  PROVE  WalkInv'
<1> DEFINE d == Top.dir
           n == Len(stack)
           f == [dir |-> d, listed |-> TRUE, todo |-> todo]
<1>1. /\ n \in Nat \ {0} /\ Top = stack[n] /\ FrameOK(Top) /\ d \in Paths
      /\ stack \in Seq(FrameSet) /\ d = Top.dir /\ n = Len(stack)
  BY TopFacts
<1>2. /\ start' = start /\ disturbed' = disturbed /\ limits' = limits /\ phase' = phase
      /\ entries' = entries /\ observed' = observed /\ reading' = reading
  BY DEF SameCapture
<1>3. /\ ordered \in Seq(Candidates(d)) /\ Len(ordered) \in Nat
      /\ \A c \in Candidates(d) : \E i \in 1 .. Len(ordered) : ordered[i] = c
  BY <1>1, OrderingFacts
<1>4. Candidates(d) \subseteq Children(d) /\ Children(d) \subseteq Paths
      /\ \A c \in Candidates(d) : Hidden[c] = None
  BY DEF Candidates, Children
<1> HIDE DEF d, n
<1>5. /\ todo \in Seq(Paths) /\ Len(todo) \in Nat
      /\ \A i \in 1 .. Len(todo) : todo[i] \in Candidates(d)
      /\ Len(ordered) <= available => todo = ordered
  <2>1. Candidates(d) \subseteq Paths
    BY <1>4
  <2> QED
    BY <1>3, <2>1, Prefix, SMTT(60)
<1>6. f \in FrameSet /\ FrameOK(f) /\ f.listed /\ f.todo = todo
  <2>1. \A i \in 1 .. Len(todo) : todo[i] \in Children(d) /\ Hidden[todo[i]] = None
    BY <1>4, <1>5
  <2>2. f \in FrameSet
    BY <1>1, <1>5 DEF FrameSet
  <2>3. f.dir = d /\ f.todo = todo /\ Visible(d)
    BY <1>1 DEF FrameOK
  <2> QED
    BY <2>1, <2>2, <2>3 DEF FrameOK
<1> HIDE DEF f
<1>7. /\ stack' = [stack EXCEPT ![n] = f]
      /\ stack' \in Seq(FrameSet) /\ Len(stack') = n /\ stack'[n] = f
      /\ \A i \in 1 .. n - 1 : stack'[i] = stack[i]
  <2>1. stack' = [stack EXCEPT ![n] = f]
    BY <1>1 DEF f
  <2>2. stack' = [stack EXCEPT ![Len(stack)] = f] /\ Len(stack) \in Nat \ {0}
    BY <1>1, <2>1
  <2>3. /\ stack' \in Seq(FrameSet) /\ Len(stack') = Len(stack) /\ stack'[Len(stack)] = f
        /\ \A i \in 1 .. Len(stack) - 1 : stack'[i] = stack[i]
    <3>1. PICK next : next = [stack EXCEPT ![Len(stack)] = f]
      OBVIOUS
    <3>2. f \in FrameSet /\ stack \in Seq(FrameSet) /\ Len(stack) \in Nat \ {0}
      BY <1>1, <1>6
    <3>3. /\ next \in Seq(FrameSet) /\ Len(next) = Len(stack) /\ next[Len(stack)] = f
          /\ \A i \in 1 .. Len(stack) - 1 : next[i] = stack[i]
      <4> HIDE DEF FrameSet
      <4> QED
      BY ONLY <3>1, <3>2, ReplaceLast
    <3> QED
      BY <2>2, <3>1, <3>3
  <2> QED
    BY <1>1, <2>1, <2>3
<1>8. /\ cut \subseteq SpotSet /\ SpotsOK(cut)
      /\ Len(ordered) <= available \/ Spot(d, "entries_limit", TRUE) \in cut
  <2>1. /\ Spot(d, "entries_limit", TRUE) \in SpotSet
        /\ Spot(d, "entries_limit", TRUE).aggregate = FALSE
    BY <1>1, SpotFields, AlwaysReasons
  <2>2. CASE Len(ordered) <= available
    BY <2>2 DEF SpotsOK
  <2>3. CASE ~(Len(ordered) <= available)
    <3>1. cut = {Spot(d, "entries_limit", TRUE)}
      BY <1>1, <2>3
    <3> QED
      BY <2>1, <3>1 DEF SpotsOK
  <2> QED
    BY <2>2, <2>3
<1>9. spots \subseteq SpotSet /\ SpotsOK(spots)
      /\ \A c \in HiddenIn(d), p \in Paths : c \in Above[p] => \E s \in spots : Hides(s, p)
  BY <1>1, HiddenAreBlind
<1>10. CaptureTypeOK'
  BY <1>2, <1>7, <1>8, <1>9 DEF CaptureTypeOK, WalkInv
<1>11. WalkOK'
  <2>1. \A i \in 1 .. Len(stack') : FrameOK(stack'[i])
    <3>1. \A i \in 1 .. n : FrameOK(stack[i])
      BY <1>1 DEF WalkInv, WalkOK
    <3>2. \A i \in 1 .. n : i \in 1 .. n - 1 \/ i = n
      BY <1>1
    <3> QED
      BY <1>6, <1>7, <3>1, <3>2
  <2>2. SpotsOK(blind') /\ UnreadIsBlind(entries, blind')
    BY <1>8, <1>9 DEF WalkInv, WalkOK, SpotsOK, UnreadIsBlind
  <2>3. \A p \in DOMAIN entries : Visible(p)
    BY DEF WalkInv, WalkOK
  <2> QED
    BY <1>2, <2>1, <2>2, <2>3 DEF WalkOK, Capturing
<1>12. Covered'
  <2> SUFFICES ASSUME NEW p \in Paths \ ({Root} \cup disturbed), start[p].kind # "missing"
               PROVE  \/ Known(p, entries, blind')
                      \/ \E i \in 1 .. n : WillVisit(stack'[i], p)
    BY <1>2, <1>7 DEF Covered
  <2>1. Known(p, entries, blind) \/ \E i \in 1 .. n : WillVisit(stack[i], p)
    BY <1>1 DEF WalkInv, CaptureOK, Covered
  <2>2. CASE Known(p, entries, blind)
    BY <2>2, KnownStays
  <2>3. ASSUME NEW i \in 1 .. n - 1, WillVisit(stack[i], p)
        PROVE  \E j \in 1 .. n : WillVisit(stack'[j], p)
    <3>1. i \in 1 .. n /\ stack'[i] = stack[i]
      BY <1>1, <1>7
    <3> QED
      BY <2>3, <3>1
  <2>4. ASSUME WillVisit(Top, p)
        PROVE  Known(p, entries, blind') \/ WillVisit(stack'[n], p)
    <3>1. d # p /\ d \in Above[p]
      BY <1>1, <2>4 DEF WillVisit
    <3>2. PICK c \in Above[p] \ {Root} : Parent[c] = d
      BY <3>1, AboveChild
    <3>3. c \in Paths /\ Present(c) /\ c \in Children(d)
      BY <3>2, StillThere DEF Children
    <3>4. CASE Hidden[c] # None
      <4>1. c \in HiddenIn(d)
        BY <3>3, <3>4 DEF HiddenIn
      <4>2. \E s \in spots : Hides(s, p)
        BY <1>9, <3>2, <4>1
      <4> QED
        BY <4>2 DEF Known
    <3>5. CASE Hidden[c] = None /\ Len(ordered) <= available
      <4>1. PICK i \in 1 .. Len(ordered) : ordered[i] = c
        BY <1>3, <3>3, <3>5 DEF Candidates
      <4> QED
        BY <1>5, <1>6, <1>7, <3>2, <3>5, <4>1 DEF WillVisit
    <3>6. CASE ~(Len(ordered) <= available)
      <4>1. Hides(Spot(d, "entries_limit", TRUE), p)
        BY <1>1, <3>1, SubtreeHides, AlwaysReasons
      <4> QED
        BY <1>8, <3>6, <4>1 DEF Known
    <3> QED
      BY <3>4, <3>5, <3>6
  <2>5. n \in 1 .. n /\ \A i \in 1 .. n : i \in 1 .. n - 1 \/ i = n
    BY <1>1
  <2> QED
    BY <1>1, <2>1, <2>2, <2>3, <2>4, <2>5
<1>13. ReadingIsRegular' /\ Sound(entries', start, disturbed)
  BY <1>2 DEF ReadingIsRegular, WalkInv, CaptureOK
<1>14. /\ Cardinality(DOMAIN entries') <= limits.entries /\ observed' <= limits.total
       /\ stopped' \in Stops \cup {None}
  BY <1>2 DEF WalkInv
<1> QED
  BY <1>10, <1>11, <1>12, <1>13, <1>14, WalkPreserves

LEMMA ListPreserves ==
  ASSUME WalkInv, Capturing, SameCapture, List
  PROVE  WalkInv'
<1> DEFINE d == Top.dir
           available == limits.entries - Cardinality(DOMAIN entries)
<1>1. stack # Idle /\ reading = None /\ ~Top.listed /\ d \in Paths
  BY TopFacts DEF List, Top
<1>2. ASSUME NEW seen \in SUBSET HiddenIn(d), NEW spots \in HiddenSpots(d, seen)
      PROVE  spots \in SUBSET SpotSet /\ SpotsOK(spots)
  BY <1>1, HiddenAreBlind
<1>3. ASSUME NEW why \in MayStop, NEW seen \in SUBSET HiddenIn(d), StopsFor(why),
             NEW spots \in HiddenSpots(d, seen), Abandon(spots \cup {Spot(d, why, TRUE)})
      PROVE  WalkInv'
  BY <1>1, <1>2, <1>3, StopReasons, GiveUpPreserves
<1>4. ASSUME NoFault, Abandon({Spot(d, "entries_limit", TRUE)}), stopped' = stopped
      PROVE  WalkInv'
  <2>1. {} \in SUBSET SpotSet /\ SpotsOK({})
        /\ {} \cup {Spot(d, "entries_limit", TRUE)} = {Spot(d, "entries_limit", TRUE)}
    BY DEF SpotsOK
  <2>2. faults' \in 0 .. MaxFaults /\ stopped' \in Stops \cup {None}
    BY <1>4, Faults DEF WalkInv
  <2>3. "entries_limit" \in Reasons \ ContentReasons
    BY AlwaysReasons
  <2> HIDE DEF d
  <2>4. Abandon({} \cup {Spot(Top.dir, "entries_limit", TRUE)})
    BY <1>4, <2>1 DEF d
  <2> QED
    BY <1>1, <2>1, <2>2, <2>3, <2>4, GiveUpPreserves
<1>5. ASSUME Fault \/ NoFault, NEW seen \in SUBSET HiddenIn(d),
             NEW spots \in HiddenSpots(d, seen), stopped' = stopped,
             Abandon(spots \cup {Spot(d, "filesystem_error", TRUE)})
      PROVE  WalkInv'
  <2>1. faults' \in 0 .. MaxFaults /\ stopped' \in Stops \cup {None}
    BY <1>5, Faults DEF WalkInv
  <2>2. "filesystem_error" \in Reasons \ ContentReasons
    BY AlwaysReasons
  <2> QED
    BY <1>1, <1>2, <1>5, <2>1, <2>2, GiveUpPreserves
<1>6. ASSUME available > 0, NoFault, UNCHANGED <<entries, observed, reading, stopped>>,
             NEW ordered \in Orderings(d), NEW spots \in HiddenSpots(d, HiddenIn(d)),
             stack' = [stack EXCEPT ![Len(stack)] =
                 [dir |-> d, listed |-> TRUE,
                  todo |-> IF Len(ordered) <= available THEN ordered
                           ELSE SubSeq(ordered, 1, available)]],
             blind' = blind \cup spots \cup
                 (IF Len(ordered) <= available THEN {} ELSE {Spot(d, "entries_limit", TRUE)})
      PROVE  WalkInv'
  <2>1. available \in Nat
    <3>1. DOMAIN entries \in SUBSET Paths
      BY DEF WalkInv, CaptureTypeOK
    <3>2. Cardinality(DOMAIN entries) \in Nat
      BY <3>1, FS_Subset, FS_CardinalityType, WorkspaceFilesAssumption
    <3>3. limits.entries \in Nat
      BY ObserverAssumption DEF WalkInv, Limits
    <3> QED
      BY <1>6, <3>2, <3>3
  <2>2. faults' \in 0 .. MaxFaults
    BY <1>6, Faults
  <2> HIDE DEF d, available
  <2> DEFINE todo == IF Len(ordered) <= available THEN ordered
                     ELSE SubSeq(ordered, 1, available)
             cut == IF Len(ordered) <= available THEN {} ELSE {Spot(d, "entries_limit", TRUE)}
  <2>3. /\ stack' = [stack EXCEPT ![Len(stack)] = [dir |-> d, listed |-> TRUE, todo |-> todo]]
        /\ blind' = blind \cup spots \cup cut
        /\ UNCHANGED <<entries, observed, reading>> /\ stopped' = stopped
    BY <1>6
  <2> QED
    BY <1>1, <1>6, <2>1, <2>2, <2>3, ListedPreserves DEF d
<1> QED
  BY <1>3, <1>4, <1>5, <1>6 DEF List, Top

\* An entry is added to those observed: it is true of a path no one changed,
\* and has a blind spot if it is a file whose content was not read.
LEMMA AddFacts ==
  ASSUME NEW p, NEW entry, Add(p, entry)
  PROVE  /\ DOMAIN entries' = DOMAIN entries \cup {p} /\ entries'[p] = entry
         /\ \A q \in DOMAIN entries \ {p} : entries'[q] = entries[q]
  BY DEF Add

LEMMA EntryAdded ==
  ASSUME WalkInv, Capturing, Cardinality(DOMAIN entries) < limits.entries,
         NEW p \in Paths, Visible(p), NEW entry \in EntrySet, Add(p, entry),
         p \notin disturbed => /\ entry.kind = start[p].kind /\ entry.size = start[p].size
                               /\ entry.digest \in {None, start[p].content},
         NEW spots,
         entry.kind = "regular" /\ entry.digest = None
           => \E s \in spots : s.path = p /\ ~s.aggregate
  PROVE  /\ p \in DOMAIN entries' /\ DOMAIN entries \subseteq DOMAIN entries'
         /\ DOMAIN entries' \subseteq Paths
         /\ \A q \in DOMAIN entries' : entries'[q] \in EntrySet /\ Visible(q)
         /\ Cardinality(DOMAIN entries') <= limits.entries
         /\ Sound(entries', start, disturbed) /\ UnreadIsBlind(entries', blind \cup spots)
<1>1. /\ DOMAIN entries' = DOMAIN entries \cup {p} /\ entries'[p] = entry
      /\ \A q \in DOMAIN entries \ {p} : entries'[q] = entries[q]
  BY AddFacts
<1>2. /\ DOMAIN entries \subseteq Paths
      /\ \A q \in DOMAIN entries : entries[q] \in EntrySet /\ Visible(q)
      /\ Sound(entries, start, disturbed) /\ UnreadIsBlind(entries, blind)
  BY DEF WalkInv, CaptureTypeOK, WalkOK, CaptureOK
<1>3. Cardinality(DOMAIN entries') <= limits.entries
  <2>1. IsFiniteSet(DOMAIN entries) /\ Cardinality(DOMAIN entries) \in Nat
    <3>1. DOMAIN entries \in SUBSET Paths
      BY <1>2
    <3> QED
      BY <3>1, FS_Subset, FS_CardinalityType, WorkspaceFilesAssumption
  <2>2. limits.entries \in Nat
    BY ObserverAssumption DEF WalkInv, Limits
  <2>3. Cardinality(DOMAIN entries \cup {p}) \in {Cardinality(DOMAIN entries),
                                                  Cardinality(DOMAIN entries) + 1}
    BY <2>1, FS_AddElement
  <2> QED
    BY <1>1, <2>1, <2>2, <2>3
<1>4. ASSUME NEW q \in DOMAIN entries'
      PROVE  entries'[q] \in EntrySet /\ Visible(q)
  BY <1>1, <1>2
<1>5. Sound(entries', start, disturbed)
  <2> SUFFICES ASSUME NEW q \in DOMAIN entries' \ disturbed
               PROVE  /\ entries'[q].kind = start[q].kind /\ entries'[q].size = start[q].size
                      /\ entries'[q].digest \in {None, start[q].content}
    BY DEF Sound
  <2>1. CASE q # p
    BY <1>1, <1>2, <2>1 DEF Sound
  <2>2. CASE q = p
    BY <1>1, <2>2
  <2> QED
    BY <2>1, <2>2
<1>6. UnreadIsBlind(entries', blind \cup spots)
  <2> SUFFICES ASSUME NEW q \in DOMAIN entries', entries'[q].kind = "regular",
                      entries'[q].digest = None
               PROVE  \E s \in blind \cup spots : s.path = q /\ ~s.aggregate
    BY DEF UnreadIsBlind
  <2>1. CASE q # p
    <3>1. \E s \in blind : s.path = q /\ ~s.aggregate
      BY <1>1, <1>2, <2>1 DEF UnreadIsBlind
    <3> QED
      BY <3>1
  <2>2. CASE q = p
    BY <1>1, <2>2
  <2> QED
    BY <2>1, <2>2
<1> QED
  BY <1>1, <1>2, <1>3, <1>4, <1>5, <1>6

\* The top frame has dealt with its next candidate.
LEMMA VisitedPreserves ==
  ASSUME WalkInv, Capturing, SameCapture, faults' \in 0 .. MaxFaults,
         stopped' \in Stops \cup {None}, stack # Idle, Top.listed, Top.todo # <<>>,
         NEW next \in Seq(FrameSet), stack' = next, Len(next) >= Len(stack),
         \A i \in 1 .. Len(stack) : next[i] = Step[i],
         \A i \in 1 .. Len(next) : FrameOK(next[i]),
         NEW spots, spots \subseteq SpotSet, SpotsOK(spots), blind' = blind \cup spots,
         DOMAIN entries \subseteq DOMAIN entries', DOMAIN entries' \subseteq Paths,
         \A q \in DOMAIN entries' : entries'[q] \in EntrySet /\ Visible(q),
         Cardinality(DOMAIN entries') <= limits.entries,
         Sound(entries', start, disturbed), UnreadIsBlind(entries', blind'),
         observed' \in Nat, observed' <= limits.total, reading' = None,
         \A q \in Paths \ ({Root} \cup disturbed) :
           start[q].kind # "missing" /\ Head(Top.todo) \in Above[q]
             => \/ Known(q, entries', blind')
                \/ \E j \in 1 .. Len(next) : WillVisit(next[j], q)
  PROVE  WalkInv'
<1>1. /\ start' = start /\ disturbed' = disturbed /\ limits' = limits /\ phase' = phase
  BY DEF SameCapture
<1>2. Len(stack) \in Nat \ {0} /\ Top = stack[Len(stack)] /\ Len(next) \in Nat
  BY TopFacts
<1>3. CaptureTypeOK'
  BY <1>1 DEF CaptureTypeOK, WalkInv
<1>4. WalkOK'
  <2>1. SpotsOK(blind')
    BY DEF WalkInv, WalkOK, SpotsOK
  <2> QED
    BY <1>1, <2>1 DEF WalkOK, Capturing
<1>5. Covered'
  <2> SUFFICES ASSUME NEW q \in Paths \ ({Root} \cup disturbed), start[q].kind # "missing"
               PROVE  \/ Known(q, entries', blind')
                      \/ \E j \in 1 .. Len(next) : WillVisit(next[j], q)
    BY <1>1 DEF Covered
  <2>1. Known(q, entries, blind) \/ \E i \in 1 .. Len(stack) : WillVisit(stack[i], q)
    BY DEF WalkInv, CaptureOK, Covered
  <2>2. CASE Known(q, entries, blind)
    <3>1. blind \subseteq blind'
      OBVIOUS
    <3> QED
      BY <2>2, <3>1, KnownStays
  <2>3. ASSUME NEW i \in 1 .. Len(stack), WillVisit(stack[i], q)
        PROVE  \/ Known(q, entries', blind')
               \/ \E j \in 1 .. Len(next) : WillVisit(next[j], q)
    <3>1. CASE i = Len(stack)
      <4>1. Head(Top.todo) \in Above[q] \/ WillVisit(Step[Len(stack)], q)
        BY <1>2, <2>3, <3>1, NextOrLater
      <4>2. next[Len(stack)] = Step[Len(stack)] /\ Len(stack) \in 1 .. Len(next)
        BY <1>2
      <4> QED
        BY <4>1, <4>2
    <3>2. CASE i # Len(stack)
      <4>1. i \in 1 .. Len(stack) - 1 /\ i \in 1 .. Len(next)
        BY <1>2, <3>2
      <4>2. next[i] = stack[i]
        BY <4>1, StepFacts
      <4> QED
        BY <2>3, <4>1, <4>2
    <3> QED
      BY <3>1, <3>2
  <2> QED
    BY <2>1, <2>2, <2>3
<1>6. ReadingIsRegular'
  BY DEF ReadingIsRegular
<1> QED
  BY <1>3, <1>4, <1>5, <1>6, WalkPreserves

LEMMA StepIsOK ==
  ASSUME WalkInv, stack # Idle, Top.todo # <<>>
  PROVE  /\ Step \in Seq(FrameSet) /\ Len(Step) = Len(stack) /\ Len(stack) \in Nat \ {0}
         /\ \A i \in 1 .. Len(Step) : FrameOK(Step[i])
         /\ Head(Top.todo) \in Paths /\ Visible(Head(Top.todo))
<1>1. /\ Step \in Seq(FrameSet) /\ Len(Step) = Len(stack)
      /\ \A i \in 1 .. Len(stack) - 1 : Step[i] = stack[i]
      /\ FrameOK(Step[Len(stack)])
      /\ Head(Top.todo) \in Children(Top.dir) /\ Hidden[Head(Top.todo)] = None
  BY StepFacts
<1>2. Len(stack) \in Nat \ {0} /\ FrameOK(Top) /\ Top.dir \in Paths
  BY TopFacts
<1>3. ASSUME NEW i \in 1 .. Len(Step) PROVE FrameOK(Step[i])
  <2>1. CASE i = Len(stack)
    BY <1>1, <2>1
  <2>2. CASE i # Len(stack)
    <3>1. i \in 1 .. Len(stack) - 1 /\ i \in 1 .. Len(stack)
      BY <1>1, <1>2, <2>2
    <3> QED
      BY <1>1, <3>1 DEF WalkInv, WalkOK
  <2> QED
    BY <2>1, <2>2
<1>4. Head(Top.todo) \in Paths \ {Root} /\ Parent[Head(Top.todo)] = Top.dir
  BY <1>1 DEF Children
<1>5. Visible(Head(Top.todo))
  BY <1>1, <1>2, <1>4, AboveParent DEF Visible, FrameOK
<1> QED
  BY <1>1, <1>2, <1>3, <1>4, <1>5

LEMMA EntryFields ==
  ASSUME NEW kind \in Kinds \ {"missing"}, NEW size \in Nat,
         NEW digest \in Contents \cup {None}
  PROVE  /\ Entry(kind, size, digest) \in EntrySet
         /\ Entry(kind, size, digest).kind = kind /\ Entry(kind, size, digest).size = size
         /\ Entry(kind, size, digest).digest = digest
  BY DEF Entry, EntrySet

\* The walk leaves a directory at a candidate, for a reason that is not about content.
LEMMA GiveUpThere ==
  ASSUME WalkInv, Capturing, SameCapture, faults' \in 0 .. MaxFaults,
         stopped' \in Stops \cup {None}, stack # Idle, reading = None,
         NEW why \in Reasons \ ContentReasons, Abandon({Spot(Top.dir, why, TRUE)})
  PROVE  WalkInv'
<1>1. {} \in SUBSET SpotSet /\ SpotsOK({})
      /\ {} \cup {Spot(Top.dir, why, TRUE)} = {Spot(Top.dir, why, TRUE)}
  BY DEF SpotsOK
<1>2. Abandon({} \cup {Spot(Top.dir, why, TRUE)})
  BY <1>1
<1> QED
  BY <1>1, <1>2, GiveUpPreserves

\* The next candidate could not be looked at.
LEMMA SkipPreserves ==
  ASSUME WalkInv, Capturing, SameCapture, faults' \in 0 .. MaxFaults,
         stopped' = stopped, stack # Idle, reading = None, Top.listed, Top.todo # <<>>,
         stack' = Step, blind' = blind \cup {Spot(Head(Top.todo), "filesystem_error", TRUE)},
         UNCHANGED <<entries, observed, reading>>
  PROVE  WalkInv'
<1> DEFINE p == Head(Top.todo)
           spots == {Spot(p, "filesystem_error", TRUE)}
<1>1. /\ Step \in Seq(FrameSet) /\ Len(Step) = Len(stack) /\ Len(stack) \in Nat \ {0}
      /\ \A i \in 1 .. Len(Step) : FrameOK(Step[i])
      /\ p \in Paths
  BY StepIsOK
<1>2. PICK next : next = Step
  OBVIOUS
<1>3. "filesystem_error" \in Reasons \ ContentReasons
  BY AlwaysReasons
<1>4. spots \subseteq SpotSet /\ SpotsOK(spots)
  <2>1. /\ Spot(p, "filesystem_error", TRUE) \in SpotSet
        /\ Spot(p, "filesystem_error", TRUE).aggregate = FALSE
    BY <1>1, <1>3, SpotFields
  <2> QED
    BY <2>1 DEF SpotsOK
<1>5. \A q \in Paths : p \in Above[q] => Known(q, entries', blind')
  BY <1>1, <1>3, SubtreeHides DEF Known
<1>6. /\ DOMAIN entries \subseteq Paths /\ Cardinality(DOMAIN entries) <= limits.entries
      /\ \A q \in DOMAIN entries : entries[q] \in EntrySet /\ Visible(q)
      /\ Sound(entries, start, disturbed) /\ UnreadIsBlind(entries, blind')
      /\ observed \in Nat /\ observed <= limits.total /\ stopped \in Stops \cup {None}
  BY DEF WalkInv, CaptureTypeOK, WalkOK, CaptureOK, UnreadIsBlind
<1>7. /\ next \in Seq(FrameSet) /\ stack' = next /\ Len(next) >= Len(stack)
      /\ \A i \in 1 .. Len(stack) : next[i] = Step[i]
      /\ \A i \in 1 .. Len(next) : FrameOK(next[i])
  BY <1>1, <1>2
<1> HIDE DEF spots, p
<1>8. /\ blind' = blind \cup spots /\ p = Head(Top.todo)
  BY DEF spots, p
<1> QED
  BY <1>4, <1>5, <1>6, <1>7, <1>8, VisitedPreserves

\* An entry is added whose subtree, if it has one, is not entered.
LEMMA LeafPreserves ==
  ASSUME WalkInv, Capturing, SameCapture, faults' \in 0 .. MaxFaults,
         stopped' \in Stops \cup {None}, stack # Idle, Top.listed, Top.todo # <<>>,
         Cardinality(DOMAIN entries) < limits.entries,
         NEW p, p = Head(Top.todo), NEW entry \in EntrySet, Add(p, entry),
         p \notin disturbed => /\ entry.kind = start[p].kind /\ entry.size = start[p].size
                               /\ entry.digest \in {None, start[p].content},
         \A q \in Paths \ disturbed : p \in Above[q] => start[p].kind # "directory",
         NEW spots, spots \subseteq SpotSet, SpotsOK(spots), blind' = blind \cup spots,
         entry.kind = "regular" /\ entry.digest = None
           => \E s \in spots : s.path = p /\ ~s.aggregate,
         stack' = Step, reading' = None, observed' \in Nat, observed' <= limits.total
  PROVE  WalkInv'
<1>1. /\ Step \in Seq(FrameSet) /\ Len(Step) = Len(stack) /\ Len(stack) \in Nat \ {0}
      /\ \A i \in 1 .. Len(Step) : FrameOK(Step[i])
      /\ p \in Paths /\ Visible(p)
  BY StepIsOK
<1>2. PICK next : next = Step
  OBVIOUS
<1>3. /\ p \in DOMAIN entries' /\ DOMAIN entries \subseteq DOMAIN entries'
      /\ DOMAIN entries' \subseteq Paths
      /\ \A q \in DOMAIN entries' : entries'[q] \in EntrySet /\ Visible(q)
      /\ Cardinality(DOMAIN entries') <= limits.entries
      /\ Sound(entries', start, disturbed) /\ UnreadIsBlind(entries', blind \cup spots)
  BY <1>1, EntryAdded
<1>4. ASSUME NEW q \in Paths \ ({Root} \cup disturbed), start[q].kind # "missing", p \in Above[q]
      PROVE  Known(q, entries', blind')
  <2>1. CASE q = p
    BY <1>3, <2>1 DEF Known
  <2>2. CASE q # p
    <3>1. fs[p].kind = start[p].kind /\ fs[p].kind = "directory"
      BY <1>4, <2>2, StillThere
    <3> QED
      BY <1>4, <3>1
  <2> QED
    BY <2>1, <2>2
<1>5. /\ next \in Seq(FrameSet) /\ stack' = next /\ Len(next) >= Len(stack)
      /\ \A i \in 1 .. Len(stack) : next[i] = Step[i]
      /\ \A i \in 1 .. Len(next) : FrameOK(next[i])
  BY <1>1, <1>2
<1> QED
  BY <1>3, <1>4, <1>5, VisitedPreserves

\* A directory: its own frame comes to all that is below it.
LEMMA EnterPreserves ==
  ASSUME WalkInv, Capturing, SameCapture, faults' \in 0 .. MaxFaults,
         stopped' \in Stops \cup {None}, stack # Idle, reading = None,
         Top.listed, Top.todo # <<>>,
         Cardinality(DOMAIN entries) < limits.entries,
         NEW p, p = Head(Top.todo), NEW entry \in EntrySet, Add(p, entry),
         entry.kind = "directory", entry.digest = None,
         p \notin disturbed => entry.kind = start[p].kind /\ entry.size = start[p].size,
         stack' = Append(Step, Frame(p)), UNCHANGED <<blind, observed, reading>>
  PROVE  WalkInv'
<1>1. /\ Step \in Seq(FrameSet) /\ Len(Step) = Len(stack) /\ Len(stack) \in Nat \ {0}
      /\ \A i \in 1 .. Len(Step) : FrameOK(Step[i])
      /\ p \in Paths /\ Visible(p)
  BY StepIsOK
<1>2. Frame(p) \in FrameSet /\ FrameOK(Frame(p)) /\ Frame(p).dir = p /\ ~Frame(p).listed
  BY <1>1 DEF Frame, FrameSet, FrameOK
<1> DEFINE n == Len(stack)
           f == Frame(p)
<1>3. PICK next : next = Append(Step, Frame(p))
  OBVIOUS
<1>4. /\ next \in Seq(FrameSet) /\ Len(next) = n + 1 /\ next[n + 1] = f
      /\ \A i \in 1 .. n : next[i] = Step[i]
  BY <1>1, <1>2, <1>3
<1>5. \A i \in 1 .. Len(next) : FrameOK(next[i])
  <2> SUFFICES ASSUME NEW i \in 1 .. n + 1 PROVE FrameOK(next[i])
    BY <1>4
  <2>1. i \in 1 .. n \/ i = n + 1
    BY <1>1
  <2> QED
    BY <1>1, <1>2, <1>4, <2>1
<1>6. /\ p \in DOMAIN entries' /\ DOMAIN entries \subseteq DOMAIN entries'
      /\ DOMAIN entries' \subseteq Paths
      /\ \A q \in DOMAIN entries' : entries'[q] \in EntrySet /\ Visible(q)
      /\ Cardinality(DOMAIN entries') <= limits.entries
      /\ Sound(entries', start, disturbed) /\ UnreadIsBlind(entries', blind \cup {})
  BY <1>1, EntryAdded
<1>7. ASSUME NEW q \in Paths \ ({Root} \cup disturbed), p \in Above[q]
      PROVE  \/ Known(q, entries', blind')
             \/ \E j \in 1 .. Len(next) : WillVisit(next[j], q)
  <2>1. CASE q = p
    BY <1>6, <2>1 DEF Known
  <2>2. CASE q # p
    <3>1. WillVisit(f, q)
      BY <1>2, <1>7, <2>2 DEF WillVisit
    <3>2. n + 1 \in 1 .. Len(next)
      BY <1>1, <1>4
    <3> QED
      BY <1>4, <3>1, <3>2
  <2> QED
    BY <2>1, <2>2
<1>8. /\ {} \subseteq SpotSet /\ SpotsOK({}) /\ blind' = blind \cup {}
      /\ UnreadIsBlind(entries', blind') /\ Len(next) >= Len(stack) /\ stack' = next
      /\ observed' \in Nat /\ observed' <= limits.total
  BY <1>1, <1>3, <1>4, <1>6 DEF SpotsOK, WalkInv, CaptureTypeOK
<1> QED
  BY <1>4, <1>5, <1>6, <1>7, <1>8, VisitedPreserves

\* A path no one changed is as it was when the capture began.
LEMMA AsItWas ==
  ASSUME WalkInv, Capturing, NEW p \in Paths
  PROVE  /\ fs[p].kind \in Kinds /\ fs[p].content \in Contents \cup {None} /\ SizeOf(p) \in Nat
         /\ fs[p].content # None <=> fs[p].kind = "regular"
         /\ p \notin disturbed => /\ start[p].kind = fs[p].kind /\ start[p].size = SizeOf(p)
                                  /\ start[p].content = fs[p].content
         /\ \A q \in Paths \ disturbed : p \in Above[q] => start[p].kind = fs[p].kind
<1>1. TreeAt(fs, clock) /\ Undisturbed
  BY DEF WalkInv, CaptureOK
<1>2. /\ SizeOf(p) \in Nat /\ View(p) \in Views
      /\ View(p).kind = fs[p].kind /\ View(p).content = fs[p].content
      /\ View(p).size = SizeOf(p)
      /\ View(p).content # None <=> View(p).kind = "regular"
  BY <1>1, Viewed
<1>3. fs[p].kind \in Kinds /\ fs[p].content \in Contents \cup {None}
  BY <1>2 DEF Views
<1>4. p \notin disturbed => View(p) = start[p]
  BY <1>1 DEF Undisturbed
<1>5. \A q \in Paths \ disturbed : p \in Above[q] => start[p].kind = fs[p].kind
  BY <1>1 DEF Undisturbed
<1> QED
  BY <1>2, <1>3, <1>4, <1>5

LEMMA LimitFacts ==
  ASSUME WalkInv, NEW size \in Nat
  PROVE  /\ LimitSpot(size) \in {None, "per_file_bytes_limit", "aggregate_bytes_limit"}
         /\ LimitSpot(size) = None => observed + size <= limits.total
         /\ ~Full => Cardinality(DOMAIN entries) < limits.entries
         /\ {observed, limits.total, limits.entries} \subseteq Nat
         /\ None \notin {"per_file_bytes_limit", "aggregate_bytes_limit"}
<1>1. limits.total \in Nat /\ limits.entries \in Nat /\ observed \in Nat
  BY ObserverAssumption DEF WalkInv, Limits, CaptureTypeOK
<1>2. None \notin {"per_file_bytes_limit", "aggregate_bytes_limit"}
  BY ObserverAssumption DEF Reasons, ContentReasons
<1>3. Cardinality(DOMAIN entries) \in Nat
  <2>1. DOMAIN entries \in SUBSET Paths
    BY DEF WalkInv, CaptureTypeOK
  <2> QED
    BY <2>1, FS_Subset, FS_CardinalityType, WorkspaceFilesAssumption
<1>4. ~Full => Cardinality(DOMAIN entries) < limits.entries
  BY <1>1, <1>3 DEF Full
<1>5. LimitSpot(size) = IF size > limits.file THEN "per_file_bytes_limit"
                        ELSE IF size > limits.total - observed THEN "aggregate_bytes_limit"
                        ELSE None
  BY DEF LimitSpot
<1>6. CASE size > limits.total - observed
  BY <1>1, <1>2, <1>4, <1>5, <1>6
<1>7. CASE ~(size > limits.total - observed)
  <2>1. observed + size <= limits.total
    BY <1>1, <1>7
  <2> QED
    BY <1>1, <1>2, <1>4, <1>5, <1>7, <2>1
<1> QED
  BY <1>6, <1>7

LEMMA UnreadPreserves ==
  ASSUME WalkInv, Capturing, SameCapture, faults' \in 0 .. MaxFaults,
         stopped' = stopped, stack # Idle, reading = None, Top.listed, Top.todo # <<>>,
         ~Full, VisitUnread(Head(Top.todo))
  PROVE  WalkInv'
<1> DEFINE p == Head(Top.todo)
           why == CASE fs[p].kind = "link" -> "link_not_followed"
                    [] fs[p].kind = "other" -> "unsupported_kind"
                    [] OTHER -> LimitSpot(SizeOf(p))
           entry == Entry(fs[p].kind, SizeOf(p), None)
           spot == Spot(p, why, fs[p].kind = "link")
<1>1. /\ fs[p].kind \in {"link", "other", "regular"} /\ why # None
      /\ Add(p, entry) /\ blind' = blind \cup {spot}
      /\ stack' = Step /\ observed' = observed /\ reading' = reading
  BY DEF VisitUnread
<1>2. p \in Paths
  BY StepIsOK
<1>3. /\ SizeOf(p) \in Nat
      /\ p \notin disturbed => start[p].kind = fs[p].kind /\ start[p].size = SizeOf(p)
      /\ \A q \in Paths \ disturbed : p \in Above[q] => start[p].kind = fs[p].kind
  BY <1>2, AsItWas
<1>4. why \in Reasons
  <2>1. LimitSpot(SizeOf(p)) \in {None, "per_file_bytes_limit", "aggregate_bytes_limit"}
    BY <1>3, LimitFacts
  <2>2. why \in {None, "link_not_followed", "unsupported_kind", "per_file_bytes_limit",
                 "aggregate_bytes_limit"}
    BY <2>1
  <2> QED
    BY <1>1, <2>2 DEF Reasons, ContentReasons
<1> HIDE DEF why
<1>5. spot \in SpotSet /\ spot.path = p /\ spot.aggregate = FALSE
  BY <1>2, <1>4, SpotFields
<1>6. entry \in EntrySet /\ entry.kind = fs[p].kind /\ entry.size = SizeOf(p) /\ entry.digest = None
  BY <1>1, <1>3, EntryFields DEF Kinds
<1> HIDE DEF p, spot, entry
<1>7. p = Head(Top.todo)
  BY DEF p
<1>8. {spot} \subseteq SpotSet /\ SpotsOK({spot})
      /\ \E s \in {spot} : s.path = p /\ ~s.aggregate
  BY <1>5 DEF SpotsOK
<1>9. /\ Cardinality(DOMAIN entries) < limits.entries
      /\ observed' \in Nat /\ observed' <= limits.total /\ stopped' \in Stops \cup {None}
  BY <1>1, <1>3, LimitFacts DEF WalkInv, CaptureTypeOK
<1>10. p \notin disturbed => /\ entry.kind = start[p].kind /\ entry.size = start[p].size
                             /\ entry.digest \in {None, start[p].content}
  BY <1>3, <1>6
<1>11. \A q \in Paths \ disturbed : p \in Above[q] => start[p].kind # "directory"
  BY <1>1, <1>3
<1> QED
  BY <1>1, <1>6, <1>7, <1>8, <1>9, <1>10, <1>11, LeafPreserves

\* The walk is about to read a file.
LEMMA ToReadPreserves ==
  ASSUME WalkInv, Capturing, SameCapture, faults' \in 0 .. MaxFaults,
         stack # Idle, reading = None, Top.listed, Top.todo # <<>>,
         ~Full, NEW p, p = Head(Top.todo), fs[p].kind = "regular",
         LimitSpot(SizeOf(p)) = None, reading' = [path |-> p, size |-> SizeOf(p)],
         UNCHANGED <<stack, entries, blind, observed, stopped>>
  PROVE  WalkInv'
<1>1. /\ start' = start /\ disturbed' = disturbed /\ limits' = limits /\ phase' = phase
  BY DEF SameCapture
<1>2. p \in Paths
  BY StepIsOK
<1>3. /\ SizeOf(p) \in Nat
      /\ p \notin disturbed => start[p].kind = fs[p].kind /\ start[p].size = SizeOf(p)
      /\ \A q \in Paths \ disturbed : p \in Above[q] => start[p].kind = fs[p].kind
  BY <1>2, AsItWas
<1>4. /\ observed + SizeOf(p) <= limits.total
      /\ Cardinality(DOMAIN entries) < limits.entries
  BY <1>3, LimitFacts
<1>5. reading' \in [path : Paths, size : Nat] /\ reading'.path = p /\ reading'.size = SizeOf(p)
  BY <1>2, <1>3
<1>6. CaptureTypeOK'
  BY <1>1, <1>5 DEF CaptureTypeOK, WalkInv
<1>7. WalkOK'
  <2>1. /\ Last(stack).listed /\ Last(stack).todo # <<>> /\ p = Head(Last(stack).todo)
    BY DEF Top
  <2>2. /\ \A i \in 1 .. Len(stack) : FrameOK(stack[i])
        /\ \A q \in DOMAIN entries : Visible(q)
        /\ SpotsOK(blind) /\ UnreadIsBlind(entries, blind)
    BY DEF WalkInv, WalkOK
  <2> QED
    BY <1>1, <1>4, <1>5, <2>1, <2>2 DEF WalkOK, Capturing
<1>8. ReadingIsRegular'
  BY <1>1, <1>3, <1>5 DEF ReadingIsRegular
<1>9. Covered' /\ Sound(entries', start, disturbed)
  BY <1>1 DEF WalkInv, CaptureOK, Covered
<1>10. /\ Cardinality(DOMAIN entries') <= limits.entries /\ observed' <= limits.total
       /\ stopped' \in Stops \cup {None}
  BY DEF WalkInv
<1> QED
  BY <1>6, <1>7, <1>8, <1>9, <1>10, WalkPreserves

LEMMA VisitPreserves ==
  ASSUME WalkInv, Capturing, SameCapture, Visit
  PROVE  WalkInv'
<1> DEFINE d == Top.dir
           p == Head(Top.todo)
<1>1. stack # Idle /\ reading = None /\ Top.listed /\ Top.todo # <<>> /\ p \in Paths
  BY StepIsOK DEF Visit, Top
<1>2. ASSUME NEW why \in MayStop, StopsFor(why), Abandon({Spot(d, why, TRUE)})
      PROVE  WalkInv'
  BY <1>1, <1>2, StopReasons, GiveUpThere
<1>3. ASSUME NoFault, Abandon({Spot(d, "entries_limit", TRUE)}), stopped' = stopped
      PROVE  WalkInv'
  <2>1. faults' \in 0 .. MaxFaults /\ stopped' \in Stops \cup {None}
    BY <1>3, Faults DEF WalkInv
  <2>2. "entries_limit" \in Reasons \ ContentReasons
    BY AlwaysReasons
  <2> QED
    BY <1>1, <1>3, <2>1, <2>2, GiveUpThere
<1>4. ASSUME Fault \/ NoFault, stack' = Step, stopped' = stopped,
             blind' = blind \cup {Spot(p, "filesystem_error", TRUE)},
             UNCHANGED <<entries, observed, reading>>
      PROVE  WalkInv'
  BY <1>1, <1>4, Faults, SkipPreserves
<1>5. ASSUME ~Full, fs[p].kind = "directory", NoFault, stopped' = stopped,
             Add(p, Entry("directory", SizeOf(p), None)), stack' = Append(Step, Frame(p)),
             UNCHANGED <<blind, observed, reading>>
      PROVE  WalkInv'
  <2>1. /\ SizeOf(p) \in Nat
        /\ p \notin disturbed => start[p].kind = fs[p].kind /\ start[p].size = SizeOf(p)
    BY <1>1, AsItWas
  <2>2. faults' \in 0 .. MaxFaults /\ stopped' \in Stops \cup {None}
    BY <1>5, Faults DEF WalkInv
  <2>3. Cardinality(DOMAIN entries) < limits.entries
    BY <1>5, <2>1, LimitFacts
  <2> DEFINE entry == Entry("directory", SizeOf(p), None)
  <2>4. /\ entry \in EntrySet /\ entry.kind = "directory" /\ entry.size = SizeOf(p)
        /\ entry.digest = None
    BY <2>1, EntryFields DEF Kinds
  <2> HIDE DEF entry, p
  <2>5. Add(p, entry) /\ p = Head(Top.todo)
    BY <1>5 DEF entry, p
  <2> QED
    BY <1>1, <1>5, <2>1, <2>2, <2>3, <2>4, <2>5, EnterPreserves
<1>6. ASSUME ~Full, NoFault, VisitUnread(p), stopped' = stopped
      PROVE  WalkInv'
  BY <1>1, <1>6, Faults, UnreadPreserves
<1>7. ASSUME ~Full, fs[p].kind = "regular", NoFault, LimitSpot(SizeOf(p)) = None,
             reading' = [path |-> p, size |-> SizeOf(p)],
             UNCHANGED <<stack, entries, blind, observed, stopped>>
      PROVE  WalkInv'
  <2>1. faults' \in 0 .. MaxFaults
    BY <1>7, Faults
  <2> HIDE DEF p
  <2>2. p = Head(Top.todo)
    BY DEF p
  <2> QED
    BY <1>1, <1>7, <2>1, <2>2, ToReadPreserves
<1> QED
  BY <1>2, <1>3, <1>4, <1>5, <1>6, <1>7 DEF Visit, Top

\* The file was read, in whole or in part, or could not be.
LEMMA ReadFilePreserves ==
  ASSUME WalkInv, Capturing, SameCapture, ReadFile
  PROVE  WalkInv'
<1> DEFINE p == reading.path
           bytes(c) == IF Size[c] < reading.size THEN Size[c] ELSE reading.size
           entry(digest) == Entry("regular", reading.size, digest)
<1>1. /\ reading # None /\ stack' = Step /\ reading' = None
  BY DEF ReadFile
<1>2. /\ stack # Idle /\ Top.listed /\ Top.todo # <<>> /\ p = Head(Top.todo)
      /\ Cardinality(DOMAIN entries) < limits.entries
      /\ observed + reading.size <= limits.total
      /\ p \in Paths /\ reading.size \in Nat
  BY <1>1 DEF WalkInv, WalkOK, CaptureTypeOK, Top
<1>3. /\ \A q \in Paths \ disturbed : p \in Above[q] => start[p].kind = "regular"
      /\ p \notin disturbed => reading.size = start[p].size /\ start[p].kind = "regular"
  BY <1>1, <1>2, AboveIsClosed DEF WalkInv, CaptureOK, ReadingIsRegular
<1>4. /\ fs[p].content \in Contents \cup {None}
      /\ fs[p].content # None <=> fs[p].kind = "regular"
      /\ p \notin disturbed => start[p].kind = fs[p].kind /\ start[p].content = fs[p].content
  BY <1>2, AsItWas
<1>5. {observed, limits.total} \subseteq Nat
  BY <1>2, LimitFacts
<1>6. \A c \in Contents : /\ bytes(c) \in Nat /\ observed + bytes(c) \in Nat
                          /\ observed + bytes(c) <= limits.total
  <2> TAKE c \in Contents
  <2>1. Size[c] \in Nat
    BY WorkspaceFilesAssumption
  <2> QED
    BY <1>2, <1>5, <2>1
<1> HIDE DEF bytes
<1>7. /\ Found(p) \subseteq Contents
      /\ p \notin disturbed => Found(p) = {start[p].content}
  <2>1. CASE fs[p].kind = "regular"
    <3>1. Found(p) = {fs[p].content} /\ fs[p].content \in Contents
      BY <1>4, <2>1 DEF Found
    <3> QED
      BY <1>4, <3>1
  <2>2. CASE fs[p].kind # "regular"
    <3>1. Found(p) \subseteq Contents
      BY <2>2 DEF Found
    <3> QED
      BY <1>3, <1>4, <2>2, <3>1
  <2> QED
    BY <2>1, <2>2
\* An entry without a digest leaves a blind spot on the file.
<1>8. ASSUME NEW why \in Reasons, Add(p, entry(None)), blind' = blind \cup {Spot(p, why, FALSE)},
             observed' \in Nat, observed' <= limits.total, faults' \in 0 .. MaxFaults,
             stopped' \in Stops \cup {None}
      PROVE  WalkInv'
  <2> DEFINE spot == Spot(p, why, FALSE)
             e == entry(None)
  <2>1. spot \in SpotSet /\ spot.path = p /\ spot.aggregate = FALSE
    BY <1>2, SpotFields
  <2>2. /\ e \in EntrySet /\ e.kind = "regular" /\ e.size = reading.size /\ e.digest = None
    BY <1>2, EntryFields DEF Kinds
  <2>3. Add(p, e) /\ blind' = blind \cup {spot}
    BY <1>8
  <2> HIDE DEF e, spot, p, entry
  <2>4. {spot} \subseteq SpotSet /\ SpotsOK({spot})
        /\ \E s \in {spot} : s.path = p /\ ~s.aggregate
    BY <2>1 DEF SpotsOK
  <2>5. p \notin disturbed => /\ e.kind = start[p].kind /\ e.size = start[p].size
                              /\ e.digest \in {None, start[p].content}
    BY <1>3, <2>2 DEF p
  <2>6. \A q \in Paths \ disturbed : p \in Above[q] => start[p].kind # "directory"
    BY <1>3
  <2> QED
    BY <1>1, <1>2, <1>8, <2>2, <2>3, <2>4, <2>5, <2>6, LeafPreserves
<1>9. ASSUME NEW c \in Found(p), Add(p, entry(c)), blind' = blind,
             observed' = observed + bytes(c), faults' \in 0 .. MaxFaults,
             stopped' = stopped
      PROVE  WalkInv'
  <2> DEFINE e == entry(c)
  <2>1. c \in Contents /\ c # None /\ observed' \in Nat /\ observed' <= limits.total
    BY <1>6, <1>7, <1>9, WorkspaceFilesAssumption
  <2>2. e \in EntrySet /\ e.kind = "regular" /\ e.size = reading.size /\ e.digest = c
    BY <1>2, <2>1, EntryFields DEF Kinds
  <2>3. Add(p, e) /\ stopped' \in Stops \cup {None}
    BY <1>9 DEF WalkInv
  <2> HIDE DEF e, p, entry
  <2>4. {} \subseteq SpotSet /\ SpotsOK({}) /\ blind' = blind \cup {}
    BY <1>9 DEF SpotsOK
  <2>5. p \notin disturbed => /\ e.kind = start[p].kind /\ e.size = start[p].size
                              /\ e.digest \in {None, start[p].content}
    BY <1>3, <1>7, <1>9, <2>2 DEF p
  <2>6. \A q \in Paths \ disturbed : p \in Above[q] => start[p].kind # "directory"
    BY <1>3
  <2>7. e.kind = "regular" /\ e.digest = None => \E s \in {} : s.path = p /\ ~s.aggregate
    BY <2>1, <2>2
  <2> QED
    BY <1>1, <1>2, <1>9, <2>1, <2>2, <2>3, <2>4, <2>5, <2>6, <2>7, LeafPreserves
<1>10. ASSUME NEW why \in MayStop, StopsFor(why), Add(p, entry(None)),
              blind' = blind \cup {Spot(p, why, FALSE)},
              observed' \in {observed} \cup {observed + bytes(c) : c \in Found(p)}
       PROVE  WalkInv'
  <2>1. observed' \in Nat /\ observed' <= limits.total
    <3>1. CASE observed' = observed
      BY <1>5, <3>1 DEF WalkInv
    <3>2. ASSUME NEW c \in Found(p), observed' = observed + bytes(c)
          PROVE  observed' \in Nat /\ observed' <= limits.total
      BY <1>6, <1>7, <3>2
    <3> QED
      BY <1>10, <3>1, <3>2
  <2> QED
    BY <1>8, <1>10, <2>1, StopReasons
<1>11. ASSUME Fault \/ NoFault, Add(p, entry(None)),
              blind' = blind \cup {Spot(p, "filesystem_error", FALSE)},
              UNCHANGED <<observed, stopped>>
       PROVE  WalkInv'
  <2>1. /\ faults' \in 0 .. MaxFaults /\ stopped' \in Stops \cup {None}
        /\ observed' \in Nat /\ observed' <= limits.total
    BY <1>5, <1>11, Faults DEF WalkInv
  <2>2. "filesystem_error" \in Reasons
    BY AlwaysReasons
  <2> QED
    BY <1>8, <1>11, <2>1, <2>2
<1>12. ASSUME NEW c \in Found(p), NoFault, observed' = observed + bytes(c), stopped' = stopped,
              Add(p, entry(None)),
              blind' = blind \cup {Spot(p, "content_changed_during_read", FALSE)}
       PROVE  WalkInv'
  <2>1. /\ faults' \in 0 .. MaxFaults /\ stopped' \in Stops \cup {None}
        /\ observed' \in Nat /\ observed' <= limits.total
    BY <1>6, <1>7, <1>12, Faults DEF WalkInv
  <2>2. "content_changed_during_read" \in Reasons
    BY DEF Reasons, ContentReasons
  <2> QED
    BY <1>8, <1>12, <2>1, <2>2
<1>13. ASSUME NEW c \in Found(p), NoFault, observed' = observed + bytes(c), stopped' = stopped,
              Add(p, entry(c)), blind' = blind \cup {}
       PROVE  WalkInv'
  BY <1>9, <1>13, Faults
<1> HIDE DEF p, entry
<1>14. \/ \E why \in MayStop :
            /\ StopsFor(why) /\ Add(p, entry(None)) /\ blind' = blind \cup {Spot(p, why, FALSE)}
            /\ observed' \in {observed} \cup {observed + bytes(c) : c \in Found(p)}
       \/ /\ Fault \/ NoFault
          /\ Add(p, entry(None)) /\ blind' = blind \cup {Spot(p, "filesystem_error", FALSE)}
          /\ UNCHANGED <<observed, stopped>>
       \/ \E c \in Found(p) :
            /\ NoFault /\ observed' = observed + bytes(c) /\ stopped' = stopped
            /\ \/ Add(p, entry(c)) /\ blind' = blind \cup {}
               \/ /\ Add(p, entry(None))
                  /\ blind' = blind \cup {Spot(p, "content_changed_during_read", FALSE)}
  BY DEF ReadFile, p, entry, bytes
<1> QED
  BY <1>10, <1>11, <1>12, <1>13, <1>14

LEMMA WalkStepPreserves ==
  ASSUME WalkInv, Capturing, SameCapture, Walk
  PROVE  WalkInv'
  BY ListPreserves, VisitPreserves, AscendPreserves, ReadFilePreserves DEF Walk

\* An edit during a capture only takes paths out of what the walk knows.
LEMMA EditKeepsWalk ==
  ASSUME WalkInv, NEW p \in Editable, Change(p),
         disturbed' = IF Capturing THEN disturbed \cup Disturbed(p) ELSE {},
         UNCHANGED <<limits, faults, stack, entries, blind, observed, stopped, reading, start, phase>>
  PROVE  WalkInv'
<1>1. TreeAt(fs, clock) /\ clock \in Nat /\ disturbed \subseteq Paths
  BY DEF WalkInv
<1>2. TreeAt(fs', clock') /\ clock' \in Nat
  BY <1>1, ChangeFacts
<1>3. disturbed' \subseteq Paths
  <2>1. p \in Paths \ {Root}
    BY WorkspaceFilesAssumption
  <2>2. Disturbed(p) \subseteq Paths
    BY <2>1, AboveParent DEF Disturbed, Below
  <2> QED
    BY <1>1, <2>2
<1>4. CaptureTypeOK' /\ WalkOK'
  <2>1. CaptureTypeOK' = CaptureTypeOK
    BY DEF CaptureTypeOK
  <2>2. WalkOK' = WalkOK
    BY DEF WalkOK, Capturing
  <2> QED
    BY <2>1, <2>2 DEF WalkInv
<1>5. CaptureOK'
  <2> SUFFICES ASSUME Capturing
               PROVE  /\ ViewsOK(start) /\ Undisturbed' /\ Sound(entries, start, disturbed')
                      /\ ReadingIsRegular' /\ Covered'
    BY DEF CaptureOK, Capturing, Sound, ViewsOK
  <2>1. /\ ViewsOK(start) /\ Undisturbed /\ Sound(entries, start, disturbed)
        /\ ReadingIsRegular /\ Covered
    BY DEF WalkInv, CaptureOK
  <2>2. disturbed' = disturbed \cup Disturbed(p)
    OBVIOUS
  <2>3. Undisturbed'
    <3> SUFFICES ASSUME NEW q \in Paths \ disturbed'
                 PROVE  /\ View(q)' = start[q]
                        /\ \A a \in Above[q] : fs'[a].kind = start[a].kind
      BY DEF Undisturbed
    <3>1. View(q)' = View(q) /\ \A a \in Above[q] : fs'[a] = fs[a]
      BY <1>1, <2>2, Undone
    <3>2. View(q) = start[q] /\ \A a \in Above[q] : fs[a].kind = start[a].kind
      BY <2>1, <2>2 DEF Undisturbed
    <3> QED
      BY <3>1, <3>2
  <2>4. Sound(entries, start, disturbed')
    BY <2>1, <2>2 DEF Sound
  <2>5. ReadingIsRegular'
    BY <2>1, <2>2 DEF ReadingIsRegular
  <2>6. Covered'
    BY <2>1, <2>2 DEF Covered
  <2> QED
    BY <2>1, <2>3, <2>4, <2>5, <2>6
<1> QED
  BY <1>2, <1>3, <1>4, <1>5 DEF WalkInv

\* A capture begins: the first frame comes to everything, or nothing is seen.
LEMMA BeginKeepsWalk ==
  ASSUME WalkInv, BeginCapture, UNCHANGED files, phase' \in {"baseline", "final"}
  PROVE  WalkInv'
<1>1. /\ fs' = fs /\ clock' = clock /\ limits' = limits
      /\ entries' = <<>> /\ observed' = 0 /\ stopped' = None /\ reading' = None
      /\ start' = [p \in Paths |-> View(p)] /\ disturbed' = {}
  BY DEF BeginCapture, files
<1>2. TreeAt(fs, clock) /\ limits \in LimitChoices
  BY DEF WalkInv
<1>3. faults' \in 0 .. MaxFaults
  BY Faults DEF BeginCapture
<1>4. /\ stack' \in Seq(FrameSet) /\ \A i \in 1 .. Len(stack') : FrameOK(stack'[i])
      /\ blind' \subseteq SpotSet /\ SpotsOK(blind')
      /\ \A p \in Paths \ {Root} :
           \/ \E s \in blind' : Hides(s, p)
           \/ \E i \in 1 .. Len(stack') : WillVisit(stack'[i], p)
  <2>1. Root \in Paths /\ \A p \in Paths : Root \in Above[p]
    BY WorkspaceFilesAssumption
  <2>2. CASE stack' = <<Frame(Root)>> /\ blind' = {}
    <3>1. Frame(Root) \in FrameSet /\ Frame(Root).dir = Root /\ ~Frame(Root).listed
          /\ FrameOK(Frame(Root))
      BY <2>1, AboveRoot DEF Frame, FrameSet, FrameOK, Visible
    <3>2. Len(stack') = 1 /\ stack'[1] = Frame(Root) /\ stack' \in Seq(FrameSet)
      BY <2>2, <3>1
    <3>3. \A p \in Paths \ {Root} : WillVisit(Frame(Root), p)
      BY <2>1, <3>1 DEF WillVisit
    <3> QED
      BY <2>2, <3>1, <3>2, <3>3 DEF SpotsOK
  <2>3. CASE stack' = Idle /\ blind' = {Spot(Root, "filesystem_error", TRUE)}
    <3>1. "filesystem_error" \in Reasons \ ContentReasons
      BY AlwaysReasons
    <3>2. /\ Spot(Root, "filesystem_error", TRUE) \in SpotSet
          /\ Spot(Root, "filesystem_error", TRUE).aggregate = FALSE
      BY <2>1, <3>1, SpotFields
    <3>3. \A p \in Paths : Hides(Spot(Root, "filesystem_error", TRUE), p)
      BY <2>1, <3>1, SubtreeHides
    <3>4. stack' \in Seq(FrameSet) /\ Len(stack') = 0
      BY <2>3 DEF Idle
    <3>5. blind' \subseteq SpotSet /\ SpotsOK(blind')
      BY <2>3, <3>2 DEF SpotsOK
    <3>6. \A p \in Paths \ {Root} : \E s \in blind' : Hides(s, p)
      BY <2>3, <3>3
    <3> QED
      BY <3>4, <3>5, <3>6
  <2> QED
    BY <2>2, <2>3 DEF BeginCapture
<1>5. \A p \in Paths : /\ View(p) \in Views /\ View(p).kind = fs[p].kind
                       /\ View(p).content # None <=> View(p).kind = "regular"
                       /\ View(p).kind \in {"missing", "link", "other"} => View(p).size = 1
  BY <1>2, Viewed
<1>6. DOMAIN entries' = {} /\ start' \in [Paths -> Views]
  BY <1>1, <1>5
<1>7. CaptureTypeOK'
  BY <1>1, <1>4, <1>6 DEF CaptureTypeOK
<1>8. WalkOK'
  BY <1>1, <1>4, <1>6 DEF WalkOK, Capturing, UnreadIsBlind
<1>9. CaptureOK'
  <2>1. ViewsOK(start')
    BY <1>1, <1>5 DEF ViewsOK
  <2>2. Undisturbed'
    <3>1. \A p \in Paths : View(p)' = View(p)
      BY <1>1 DEF View, SizeOf, Present
    <3>2. \A p \in Paths : \A a \in Above[p] : a \in Paths /\ fs'[a].kind = start'[a].kind
      BY <1>1, <1>5, AboveIsClosed
    <3> QED
      BY <1>1, <3>1, <3>2 DEF Undisturbed
  <2>3. Sound(entries', start', disturbed')
    BY <1>6 DEF Sound
  <2>4. ReadingIsRegular'
    BY <1>1 DEF ReadingIsRegular
  <2>5. Covered'
    BY <1>1, <1>4 DEF Covered, Known
  <2> QED
    BY <2>1, <2>2, <2>3, <2>4, <2>5 DEF CaptureOK
<1>10. Cardinality(DOMAIN entries') <= limits'.entries /\ observed' <= limits'.total
  <2>1. Cardinality(DOMAIN entries') = 0
    BY <1>6, FS_EmptySet
  <2>2. limits.entries \in Nat /\ limits.total \in Nat
    BY <1>2, ObserverAssumption DEF Limits
  <2> QED
    BY <1>1, <2>1, <2>2
<1> QED
  BY <1>1, <1>2, <1>3, <1>7, <1>8, <1>9, <1>10 DEF WalkInv

----------------------------------------------------------------------------
(* Snapshots *)

\* Merging keeps, for every spot, one that hides at least as much.
LEMMA MergeFacts ==
  ASSUME NEW spots \in SUBSET SpotSet, SpotsOK(spots)
  PROVE  /\ Merge(spots) \subseteq spots /\ SpotsOK(Merge(spots))
         /\ \A s \in spots : \E t \in Merge(spots) :
              /\ t.path = s.path /\ t.reason = s.reason /\ t.aggregate = s.aggregate
              /\ s.subtree => t.subtree
<1>1. Merge(spots) \subseteq spots
  BY DEF Merge
<1>2. ASSUME NEW s \in spots
      PROVE  \E t \in Merge(spots) :
               /\ t.path = s.path /\ t.reason = s.reason /\ t.aggregate = s.aggregate
               /\ s.subtree => t.subtree
  <2> DEFINE whole == [s EXCEPT !.subtree = TRUE]
  <2>1. /\ whole.path = s.path /\ whole.reason = s.reason
        /\ whole.aggregate = s.aggregate /\ whole.subtree
    BY DEF SpotSet
  <2>2. CASE whole \in spots
    BY <2>1, <2>2 DEF Merge
  <2>3. CASE whole \notin spots
    BY <2>3 DEF Merge
  <2> QED
    BY <2>2, <2>3
<1> QED
  BY <1>1, <1>2 DEF SpotsOK

LEMMA MergeHides ==
  ASSUME NEW spots \in SUBSET SpotSet, SpotsOK(spots), NEW s \in spots, NEW p, Hides(s, p)
  PROVE  \E t \in Merge(spots) : Hides(t, p)
<1>1. PICK t \in Merge(spots) :
        /\ t.path = s.path /\ t.reason = s.reason /\ t.aggregate = s.aggregate
        /\ s.subtree => t.subtree
  BY MergeFacts
<1> QED
  BY <1>1 DEF Hides

\* The snapshot of a finished walk is worth what its readers take it for.
LEMMA SnapshotIsGood ==
  ASSUME WalkInv, Capturing, stack = Idle, NEW why \in {stopped} \cup MayStop
  PROVE  Good(Snapshot(why))
<1> DEFINE more == IF why \in {None} \cup {s.reason : s \in blind} THEN {}
                   ELSE {Spot(Root, why, TRUE)}
           spots == blind \cup more
<1>1. why \in Reasons \cup {None}
  <2>1. why \in Stops \cup {None}
    BY DEF WalkInv, MayStop
  <2> QED
    BY <2>1, ObserverAssumption DEF Reasons
<1>2. more \in SUBSET SpotSet /\ SpotsOK(more)
  <2>1. CASE why \in Reasons
    <3>1. Spot(Root, why, TRUE) \in SpotSet /\ Spot(Root, why, TRUE).aggregate = FALSE
      BY <2>1, SpotFields, WorkspaceFilesAssumption
    <3> QED
      BY <3>1 DEF SpotsOK
  <2>2. CASE why = None
    BY <2>2 DEF SpotsOK
  <2> QED
    BY <1>1, <2>1, <2>2
<1> HIDE DEF more
<1>3. spots \in SUBSET SpotSet /\ SpotsOK(spots)
  BY <1>2 DEF SpotsOK, WalkInv, WalkOK, CaptureTypeOK
<1>4. Merge(spots) \subseteq spots /\ SpotsOK(Merge(spots)) /\ Merge(spots) \subseteq SpotSet
  BY <1>3, MergeFacts
<1>5. UnreadIsBlind(entries, Merge(spots))
  <2> SUFFICES ASSUME NEW p \in DOMAIN entries, entries[p].kind = "regular",
                      entries[p].digest = None
               PROVE  \E t \in Merge(spots) : t.path = p /\ ~t.aggregate
    BY DEF UnreadIsBlind
  <2>1. PICK s \in blind : s.path = p /\ ~s.aggregate
    BY DEF WalkInv, WalkOK, UnreadIsBlind
  <2>2. PICK t \in Merge(spots) : t.path = s.path /\ t.aggregate = s.aggregate
    BY <1>3, MergeFacts
  <2> QED
    BY <2>1, <2>2
<1>6. ASSUME NEW p \in Paths \ ({Root} \cup disturbed), start[p].kind # "missing"
      PROVE  Known(p, entries, Merge(spots))
  <2>1. Known(p, entries, blind)
    <3>1. Known(p, entries, blind) \/ \E i \in 1 .. Len(stack) : WillVisit(stack[i], p)
      BY <1>6 DEF WalkInv, CaptureOK, Covered
    <3>2. Len(stack) = 0
      BY DEF Idle
    <3> QED
      BY <3>1, <3>2
  <2>2. CASE p \in DOMAIN entries
    BY <2>2 DEF Known
  <2>3. ASSUME NEW s \in blind, Hides(s, p)
        PROVE  Known(p, entries, Merge(spots))
    <3>1. s \in spots
      OBVIOUS
    <3>2. \E t \in Merge(spots) : Hides(t, p)
      BY <1>3, <2>3, <3>1, MergeHides
    <3> QED
      BY <3>2 DEF Known
  <2> QED
    BY <2>1, <2>2, <2>3 DEF Known
<1> DEFINE s == Snapshot(why)
<1>7. /\ s.entries = entries /\ s.start = start /\ s.disturbed = disturbed
      /\ s.blind = Merge(spots)
  BY DEF Snapshot, more
<1> HIDE DEF s, spots
<1>8. /\ DOMAIN entries \subseteq Paths
      /\ \A p \in DOMAIN entries : entries[p] \in EntrySet /\ Visible(p)
      /\ start \in [Paths -> Views] /\ ViewsOK(start) /\ Sound(entries, start, disturbed)
  BY DEF WalkInv, CaptureTypeOK, WalkOK, CaptureOK
<1>9. Good(s)
  BY <1>4, <1>5, <1>6, <1>7, <1>8 DEF Good
<1> QED
  BY <1>9 DEF s

----------------------------------------------------------------------------
(* The diff *)

\* What a good snapshot says of a path no one changed while it was taken.
LEMMA SeenInSnapshot ==
  ASSUME NEW s, Good(s), NEW p \in Paths \ {Root}, p \notin s.disturbed
  PROVE  /\ s.start[p] \in Views /\ s.blind \in SUBSET SpotSet /\ SpotsOK(s.blind)
         /\ s.start[p].content # None <=> s.start[p].kind = "regular"
         /\ s.start[p].kind = "missing" => s.start[p].size = 1
         /\ s.start[p].kind # "missing" => Known(p, s.entries, s.blind)
         /\ p \in DOMAIN s.entries =>
              /\ s.entries[p].kind = s.start[p].kind /\ s.start[p].kind # "missing"
              /\ s.entries[p].size = s.start[p].size
              /\ s.entries[p].digest \in {None, s.start[p].content}
              /\ Visible(p)
              /\ s.entries[p].kind = "regular" /\ s.entries[p].digest = None =>
                   \E x \in s.blind : x.path = p /\ ~x.aggregate
<1>1. /\ s.start \in [Paths -> Views] /\ ViewsOK(s.start) /\ Sound(s.entries, s.start, s.disturbed)
      /\ s.blind \subseteq SpotSet /\ SpotsOK(s.blind) /\ UnreadIsBlind(s.entries, s.blind)
      /\ \A q \in DOMAIN s.entries : s.entries[q] \in EntrySet /\ Visible(q)
      /\ s.start[p].kind # "missing" => Known(p, s.entries, s.blind)
  BY DEF Good
<1>2. s.start[p] \in Views
  BY <1>1
<1>3. /\ s.start[p].content # None <=> s.start[p].kind = "regular"
      /\ s.start[p].kind = "missing" => s.start[p].size = 1
  BY <1>1 DEF ViewsOK
<1>4. ASSUME p \in DOMAIN s.entries
      PROVE  /\ s.entries[p].kind = s.start[p].kind /\ s.entries[p].size = s.start[p].size
             /\ s.entries[p].digest \in {None, s.start[p].content}
             /\ s.entries[p].kind # "missing" /\ Visible(p)
  BY <1>1, <1>4 DEF Sound, EntrySet
<1>5. ASSUME p \in DOMAIN s.entries, s.entries[p].kind = "regular", s.entries[p].digest = None
      PROVE  \E x \in s.blind : x.path = p /\ ~x.aggregate
  BY <1>1, <1>5 DEF UnreadIsBlind
<1> QED
  BY <1>1, <1>2, <1>3, <1>4, <1>5

\* Two views of the same kind differ in size, or are files of different content.
LEMMA ViewsDiffer ==
  ASSUME NEW v \in Views, NEW w \in Views, v # w, v.kind = w.kind, v.size = w.size,
         v.content # None <=> v.kind = "regular", w.content # None <=> w.kind = "regular"
  PROVE  v.kind = "regular" /\ v.content # w.content
<1>1. v.content # w.content
  BY DEF Views
<1> QED
  BY <1>1

\* Where nothing casts doubt on the existence of a visible path, nothing hides it.
LEMMA ClearOfVisible ==
  ASSUME NEW spots \in SUBSET SpotSet, SpotsOK(spots), NEW p \in Paths, Visible(p),
         ExistenceIsClear(spots, p), NEW s \in spots
  PROVE  ~Hides(s, p)
<1>1. CASE s.aggregate
  <2>1. s.reason \in ExclusionReasons /\ s.reason # None
    BY <1>1, ObserverAssumption DEF SpotsOK, Reasons
  <2> QED
    BY <1>1, <2>1 DEF Hides, Visible
<1>2. CASE ~s.aggregate
  BY <1>2 DEF Hides, ExistenceIsClear
<1> QED
  BY <1>1, <1>2

\* No spot of either capture hides a path whose scope the diff calls clear.
LEMMA ClearScope ==
  ASSUME NEW spots \in SUBSET SpotSet, SpotsOK(spots), NEW p \in Paths,
         ScopeIsClear(Merge(spots), {p}), NEW s \in spots
  PROVE  /\ ~Hides(s, p) /\ s.path # p
         /\ ~(s.subtree /\ Within(p, s.path))
<1>1. PICK t \in Merge(spots) :
        /\ t.path = s.path /\ t.reason = s.reason /\ t.aggregate = s.aggregate
        /\ s.subtree => t.subtree
  BY MergeFacts
<1>2. ~ IF t.aggregate THEN p = t.path \/ Within(t.path, p) \/ SummaryMatches(t.reason, p)
        ELSE Intersects(p, t)
  BY DEF ScopeIsClear
<1>3. CASE s.aggregate
  <2>1. p # s.path /\ ~SummaryMatches(s.reason, p) /\ ~s.subtree
    BY <1>1, <1>2, <1>3 DEF SpotsOK
  <2> QED
    BY <1>3, <2>1 DEF Hides, SummaryMatches
<1>4. CASE ~s.aggregate
  <2>1. ~Intersects(p, t)
    BY <1>1, <1>2, <1>4
  <2>2. p # s.path /\ ~(s.subtree /\ Within(p, s.path))
    BY <1>1, <2>1 DEF Intersects
  <2> QED
    BY <1>4, <2>2 DEF Hides
<1> QED
  BY <1>3, <1>4

\* What the two captures must say of p for a change of that kind to be listed.
Fits(kind, p, b, f) ==
    \/ kind = "create" /\ p \in DOMAIN f.entries \ DOMAIN b.entries /\ BothClear(p, b, f)
    \/ kind = "delete" /\ p \in DOMAIN b.entries \ DOMAIN f.entries /\ BothClear(p, b, f)
    \/ /\ kind = "type_change" /\ p \in DOMAIN b.entries \cap DOMAIN f.entries
       /\ b.entries[p].kind # f.entries[p].kind
    \/ /\ kind = "modify" /\ p \in DOMAIN b.entries \cap DOMAIN f.entries
       /\ b.entries[p].kind = f.entries[p].kind
       /\ \/ b.entries[p].size # f.entries[p].size
          \/ /\ None \notin {b.entries[p].digest, f.entries[p].digest}
             /\ b.entries[p].digest # f.entries[p].digest

LEMMA ChangeKinds ==
  ASSUME NEW b, NEW f, NEW p
  PROVE  /\ \A change \in Changes(b, f) : change.path = p => Fits(change.kind, p, b, f)
         /\ \A kind : Fits(kind, p, b, f) => [path |-> p, kind |-> kind] \in Changes(b, f)
<1>1. \A change \in Changes(b, f) :
        \E q, kind : change = [path |-> q, kind |-> kind] /\ Fits(kind, q, b, f)
  BY DEF Changes, Fits
<1>2. \A kind : Fits(kind, p, b, f) => [path |-> p, kind |-> kind] \in Changes(b, f)
  BY DEF Changes, Fits
<1> QED
  BY <1>1, <1>2

\* A change that is listed did happen, with that kind.
LEMMA ListedHappened ==
  ASSUME Good(snapshots.baseline), Good(snapshots.final),
         NEW p \in Paths \ {Root}, Settled(p),
         NEW change \in Changes(snapshots.baseline, snapshots.final), change.path = p
  PROVE  change.kind = TrueChange(p)
<1> DEFINE b == snapshots.baseline
           f == snapshots.final
           before == b.start[p]
           after == f.start[p]
<1>1. p \notin b.disturbed /\ p \notin f.disturbed
  BY DEF Settled
<1>2. /\ b.blind \in SUBSET SpotSet /\ SpotsOK(b.blind)
      /\ before.kind # "missing" => Known(p, b.entries, b.blind)
      /\ p \in DOMAIN b.entries =>
           /\ b.entries[p].kind = before.kind /\ before.kind # "missing"
           /\ b.entries[p].size = before.size
           /\ b.entries[p].digest \in {None, before.content} /\ Visible(p)
  BY <1>1, SeenInSnapshot
<1>3. /\ f.blind \in SUBSET SpotSet /\ SpotsOK(f.blind)
      /\ after.kind # "missing" => Known(p, f.entries, f.blind)
      /\ p \in DOMAIN f.entries =>
           /\ f.entries[p].kind = after.kind /\ after.kind # "missing"
           /\ f.entries[p].size = after.size
           /\ f.entries[p].digest \in {None, after.content} /\ Visible(p)
  BY <1>1, SeenInSnapshot
<1>4. TrueChange(p) = IF before = after THEN "none"
                      ELSE IF before.kind = "missing" THEN "create"
                      ELSE IF after.kind = "missing" THEN "delete"
                      ELSE IF before.kind # after.kind THEN "type_change"
                      ELSE "modify"
  BY DEF TrueChange
<1> HIDE DEF b, f, before, after
<1>5. CASE /\ change.kind = "create" /\ p \in DOMAIN f.entries \ DOMAIN b.entries
           /\ BothClear(p, b, f)
  <2>1. ~\E s \in b.blind : Hides(s, p)
    BY <1>2, <1>3, <1>5, ClearOfVisible DEF BothClear
  <2>2. before.kind = "missing" /\ after.kind # "missing"
    BY <1>2, <1>3, <1>5, <2>1 DEF Known
  <2> QED
    BY <1>4, <1>5, <2>2
<1>6. CASE /\ change.kind = "delete" /\ p \in DOMAIN b.entries \ DOMAIN f.entries
           /\ BothClear(p, b, f)
  <2>1. ~\E s \in f.blind : Hides(s, p)
    BY <1>2, <1>3, <1>6, ClearOfVisible DEF BothClear
  <2>2. before.kind # "missing" /\ after.kind = "missing"
    BY <1>2, <1>3, <1>6, <2>1 DEF Known
  <2> QED
    BY <1>4, <1>6, <2>2
<1>7. CASE /\ change.kind = "type_change" /\ p \in DOMAIN b.entries \cap DOMAIN f.entries
           /\ b.entries[p].kind # f.entries[p].kind
  BY <1>2, <1>3, <1>4, <1>7
<1>8. CASE /\ change.kind = "modify" /\ p \in DOMAIN b.entries \cap DOMAIN f.entries
           /\ b.entries[p].kind = f.entries[p].kind
           /\ \/ b.entries[p].size # f.entries[p].size
              \/ /\ None \notin {b.entries[p].digest, f.entries[p].digest}
                 /\ b.entries[p].digest # f.entries[p].digest
  BY <1>2, <1>3, <1>4, <1>8
<1>9. Fits(change.kind, p, b, f)
  BY ChangeKinds DEF b, f
<1> QED
  BY <1>5, <1>6, <1>7, <1>8, <1>9 DEF Fits

\* Where nothing casts doubt on the scope of a path, what happened is listed.
LEMMA HappenedIsListed ==
  ASSUME Good(snapshots.baseline), Good(snapshots.final),
         NEW p \in Paths \ {Root}, Settled(p),
         TargetComplete(snapshots.baseline, snapshots.final, {p}), TrueChange(p) # "none"
  PROVE  \E change \in Changes(snapshots.baseline, snapshots.final) : change.path = p
<1> DEFINE b == snapshots.baseline
           f == snapshots.final
           before == b.start[p]
           after == f.start[p]
           spots == b.blind \cup f.blind
<1>1. p \notin b.disturbed /\ p \notin f.disturbed
  BY DEF Settled
<1>2. /\ before \in Views /\ b.blind \in SUBSET SpotSet /\ SpotsOK(b.blind)
      /\ before.content # None <=> before.kind = "regular"
      /\ before.kind = "missing" => before.size = 1
      /\ before.kind # "missing" => Known(p, b.entries, b.blind)
      /\ p \in DOMAIN b.entries =>
           /\ b.entries[p].kind = before.kind /\ before.kind # "missing"
           /\ b.entries[p].size = before.size
           /\ b.entries[p].digest \in {None, before.content}
           /\ b.entries[p].kind = "regular" /\ b.entries[p].digest = None =>
                \E x \in b.blind : x.path = p /\ ~x.aggregate
  BY <1>1, SeenInSnapshot
<1>3. /\ after \in Views /\ f.blind \in SUBSET SpotSet /\ SpotsOK(f.blind)
      /\ after.content # None <=> after.kind = "regular"
      /\ after.kind = "missing" => after.size = 1
      /\ after.kind # "missing" => Known(p, f.entries, f.blind)
      /\ p \in DOMAIN f.entries =>
           /\ f.entries[p].kind = after.kind /\ after.kind # "missing"
           /\ f.entries[p].size = after.size
           /\ f.entries[p].digest \in {None, after.content}
           /\ f.entries[p].kind = "regular" /\ f.entries[p].digest = None =>
                \E x \in f.blind : x.path = p /\ ~x.aggregate
  BY <1>1, SeenInSnapshot
<1>4. before # after
  BY DEF TrueChange
<1>5. ScopeIsClear(Merge(spots), {p})
  BY DEF TargetComplete, DiffBlind
<1> HIDE DEF b, f, before, after
<1>6. spots \in SUBSET SpotSet /\ SpotsOK(spots)
  BY <1>2, <1>3 DEF SpotsOK
<1>7. \A s \in spots : ~Hides(s, p) /\ s.path # p /\ ~(s.subtree /\ Within(p, s.path))
  <2> HIDE DEF spots
  <2> QED
    BY <1>5, <1>6, ClearScope
<1>8. BothClear(p, b, f)
  BY <1>7 DEF BothClear, ExistenceIsClear
<1>9. /\ before.kind # "missing" <=> p \in DOMAIN b.entries
      /\ after.kind # "missing" <=> p \in DOMAIN f.entries
  BY <1>2, <1>3, <1>7 DEF Known
<1>10. CASE before.kind = "missing" /\ after.kind = "missing"
  BY <1>2, <1>3, <1>4, <1>10, ViewsDiffer
<1>11. CASE before.kind = "missing" /\ after.kind # "missing"
  <2>1. [path |-> p, kind |-> "create"] \in Changes(b, f)
    BY <1>8, <1>9, <1>11, ChangeKinds DEF Fits
  <2> QED
    BY <2>1 DEF b, f
<1>12. CASE before.kind # "missing" /\ after.kind = "missing"
  <2>1. [path |-> p, kind |-> "delete"] \in Changes(b, f)
    BY <1>8, <1>9, <1>12, ChangeKinds DEF Fits
  <2> QED
    BY <2>1 DEF b, f
<1>13. CASE before.kind # "missing" /\ after.kind # "missing" /\ before.kind # after.kind
  <2>1. [path |-> p, kind |-> "type_change"] \in Changes(b, f)
    BY <1>2, <1>3, <1>9, <1>13, ChangeKinds DEF Fits
  <2> QED
    BY <2>1 DEF b, f
<1>14. CASE before.kind # "missing" /\ after.kind # "missing" /\ before.kind = after.kind
  <2>1. /\ p \in DOMAIN b.entries /\ p \in DOMAIN f.entries
        /\ b.entries[p].kind = f.entries[p].kind
    BY <1>2, <1>3, <1>9, <1>14
  <2>2. \/ b.entries[p].size # f.entries[p].size
        \/ /\ None \notin {b.entries[p].digest, f.entries[p].digest}
           /\ b.entries[p].digest # f.entries[p].digest
    <3>1. CASE before.size # after.size
      BY <1>2, <1>3, <2>1, <3>1
    <3>2. CASE before.size = after.size
      <4>1. before.kind = "regular" /\ before.content # after.content
        BY <1>2, <1>3, <1>4, <1>14, <3>2, ViewsDiffer
      <4>2. b.entries[p].digest # None /\ f.entries[p].digest # None
        BY <1>2, <1>3, <1>7, <1>14, <2>1, <4>1
      <4> QED
        BY <1>2, <1>3, <2>1, <4>1, <4>2
    <3> QED
      BY <3>1, <3>2
  <2>3. [path |-> p, kind |-> "modify"] \in Changes(b, f)
    BY <2>1, <2>2, ChangeKinds DEF Fits
  <2> QED
    BY <2>3 DEF b, f
<1> QED
  BY <1>10, <1>11, <1>12, <1>13, <1>14

LEMMA GoodIsExact ==
  ASSUME SnapshotsOK
  PROVE  DiffIsExact
<1> SUFFICES ASSUME phase = "compared"
             PROVE  \A p \in {q \in Paths \ {Root} : Settled(q)} :
                      /\ \A change \in Changes(snapshots.baseline, snapshots.final) :
                           change.path = p => change.kind = TrueChange(p)
                      /\ /\ TargetComplete(snapshots.baseline, snapshots.final, {p})
                         /\ TrueChange(p) # "none"
                         => \E change \in Changes(snapshots.baseline, snapshots.final) :
                              change.path = p
  BY DEF DiffIsExact
<1>1. Good(snapshots.baseline) /\ Good(snapshots.final)
  BY DEF SnapshotsOK
<1> QED
  BY <1>1, ListedHappened, HappenedIsListed

----------------------------------------------------------------------------
(* The whole *)

Phases == {"begin", "baseline", "patch", "final", "compared"}

IInv == edits \in 0 .. MaxEdits /\ phase \in Phases /\ CallInv /\ WalkInv /\ SnapshotsOK

LEMMA NoCallIsFine ==
  ASSUME TreeAt(fs', clock'), clock' \in Nat, call' = NoCall, TempIsOurs'
  PROVE  CallInv'
<1>1. /\ NoCall.step = "none" /\ NoCall.lost = None /\ NoCall.left = FALSE
      /\ NoCall.did = "nothing"
  BY DEF NoCall
<1>2. NoCall \in Calls
  BY DEF NoCall, Calls, EffectStates
<1>3. CallOK'
  BY <1>1 DEF CallOK, Executing, OfUpdate
<1>4. ReadIsOfResolved' /\ ExpectedOrNewer' /\ HandleIsOwn' /\ EffectIsTrue' /\ StaleNotReplaced'
  BY <1>1 DEF ReadIsOfResolved, ExpectedOrNewer, HandleIsOwn, EffectIsTrue, StaleNotReplaced,
              Destroying, OfUpdate
<1> QED
  BY <1>2, <1>3, <1>4 DEF CallInv

LEMMA BeginPreserves ==
  ASSUME IInv, Begin
  PROVE  IInv'
<1>1. phase = "begin" /\ phase' = "baseline" /\ BeginCapture
      /\ UNCHANGED <<files, call, snapshots>>
  BY DEF Begin
<1>2. WalkInv'
  BY <1>1, BeginKeepsWalk DEF IInv
<1>3. call = NoCall /\ TempIsOurs'
  BY <1>1 DEF IInv, CallInv, TempIsOurs, Present, files
<1>4. CallInv'
  <2>1. TreeAt(fs', clock') /\ clock' \in Nat
    BY <1>2 DEF WalkInv
  <2> QED
    BY <1>1, <1>3, <2>1, NoCallIsFine
<1> QED
  BY <1>1, <1>2, <1>4 DEF IInv, Phases, SnapshotsOK, files

LEMMA WalkOnPreserves ==
  ASSUME IInv, WalkOn
  PROVE  IInv'
<1>1. Capturing /\ Walk /\ UNCHANGED <<files, call, phase, snapshots>>
  BY DEF WalkOn
<1>2. UNCHANGED <<limits, start, disturbed>>
  BY <1>1 DEF Walk, List, Visit, Ascend, ReadFile
<1>3. WalkInv'
  BY <1>1, <1>2, WalkStepPreserves DEF IInv, SameCapture
<1>4. call = NoCall /\ TempIsOurs'
  BY <1>1 DEF IInv, CallInv, TempIsOurs, Present, files, Capturing
<1>5. CallInv'
  <2>1. TreeAt(fs', clock') /\ clock' \in Nat
    BY <1>3 DEF WalkInv
  <2> QED
    BY <1>1, <1>4, <2>1, NoCallIsFine
<1> QED
  BY <1>1, <1>3, <1>5 DEF IInv, SnapshotsOK, files

LEMMA FinishPreserves ==
  ASSUME IInv, FinishCapture
  PROVE  IInv'
<1>1. PICK why \in {stopped} \cup MayStop :
        /\ Fault \/ NoFault
        /\ snapshots' = [snapshots EXCEPT ![phase] = Snapshot(why)]
  BY DEF FinishCapture
<1>2. /\ Capturing /\ stack = Idle
      /\ phase' = IF phase = "baseline" THEN "patch" ELSE "compared"
      /\ entries' = <<>> /\ blind' = {} /\ observed' = 0 /\ stopped' = None
      /\ disturbed' = {} /\ start' = [p \in Paths |-> View(p)]
      /\ UNCHANGED <<files, limits, stack, reading, call>>
  BY DEF FinishCapture
<1>3. /\ WalkInv /\ TreeAt(fs, clock) /\ clock \in Nat
      /\ CaptureTypeOK /\ WalkOK /\ limits \in LimitChoices
  BY DEF IInv, WalkInv
<1>4. reading = None
  BY <1>2, <1>3 DEF WalkOK
<1>5. WalkInv'
  <2>1. DOMAIN entries' = {} /\ Cardinality(DOMAIN entries') = 0
    BY <1>2, FS_EmptySet
  <2>2. start' \in [Paths -> Views]
    BY <1>2, <1>3, Viewed
  <2>3. ~Capturing'
    BY <1>2 DEF Capturing
  <2>4. CaptureTypeOK'
    BY <1>2, <1>3, <1>4, <2>1, <2>2 DEF CaptureTypeOK
  <2>5. WalkOK'
    BY <1>2, <1>3, <1>4, <2>1, <2>3 DEF WalkOK, SpotsOK, UnreadIsBlind
  <2>6. CaptureOK'
    BY <2>3 DEF CaptureOK
  <2>7. faults' \in 0 .. MaxFaults
    BY <1>1, <1>3, Faults
  <2>8. limits.entries \in Nat /\ limits.total \in Nat
    BY <1>3, ObserverAssumption DEF Limits
  <2> QED
    BY <1>2, <1>3, <2>1, <2>4, <2>5, <2>6, <2>7, <2>8 DEF WalkInv, files
<1>6. CallInv'
  <2>1. TreeAt(fs', clock') /\ clock' \in Nat
    BY <1>5 DEF WalkInv
  <2>2. call = NoCall /\ TempIsOurs'
    BY <1>2 DEF IInv, CallInv, TempIsOurs, Present, files, Capturing
  <2> QED
    BY <1>2, <2>1, <2>2, NoCallIsFine
<1>7. SnapshotsOK'
  <2> DEFINE snapshot == Snapshot(why)
  <2>1. Good(snapshot)
    BY <1>1, <1>2, <1>3, SnapshotIsGood
  <2>2. snapshots' = [snapshots EXCEPT ![phase] = snapshot]
    BY <1>1
  <2> HIDE DEF snapshot
  <2>3. CASE phase = "baseline"
    <3>1. DOMAIN snapshots' = {"baseline", "final"} /\ snapshots'.baseline = snapshot
      BY <2>2, <2>3 DEF IInv, SnapshotsOK
    <3> QED
      BY <1>2, <2>1, <2>3, <3>1 DEF SnapshotsOK
  <2>4. CASE phase = "final"
    <3>1. /\ DOMAIN snapshots' = {"baseline", "final"} /\ snapshots'.final = snapshot
          /\ snapshots'.baseline = snapshots.baseline
      BY <2>2, <2>4 DEF IInv, SnapshotsOK
    <3>2. Good(snapshots.baseline)
      BY <2>4 DEF IInv, SnapshotsOK
    <3> QED
      BY <1>2, <2>1, <2>4, <3>1, <3>2 DEF SnapshotsOK
  <2> QED
    BY <1>2, <2>3, <2>4 DEF Capturing
<1> QED
  BY <1>2, <1>5, <1>6, <1>7 DEF IInv, Phases, files

LEMMA PatchPreserves ==
  ASSUME IInv, Patch
  PROVE  IInv'
<1>1. PICK fault \in BOOLEAN, cleaned \in BOOLEAN :
        /\ faults' = faults + Cardinality({x \in {"fault", "cleanup"} :
                                 IF x = "fault" THEN fault ELSE ~cleaned})
        /\ faults' <= MaxFaults
        /\ PatchStep(fault, cleaned)
  BY DEF Patch
<1>2. phase = "patch" /\ UNCHANGED <<limits, capture, phase, snapshots>>
  BY DEF Patch
<1>3. CallInv'
  BY <1>1, <1>2, PatchStepPreserves DEF IInv
<1>4. WalkInv'
  <2>1. TreeAt(fs', clock') /\ clock' \in Nat
    BY <1>3 DEF CallInv
  <2>2. faults' \in 0 .. MaxFaults
    <3> DEFINE flagged == {x \in {"fault", "cleanup"} : IF x = "fault" THEN fault ELSE ~cleaned}
    <3>1. Cardinality(flagged) \in Nat
      <4>1. IsFiniteSet({"fault", "cleanup"})
        <5>1. IsFiniteSet({"fault"})
          BY FS_Singleton
        <5>2. IsFiniteSet({"fault"} \cup {"cleanup"})
          BY <5>1, FS_AddElement
        <5>3. {"fault", "cleanup"} = {"fault"} \cup {"cleanup"}
          OBVIOUS
        <5> QED
          BY <5>2, <5>3
      <4>2. flagged \in SUBSET {"fault", "cleanup"}
        OBVIOUS
      <4> QED
        BY <4>1, <4>2, FS_Subset, FS_CardinalityType
    <3>2. faults' = faults + Cardinality(flagged)
      BY <1>1
    <3> HIDE DEF flagged
    <3>3. faults \in Nat
      BY ObserverAssumption DEF IInv, WalkInv
    <3> QED
      BY <1>1, <3>1, <3>2, <3>3, ObserverAssumption
  <2>3. /\ limits' = limits /\ stack' = stack /\ entries' = entries /\ blind' = blind
        /\ observed' = observed /\ stopped' = stopped /\ reading' = reading
        /\ start' = start /\ disturbed' = disturbed /\ phase' = phase
    BY <1>2 DEF capture
  <2>4. CaptureTypeOK' = CaptureTypeOK
    BY <2>3 DEF CaptureTypeOK
  <2>5. WalkOK' = WalkOK
    BY <2>3 DEF WalkOK, Capturing
  <2>6. CaptureOK'
    BY <1>2, <2>3 DEF CaptureOK, Capturing
  <2> QED
    BY <2>1, <2>2, <2>3, <2>4, <2>5, <2>6 DEF IInv, WalkInv
<1>5. edits' = edits
  BY <1>1 DEF PatchStep, Ask, ResolveTarget, ReadTarget, Confirm, Guard, Recheck, MakeTemp,
              WriteTemp, Replace, OpenNew, FillNew, RemoveTarget, FailsWithTemp, Unchanged, files
<1> QED
  BY <1>2, <1>3, <1>4, <1>5 DEF IInv, SnapshotsOK

LEMMA BeginFinalPreserves ==
  ASSUME IInv, BeginFinal
  PROVE  IInv'
<1>1. phase = "patch" /\ phase' = "final" /\ call' = NoCall /\ BeginCapture
      /\ UNCHANGED <<files, snapshots>>
  BY DEF BeginFinal
<1>2. WalkInv'
  BY <1>1, BeginKeepsWalk DEF IInv
<1>3. TempIsOurs'
  BY <1>1 DEF TempIsOurs
<1>4. CallInv'
  <2>1. TreeAt(fs', clock') /\ clock' \in Nat
    BY <1>2 DEF WalkInv
  <2> QED
    BY <1>1, <1>3, <2>1, NoCallIsFine
<1> QED
  BY <1>1, <1>2, <1>4 DEF IInv, Phases, SnapshotsOK, files

LEMMA EditPreserves ==
  ASSUME IInv, Edit
  PROVE  IInv'
<1>1. PICK p \in Editable :
        /\ Change(p)
        /\ disturbed' = IF Capturing THEN disturbed \cup Disturbed(p) ELSE {}
  BY DEF Edit
<1>2. UNCHANGED <<limits, faults, stack, entries, blind, observed, stopped, reading, start,
                  call, phase, snapshots>>
  BY DEF Edit
<1>3. WalkInv'
  BY <1>1, <1>2, EditKeepsWalk DEF IInv
<1>4. CallInv'
  BY <1>1, <1>2, ChangeKeepsCall DEF IInv
<1>5. edits' \in 0 .. MaxEdits
  BY <1>1, WorkspaceFilesAssumption DEF IInv, Change
<1> QED
  BY <1>2, <1>3, <1>4, <1>5 DEF IInv, SnapshotsOK

LEMMA InitIsFine ==
  ASSUME Init
  PROVE  IInv
<1>1. /\ fs \in InitialFiles /\ clock = 0 /\ edits = 0 /\ call = NoCall /\ phase = "begin"
      /\ snapshots = [baseline |-> NoSnapshot, final |-> NoSnapshot]
      /\ limits \in LimitChoices /\ faults = 0
      /\ stack = Idle /\ entries = <<>> /\ blind = {} /\ observed = 0
      /\ stopped = None /\ reading = None
      /\ start = [p \in Paths |-> View(p)] /\ disturbed = {}
  BY DEF Init, FilesInit, CaptureInit, PatchInit
<1>2. TreeAt(fs, clock) /\ clock \in Nat
  BY <1>1, WorkspaceFilesAssumption DEF TreeAt
<1>3. CallInv
  <2>1. /\ NoCall.step = "none" /\ NoCall.lost = None /\ NoCall.left = FALSE
        /\ NoCall.did = "nothing"
    BY DEF NoCall
  <2>2. NoCall \in Calls
    BY DEF NoCall, Calls, EffectStates
  <2>3. CallOK
    BY <1>1, <2>1 DEF CallOK, Executing, OfUpdate
  <2>4. ReadIsOfResolved /\ ExpectedOrNewer /\ HandleIsOwn /\ EffectIsTrue /\ StaleNotReplaced
    BY <1>1, <2>1 DEF ReadIsOfResolved, ExpectedOrNewer, HandleIsOwn, EffectIsTrue,
                      StaleNotReplaced, Destroying, OfUpdate
  <2>5. TempIsOurs
    <3>1. ~Present(Temp)
      BY <1>1, PatchToolAssumption DEF Present
    <3> QED
      BY <1>1, <3>1 DEF TempIsOurs
  <2> QED
    BY <1>1, <1>2, <2>2, <2>3, <2>4, <2>5 DEF CallInv
<1>4. WalkInv
  <2>1. DOMAIN entries = {} /\ Cardinality(DOMAIN entries) = 0
    BY <1>1, FS_EmptySet
  <2>2. start \in [Paths -> Views]
    BY <1>1, <1>2, Viewed
  <2>3. ~Capturing
    BY <1>1 DEF Capturing
  <2>4. stack \in Seq(FrameSet) /\ Len(stack) = 0
    BY <1>1 DEF Idle
  <2>5. CaptureTypeOK
    BY <1>1, <2>1, <2>2, <2>4 DEF CaptureTypeOK
  <2>6. WalkOK
    BY <1>1, <2>1, <2>3, <2>4 DEF WalkOK, SpotsOK, UnreadIsBlind
  <2>7. limits.entries \in Nat /\ limits.total \in Nat
    BY <1>1, ObserverAssumption DEF Limits
  <2> QED
    BY <1>1, <1>2, <2>1, <2>3, <2>5, <2>6, <2>7, ObserverAssumption DEF WalkInv, CaptureOK
<1>5. SnapshotsOK
  BY <1>1 DEF SnapshotsOK
<1> QED
  BY <1>1, <1>3, <1>4, <1>5, WorkspaceFilesAssumption DEF IInv, Phases

LEMMA InvIsTyped ==
  ASSUME IInv
  PROVE  TypeOK
<1>1. fs \in [Paths -> Node] /\ clock \in Nat /\ edits \in 0 .. MaxEdits
  BY DEF IInv, WalkInv, TreeAt
<1>2. /\ limits \in LimitChoices /\ faults \in 0 .. MaxFaults
      /\ Cardinality(DOMAIN entries) <= limits.entries /\ observed <= limits.total
      /\ stopped \in Stops \cup {None} /\ disturbed \subseteq Paths
  BY DEF IInv, WalkInv
<1>3. /\ stack \in Seq(FrameSet) /\ DOMAIN entries \subseteq Paths /\ blind \subseteq SpotSet
  BY DEF IInv, WalkInv, CaptureTypeOK
<1>4. \A i \in 1 .. Len(stack) : stack[i].dir \in Paths /\ stack[i].listed \in BOOLEAN
  <2>1. \A i \in 1 .. Len(stack) : stack[i] \in FrameSet
    BY <1>3
  <2>2. \A f \in FrameSet : f.dir \in Paths /\ f.listed \in BOOLEAN
    BY DEF FrameSet
  <2> QED
    BY <2>1, <2>2
<1>5. \A s \in blind : s.path \in Paths /\ {s.subtree, s.aggregate} \subseteq BOOLEAN
  BY <1>3 DEF SpotSet
<1>6. call \in Calls /\ phase \in Phases
  BY DEF IInv, CallInv
<1> QED
  BY <1>1, <1>2, <1>3, <1>4, <1>5, <1>6 DEF TypeOK, Phases

----------------------------------------------------------------------------
(* Theorems *)

\* The inductive invariant holds of every reachable state.
THEOREM Inductive == Spec => []IInv
<1>1. Init => IInv
  BY InitIsFine
<1>2. IInv /\ [Next]_vars => IInv'
  <2> SUFFICES ASSUME IInv, [Next]_vars PROVE IInv'
    OBVIOUS
  <2>1. CASE UNCHANGED vars
    <3>1. UNCHANGED <<fs, clock, edits, limits, faults, stack, entries, blind, observed, stopped,
                      reading, start, disturbed, call, phase, snapshots>>
      BY <2>1 DEF vars, files, capture
    <3>2. CallInv' = CallInv
      BY <3>1 DEF CallInv, CallOK, ReadIsOfResolved, ExpectedOrNewer, HandleIsOwn, TempIsOurs,
                  EffectIsTrue, StaleNotReplaced, Present
    <3>3. WalkInv'
      <4>1. CaptureTypeOK' = CaptureTypeOK /\ WalkOK' = WalkOK
        BY <3>1 DEF CaptureTypeOK, WalkOK, Capturing
      <4>2. CaptureOK' = CaptureOK
        BY <3>1 DEF CaptureOK, Capturing, ViewsOK, Undisturbed, View, SizeOf, Present, Sound,
                    ReadingIsRegular, Covered
      <4> QED
        BY <3>1, <4>1, <4>2 DEF IInv, WalkInv
    <3> QED
      BY <3>1, <3>2, <3>3 DEF IInv, SnapshotsOK
  <2>2. CASE Next
    BY <2>1, <2>2, BeginPreserves, WalkOnPreserves, FinishPreserves, PatchPreserves,
       BeginFinalPreserves, EditPreserves DEF Next, Done
  <2> QED
    BY <2>1, <2>2
<1> QED
  BY <1>1, <1>2, PTL DEF Spec

\* The types, and a capture keeps to its limits on entries and bytes whatever
\* the files do meanwhile (WorkspaceLimits).
THEOREM TypeCorrect == Spec => []TypeOK
<1>1. IInv => TypeOK
  BY InvIsTyped
<1> QED
  BY <1>1, Inductive, PTL

\* The effect state of every finished patch call is true of the files.
THEOREM EffectsAreTrue == Spec => []EffectIsTrue
<1>1. IInv => EffectIsTrue
  BY DEF IInv, CallInv
<1> QED
  BY <1>1, Inductive, PTL

\* What an update or a delete destroyed is what the call named, or newer than
\* its last revalidation.
THEOREM NothingStaleIsLost == Spec => []StaleNotReplaced
<1>1. IInv => StaleNotReplaced
  BY DEF IInv, CallInv
<1> QED
  BY <1>1, Inductive, PTL

\* The diff of two captures is exact where it claims to be, whatever an editor
\* changed meanwhile, whatever failed, and wherever a limit cut a capture short.
THEOREM DiffsAreExact == Spec => []DiffIsExact
<1>1. IInv => DiffIsExact
  BY GoodIsExact DEF IInv
<1> QED
  BY <1>1, Inductive, PTL
=============================================================================
