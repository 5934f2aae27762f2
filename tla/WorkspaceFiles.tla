--------------------------- MODULE WorkspaceFiles ---------------------------
(***************************************************************************)
(* The files of a workspace and the path operations of Workspace           *)
(* (src/dqagent/workspace.py) that every tool goes through: resolve a      *)
(* logical path to a file with a signature, and revalidate that result     *)
(* before an effect.  An editor outside the run changes files in between   *)
(* (Edit), which is what the signatures are for.                           *)
(*                                                                         *)
(* A path is a member of a finite tree.  A node's stamp stands for its     *)
(* device, inode, size and times: each change gives it a new one.          *)
(***************************************************************************)
EXTENDS Naturals, FiniteSets

CONSTANTS Paths,       \* the logical paths of interest
          Root,        \* PurePosixPath(".")
          Parent,      \* Parent[p], for p # Root
          Contents,    \* what a regular file may hold
          Size,        \* Size[c]: its length in bytes
          Hidden,      \* Hidden[p]: why a rule of the scope excludes p, or None
          Editable,    \* the paths the outside editor changes
          InitialFiles,\* the workspaces a run may start in
          MaxEdits,    \* bound: changes of the outside editor
          None

Kinds == {"missing", "regular", "directory", "link", "other"}
Node == [kind : Kinds, stamp : Nat, content : Contents \cup {None}]

\* What a rule may exclude a path for.
ExclusionReasons == {"protected", "secret", "volatile_exclusion", "ignored"}

\* p and the directories above it (PurePosixPath.parents): the least set with
\* p that is closed under Parent.
Above == [p \in Paths |->
            {q \in Paths : \A S \in SUBSET Paths :
                /\ p \in S
                /\ \A r \in S \ {Root} : Parent[r] \in S
                => q \in S}]

\* Only a regular file has content, and only a directory has files below it.
IsTree(f) ==
    /\ \A p \in Paths : f[p].content # None <=> f[p].kind = "regular"
    /\ \A p \in Paths \ {Root} : f[p].kind # "missing" => f[Parent[p]].kind = "directory"

ASSUME WorkspaceFilesAssumption ==
    /\ IsFiniteSet(Paths) /\ Root \in Paths /\ Editable \subseteq Paths \ {Root}
    /\ Parent \in [Paths \ {Root} -> Paths] /\ \A p \in Paths : Root \in Above[p]
    /\ Size \in [Contents -> Nat] /\ None \notin Contents
    /\ Hidden \in [Paths -> ExclusionReasons \cup {None}]
    /\ InitialFiles \subseteq [Paths -> Node]
    /\ \A f \in InitialFiles : IsTree(f) /\ \A p \in Paths : f[p].stamp = 0
    /\ MaxEdits \in Nat

VARIABLES fs,       \* fs[p]: the node at p
          clock,    \* the changes so far: the stamp of the next node is clock + 1
          edits     \* the changes of the outside editor so far

files == <<fs, clock, edits>>

-----------------------------------------------------------------------------
(* Paths.                                                                  *)

Within(p, q) == q \in Above[p]

Below(p) == {q \in Paths : Within(q, p)}

Children(p) == {q \in Paths \ {Root} : Parent[q] = p}

Present(p) == fs[p].kind # "missing"

\* st_size: the bytes of a file; a directory grows with its entries.
SizeOf(p) ==
    CASE fs[p].kind = "regular" -> Size[fs[p].content]
      [] fs[p].kind = "directory" -> Cardinality({q \in Children(p) : Present(q)})
      [] OTHER -> 1

-----------------------------------------------------------------------------
(* Changes.                                                                *)

Gone(n) == [kind |-> "missing", stamp |-> n, content |-> None]
File(n, c) == [kind |-> "regular", stamp |-> n, content |-> c]
Special(n, k) == [kind |-> k, stamp |-> n, content |-> None]

\* Put a node at p; what was below a directory goes with it.
Put(p, node) ==
    /\ fs' = [q \in Paths |->
                IF q = p THEN node
                ELSE IF Within(q, p) THEN Gone(clock + 1)
                ELSE fs[q]]
    /\ clock' = clock + 1

\* What a change of p may alter: p, all below it, and the directory it is in.
Disturbed(p) == Below(p) \cup {Parent[p]}

-----------------------------------------------------------------------------
(* Workspace.resolve and revalidate.                                       *)

Signature == [parent : Nat, target : Nat, missing : BOOLEAN]

\* resolve(p) succeeds, for the purpose of a patch, on a regular file or on
\* nothing in an existing directory; the scope's rules deny the rest.  A link
\* resolves to a followed link or escapes: either is refused by the caller.
Resolves(p) ==
    /\ Hidden[p] \notin {"protected", "secret"}
    /\ fs[Parent[p]].kind = "directory"
    /\ fs[p].kind \in {"missing", "regular"}

Resolved(p) == [parent |-> fs[Parent[p]].stamp,
                target |-> IF Present(p) THEN fs[p].stamp ELSE 0,
                missing |-> ~Present(p)]


\* revalidate: the parent is the same directory, and the target still missing
\* or the very same file.
StillResolves(p, sig) == Resolves(p) /\ Resolved(p) = sig

-----------------------------------------------------------------------------
FilesInit == fs \in InitialFiles /\ clock = 0 /\ edits = 0

\* The outside editor saves, replaces, creates or removes a path.  A path with
\* others below it never becomes a link.
Change(p) ==
    /\ edits < MaxEdits
    /\ fs[Parent[p]].kind = "directory"
    /\ \/ \E c \in Contents : Put(p, File(clock + 1, c))
       \/ fs[p].kind # "directory" /\ Put(p, Special(clock + 1, "directory"))
       \/ Children(p) = {} /\ fs[p].kind # "link" /\ Put(p, Special(clock + 1, "link"))
       \/ Present(p) /\ Put(p, Gone(clock + 1))
    /\ edits' = edits + 1
=============================================================================
