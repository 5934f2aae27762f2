---------------------------- MODULE MCWorkspace -----------------------------
(***************************************************************************)
(* A small file, a directory with the target and two excluded files.  The  *)
(* limits let all through, or cut the entries, the size of one file, or    *)
(* the bytes of a capture.                                                 *)
(***************************************************************************)
EXTENDS Workspace

CONSTANTS root, note, dir, target, temp, key1, key2, old, new, long, empty

MCParent == note :> root @@ dir :> root @@ target :> dir @@ temp :> dir
              @@ key1 :> dir @@ key2 :> dir
MCOrder == root :> 0 @@ dir :> 1 @@ note :> 2 @@ temp :> 3 @@ target :> 4
             @@ key1 :> 5 @@ key2 :> 6
MCSize == old :> 1 @@ new :> 1 @@ long :> 2 @@ empty :> 0
MCHidden == [p \in {root, note, dir, target, temp, key1, key2} |->
               IF p \in {key1, key2} THEN "secret" ELSE None]
MCPatched == old :> new @@ new :> None @@ long :> None @@ empty :> None

Tree(c, keys) ==
    [p \in Paths |->
       CASE p \in {root, dir} -> Special(0, "directory")
         [] p = note -> File(0, old)
         [] p = target /\ c # None -> File(0, c)
         [] p \in keys -> File(0, old)
         [] OTHER -> Gone(0)]
MCInitialFiles == {Tree(old, {}), Tree(None, {key1}), Tree(old, {key1, key2})}
MCLimitChoices == {[entries |-> 9, file |-> 9, total |-> 9],
                   [entries |-> 2, file |-> 1, total |-> 9],
                   [entries |-> 9, file |-> 1, total |-> 1]}
=============================================================================
