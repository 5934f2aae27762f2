---------------------------- MODULE MCContextRun -----------------------------
(***************************************************************************)
(* Two instruction files and two skills that an editor may exchange, under *)
(* limits each of which some choice of contents meets; transcripts of up   *)
(* to three turns, one of them with a separator inside its record.         *)
(***************************************************************************)
EXTENDS ContextRun

CONSTANTS root, dir, guide, local, alpha, beta, short, long, makeA, makeB, broken, A, B

MCParent == dir :> root @@ guide :> root @@ local :> dir @@ alpha :> dir @@ beta :> dir
MCChain == <<guide, local>>
MCSkills == <<alpha, beta>>
MCSize == short :> 1 @@ long :> 3 @@ makeA :> 1 @@ makeB :> 2 @@ broken :> 1
MCKey == short :> None @@ long :> None @@ makeA :> A @@ makeB :> B @@ broken :> None
MCHidden == [p \in {root, dir, guide, local, alpha, beta} |-> None]
Tree(g, l, a, b) ==
    [p \in Paths |->
       CASE p \in {root, dir} -> Special(0, "directory")
         [] p = guide -> File(0, g)
         [] p = local -> File(0, l)
         [] p = alpha -> File(0, a)
         [] p = beta -> IF b = None THEN Gone(0) ELSE File(0, b)]
MCInitialFiles == {Tree(short, short, makeA, makeB), Tree(short, long, makeA, broken),
                   Tree(long, short, makeB, makeB), Tree(short, short, makeB, None)}
MCLoadLimits == [individual |-> 2, aggregate |-> 2, entry |-> 2, catalog |-> 3,
                 resources |-> 2, entries |-> 2, body |-> 1, omissions |-> 1]

Turn(cost, lines) == [cost |-> cost, lines |-> lines]
Older == {Turn(1, <<1>>), Turn(3, <<2>>), Turn(2, <<1, 1>>)}
MCTranscripts ==
    LET ask == <<Turn(1, <<1>>)>>
        some == {<<a>> : a \in Older} \cup {<<a, b>> : a, b \in Older}
                  \cup {<<a, b, c>> : a, b, c \in Older}
    IN  {ask} \cup {s \o ask : s \in some}
MCMemories == {None, {[id |-> 1, score |-> 2, kind |-> "fact", size |-> 1, rendered |-> 1],
                      [id |-> 2, score |-> 1, kind |-> "fact", size |-> 2, rendered |-> 3],
                      [id |-> 3, score |-> 2, kind |-> "preference", size |-> 2, rendered |-> 2],
                      [id |-> 4, score |-> 0, kind |-> "fact", size |-> 1, rendered |-> 1]}}
MCRequests == {[score |-> 1, kinds |-> {"fact", "preference"}, records |-> 2, characters |-> 9],
               [score |-> 1, kinds |-> {"fact"}, records |-> 3, characters |-> 2]}
MCBudgets ==
    {[active |-> a, summary |-> s, input |-> 4, recent |-> r, memory |-> m,
      repository |-> [b \in Buckets |-> IF b = "instruction" THEN 3 ELSE 2]]
        : a \in 3 .. 9, s \in {0, 2, 4}, r \in 0 .. 1, m \in {3, 5}}
=============================================================================
