------------------------------- MODULE MCMemory -------------------------------
(***************************************************************************)
(* Long-term memory for TLC: two clients, three IDs, one topic of two      *)
(* contents.  A candidate never expires, or expires at 2 or 3; one becomes *)
(* valid at 2 only.                                                        *)
(***************************************************************************)
EXTENDS Memory, TLC

CONSTANTS p1, p2, i1, i2, i3, topic, c1, c2, secret

MCClients  == {p1, p2}
MCIds      == {i1, i2, i3}
MCTopics   == {topic}
MCContents == {c1, c2, secret}
MCSensitive == {secret}

Say(c, from, expires) ==
    [topic |-> topic, content |-> c, from |-> from, expires |-> expires]

MCCandidates ==
    {Say(c1, 1, Never), Say(c1, 1, 2), Say(c2, 2, 3), Say(secret, 1, Never)}

\* Clients and IDs are interchangeable.
MCSymmetry == Permutations(MCClients) \cup Permutations(MCIds)
=============================================================================
