\* Two runs of one workflow: one starts it, and may be cancelled, run out of
\* time, crash, or have handlers that cancel it; both may resume or replay it.
SPECIFICATION FairSpec
CONSTANTS
    a = a
    p = p
    x = x
    y = y
    e = e
    k = k
    r1 = r1
    r2 = r2
    w1 = w1
    w2 = w2
    v1 = v1
    in1 = in1
    NoNode = NoNode
    NoRun = NoRun
    StartNode = a
    Keys = {k}
    Versions = {v1}
    Inputs = {in1}
    Runs = {r1, r2}
    Workflows = {w1, w2}
    Control = {r1}
    Mortal = {r1}
    MaxParallelism = 2
    Starters <- MCStarters
    Rogue <- MCRogue
    Nodes <- MCNodes
    Kind <- MCKind
    Targets <- MCTargets
    Branches <- MCBranches
    Updates <- MCUpdates
    Rank <- MCRank
    Version <- MCVersion
INVARIANTS TypeOK OneTerminalEvent OutcomeIsTrue AllOrNothing
PROPERTIES RefinesDurable CompletedIsFinal StoppedRunsEnd FailedBranchReleasesRun
