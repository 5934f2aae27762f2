\* A topic that is added, refreshed, corrected, expired and forgotten by two
\* clients, with a clock of three values that is set back once.
CONSTANTS
    p1 = p1
    p2 = p2
    i1 = i1
    i2 = i2
    i3 = i3
    topic = topic
    c1 = c1
    c2 = c2
    secret = secret
    NoId = NoId
    Clients <- MCClients
    Ids <- MCIds
    Topics <- MCTopics
    Contents <- MCContents
    Sensitive <- MCSensitive
    Candidates <- MCCandidates
    MaxTime = 3
    MaxSetBacks = 1
    MaxRevision = 3
SPECIFICATION Spec
INVARIANTS
    TypeOK
    SoundDecisions
    InspectionNotBlocked
    RecallIsUnambiguous
PROPERTIES
    ExpiryIsInvisible
    ImplementsLifecycle
CHECK_DEADLOCK FALSE
SYMMETRY MCSymmetry
