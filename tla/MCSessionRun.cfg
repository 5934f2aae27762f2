\* One caller may be stopped; the other races it for the session.
SPECIFICATION FairSpec
CONSTANTS
    c1 = c1
    c2 = c2
    i1 = i1
    i2 = i2
    k1 = k1
    k2 = k2
    Callers = {c1, c2}
    Apps = {a1, a2}
    Nobody = Nobody
    MaxIterations = 2
    MaxAttempts = 2
    HasRetriever = TRUE
    HasMemory = TRUE
    Control = {c1}
    Completions <- MCCompletions
INVARIANTS TypeOK AnsweredIsStored NoCallTwice
PROPERTIES AppendOnly StopIsHonoured StoppedRunReleases
