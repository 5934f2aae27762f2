\* Two streams, a full pipe, a chunk that is not full, a limit that is reached.
SPECIFICATION FairSpec
CONSTANTS
    None = None
    stdout = stdout
    stderr = stderr
    Streams = {stdout, stderr}
    Capacity = 1
    Chunk = 2
    Limit <- MCLimit
    MaxWritten <- MCMaxWritten
    AllowShell = FALSE
INVARIANTS TypeOK HonestResult OutputIsWhole
PROPERTIES CommandReturns NeverBlocked
