\* Two validators, two governed calls; the limitations have room for one more.
SPECIFICATION Spec
CONSTANTS
    None = None
    Suites <- MCSuites
    Contents = {old, new}
    Original = old
    Configured <- MCConfigured
    MaxLimitations = 2
    MaxCalls = 2
    Clears <- MCClears
INVARIANTS TypeOK PassedIsEarned EvidenceIsHonest
