\* One call in a still world is enough: its executor raises with no message.
CONSTANTS
    s1 = s1
    s2 = s2
    v1 = v1
    v2 = v2
    network = network
    Scopes <- MCScopes
    Versions <- MCVersions
    Capabilities <- MCCapabilities
    PreHooks <- MCPreHooks
    PostHooks = 1
    MaxGovernedCalls = 2
    MaxCalls = 1
    MaxDrifts = 0
SPECIFICATION Spec
INVARIANT AttemptsLeaveEvidence
CHECK_DEADLOCK FALSE
