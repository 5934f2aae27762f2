\* Three calls and room for two: a leaked reservation meets the capacity.
CONSTANTS
    s1 = s1
    s2 = s2
    v1 = v1
    v2 = v2
    network = network
    Scopes <- MCScopes
    Versions <- MCVersions
    Capabilities <- MCCapabilities
    PreHooks <- MCPreHooks
    PostHooks = 1
    MaxGovernedCalls = 2
    MaxCalls = 3
    MaxDrifts = 1
SPECIFICATION Spec
INVARIANTS
    TypeOK
    EffectsAccounted
    AuthorisedEffects
PROPERTY NoStaleEffect
CHECK_DEADLOCK FALSE
SYMMETRY MCSymmetry
