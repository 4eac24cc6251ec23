SPECIFICATION QSpec
CONSTANTS
    Urls = {u1, u2, u3, u4, u5}
    PushDepths <- MCPushDepths
    MaxCapacity = 3
INVARIANTS
    PendingIsNewestSuffix
    AdmittedAtMostOnce
    EntriesAccountedFor
PROPERTIES
    EvictionOnlyWhenCritical
    ImplementsFrontier
SYMMETRY UrlSymmetry
