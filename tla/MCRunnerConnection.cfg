\* Two runner processes; frames of 20 bytes, escapes of 6, an envelope of 4.
SPECIFICATION FairSpec
CONSTANTS
    Hosts = {h1, h2}
    Policies <- MCPolicies
    None = None
    MaxPayload = 20
    EscapeExpansion = 6
    EnvelopeBytes = 4
    MetadataBytes = 2
    MaxLimitValue = 31
    MaxBlockingTools = 1
    MaxFaults = 4
INVARIANTS
    TypeOK
    OneRunnerServes
    ServesPublishedLimits
PROPERTIES
    PolicyEpochKept
    ServesAgain
