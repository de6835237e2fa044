SPECIFICATION FairSpec
CONSTANTS
    script_api_key_2 = "script_api_key_2"
    access_token = "access_token"
    Secrets <- MCSecrets
    Purposes <- MCPurposes
    Purpose <- MCPurpose
    Exclusive <- MCExclusive
    Uncompared <- MCUncompared
    MaxLoads = 2
    MaxActs = 4
INVARIANTS
    TypeOK
    SavedResultIsNew
PROPERTIES
    LoadNeverOlder
    SecretsChangeByIntent
    SaveIsReported
    SaveEnds
CHECK_DEADLOCK FALSE
