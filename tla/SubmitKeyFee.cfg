\* setSigningKey, called again after its first attempt has failed.
SPECIFICATION Spec
CONSTANTS
    c1 = c1
    c2 = c2
    c3 = c3
    transfer = transfer
    batch = batch
    remote = remote
    keyChange = keyChange
    onchainKeyChange = onchainKeyChange
    Calls <- TwoCalls
    Transfers = {}
    KeyChanges <- OneKeyChange
    OnchainKeyChanges = {}
    Batches = {}
    NFTTransfers = {}
    RemoteRequests = {}
    BatchSize = 1
    GivenNonces = {}
    MaxFailures = 1
    MaxForeign = 0
    MaxAuths = 0
INVARIANTS FeeIsQuoted
CHECK_DEADLOCK FALSE
