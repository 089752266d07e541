\* syncTransferNFT with a nonce that is not the committed one.
SPECIFICATION Spec
CONSTANTS
    c1 = c1
    c2 = c2
    c3 = c3
    transfer = transfer
    batch = batch
    remote = remote
    keyChange = keyChange
    onchainKeyChange = onchainKeyChange
    Calls <- TwoCalls
    Transfers <- OneTransfer
    KeyChanges = {}
    OnchainKeyChanges = {}
    Batches <- OneBatch
    NFTTransfers <- OneBatch
    RemoteRequests = {}
    BatchSize = 2
    GivenNonces = {1}
    MaxFailures = 0
    MaxForeign = 0
    MaxAuths = 0
INVARIANTS GivenNonceIsUsed
CHECK_DEADLOCK FALSE
