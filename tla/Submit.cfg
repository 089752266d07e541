\* A transfer, a batch, an operation of a RemoteWallet and two changes of the key, one
\* authorised on Rootstock; three attempts of which one fails, another program's operation in between.
SPECIFICATION Spec
CONSTANTS
    c1 = c1
    c2 = c2
    c3 = c3
    transfer = transfer
    batch = batch
    remote = remote
    keyChange = keyChange
    onchainKeyChange = onchainKeyChange
    Calls <- ThreeCalls
    Transfers <- OneTransfer
    KeyChanges <- TwoKeyChanges
    OnchainKeyChanges <- OneOnchain
    Batches <- OneBatch
    NFTTransfers = {}
    RemoteRequests <- OneRemote
    BatchSize = 2
    GivenNonces = {}
    MaxFailures = 1
    MaxForeign = 1
    MaxAuths = 1
SYMMETRY Symmetry
INVARIANTS TypeOK PaysOnce NeverRejected KeyChangedOnce TransferFeeIsQuoted
CHECK_DEADLOCK FALSE
