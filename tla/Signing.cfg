\* Any two signings out of a few hundred requests and batches of up to two; fields of four bytes
\* hold 0 to 15, packed amounts have a mantissa of six bits and an exponent of two.
SPECIFICATION Spec
CONSTANTS
    alice = alice
    bob = bob
    key = key
    otherKey = otherKey
    hash = hash
    otherHash = otherHash
    Addresses <- MCAddresses
    PubKeyHashes <- MCPubKeyHashes
    ContentHashes <- MCContentHashes
    Word = 16
    Prices = 1000
    FullAmounts = 1000
    MaxAccounts = 4
    MaxTokens = 4
    ExpBits = 2
    MantissaBits = 6
    Requests <- MCRequests
    Batches <- MCBatches
    AccountId = 1
    Address = alice
    PubKeyHash = key
    TokenId <- MCTokenId
    Unit <- MCUnit
    MaxUnit = 100
    MinNFTTokenId = 2
    MaxSignings = 2
INVARIANTS TypeOK SameBytesSameTransaction SameMessageSameEffect
CHECK_DEADLOCK FALSE
