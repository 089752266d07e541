----------------------------- MODULE MCSigning ------------------------------
(* A small instance of Signing: of every kind of request one or two, and   *)
(* those that differ from it in one argument.                              *)
EXTENDS Signing, TLC

CONSTANTS alice, bob, key, otherKey, hash, otherHash

MCAddresses == {alice, bob}
MCPubKeyHashes == {key, otherKey}
MCContentHashes == {hash, otherHash}

\* A token of two decimals with two names, one of none, and an NFT.
MCTokenId == "RBTC" :> 0 @@ "0x00" :> 0 @@ "RIF" :> 1 @@ "NFT" :> 3
MCUnit == 0 :> 100 @@ 1 :> 1

Varied(r, field, values) == {r} \cup {[r EXCEPT ![field] = v] : v \in values}

\* 64 cannot be packed; 5 of RIF is as much as 500 of RBTC; Word does not fit.
Amounts == {0, 5, 64, 500}
Fees == {0, 1, 2}
Nonces == {1, Word}
Names == DOMAIN MCTokenId

VariedInTime(r) == Varied(r, "validFrom", {1, Word}) \cup Varied(r, "validUntil", {0, 1})

VariedInFee(r) == Varied(r, "fee", Fees) \cup Varied(r, "nonce", Nonces)

Pay(amount, fee) ==
    [type |-> "Transfer", to |-> alice, token |-> "RBTC", amount |-> amount, fee |-> fee,
     nonce |-> 0, validFrom |-> None, validUntil |-> None]

Leave(amount, fee) ==
    [type |-> "Withdraw", ethAddress |-> alice, token |-> "RBTC", amount |-> amount,
     fee |-> fee, nonce |-> 0, validFrom |-> None, validUntil |-> None]

SetKey ==
    [type |-> "ChangePubKey", feeToken |-> "RBTC", fee |-> 1, nonce |-> 0,
     ethAuthType |-> "ECDSA", batchHash |-> None, validFrom |-> None, validUntil |-> None]

Exit ==
    [type |-> "ForcedExit", target |-> bob, token |-> "RBTC", fee |-> 1, nonce |-> 0,
     validFrom |-> None, validUntil |-> None]

Mint ==
    [type |-> "MintNFT", recipient |-> alice, contentHash |-> hash, feeToken |-> "RBTC",
     fee |-> 1, nonce |-> 0]

LeaveNFT ==
    [type |-> "WithdrawNFT", to |-> alice, token |-> "NFT", feeToken |-> "RBTC", fee |-> 1,
     nonce |-> 0, validFrom |-> None, validUntil |-> None]

Offer ==
    [type |-> "Order", tokenSell |-> "RBTC", tokenBuy |-> "RIF", ratioType |-> "Wei",
     sellPrice |-> 1, buyPrice |-> 2, amount |-> 5, recipient |-> None, nonce |-> 0,
     validFrom |-> None, validUntil |-> None]

Ordered(tokenSell, amount) ==
    [type |-> "Order", accountId |-> 2, recipient |-> bob, nonce |-> 0,
     tokenSell |-> tokenSell, tokenBuy |-> 1 - tokenSell, sellPrice |-> 1, buyPrice |-> 2,
     amount |-> amount, validFrom |-> 0, validUntil |-> MaxTimestamp]

Exchange ==
    [type |-> "Swap", orderA |-> Ordered(0, 5), orderB |-> Ordered(1, 5),
     feeToken |-> "RBTC", fee |-> 1, amountA |-> None, amountB |-> None, nonce |-> 0]

MCRequests ==
    Varied(Pay(5, 0), "to", {bob}) \cup Varied(Pay(5, 0), "token", Names)
    \cup Varied(Pay(5, 0), "amount", Amounts)
    \cup VariedInFee(Pay(5, 0)) \cup VariedInTime(Pay(5, 0)) \cup VariedInFee(Pay(0, 0))
    \cup Varied(Leave(5, 0), "ethAddress", {bob}) \cup Varied(Leave(5, 0), "token", Names)
    \cup Varied(Leave(5, 0), "amount", Amounts)
    \cup VariedInFee(Leave(5, 0)) \cup VariedInTime(Leave(5, 0)) \cup VariedInFee(Leave(0, 1))
    \cup Varied(SetKey, "feeToken", Names) \cup Varied(SetKey, "ethAuthType", AuthTypes)
    \cup Varied(SetKey, "batchHash", {hash, otherHash})
    \cup VariedInFee(SetKey) \cup VariedInTime(SetKey)
    \cup Varied(Exit, "target", {alice}) \cup Varied(Exit, "token", Names)
    \cup VariedInFee(Exit) \cup VariedInTime(Exit)
    \cup Varied(Mint, "recipient", {bob}) \cup Varied(Mint, "contentHash", {otherHash})
    \cup Varied(Mint, "feeToken", Names) \cup VariedInFee(Mint)
    \cup Varied(LeaveNFT, "to", {bob}) \cup Varied(LeaveNFT, "token", Names)
    \cup Varied(LeaveNFT, "feeToken", Names) \cup VariedInFee(LeaveNFT)
    \cup VariedInTime(LeaveNFT)
    \cup Varied(Offer, "tokenSell", Names) \cup Varied(Offer, "tokenBuy", Names)
    \cup Varied(Offer, "ratioType", {"Token"}) \cup Varied(Offer, "sellPrice", {0, 2})
    \cup Varied(Offer, "buyPrice", {1}) \cup Varied(Offer, "amount", Amounts)
    \cup Varied(Offer, "recipient", {bob}) \cup Varied(Offer, "nonce", Nonces)
    \cup VariedInTime(Offer)
    \cup Varied(Exchange, "orderA", {Ordered(0, 0), Ordered(0, 6)})
    \cup Varied(Exchange, "orderB", {Ordered(0, 5)}) \cup Varied(Exchange, "amountA", {5, 6})
    \cup Varied([Exchange EXCEPT !.amountA = 5], "amountB", {5, 6})
    \cup Varied(Exchange, "feeToken", Names) \cup VariedInFee(Exchange)

\* Batches of one, and of two of these.
InBatches ==
    {Pay(5, 0), Pay(0, 0), Pay(0, 1), Leave(5, 1), SetKey, Mint, [Pay(5, 0) EXCEPT !.token = "NFT"],
     [Exchange EXCEPT !.amountA = 5, !.amountB = 5]}

MCBatches ==
    {<<r>> : r \in InBatches \cup {Exit, LeaveNFT}}
        \cup {<<q, r>> : q \in InBatches, r \in InBatches}
=============================================================================
