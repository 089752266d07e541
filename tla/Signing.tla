------------------------------- MODULE Signing ------------------------------
(***************************************************************************)
(* What a wallet signs.  The get methods of src/wallet.ts complete what    *)
(* the program asks for, src/signer.ts signs its bytes with the rollup     *)
(* key; the sign methods and processBatchBuilderTransactions also have the *)
(* user sign a message, put together by src/eth-message-signer.ts, that    *)
(* says in words what the transactions do.  A wallet whose Rootstock       *)
(* signer cannot sign messages, for all its signatures are zero, shows     *)
(* none.                                                                   *)
(*                                                                         *)
(* A message is the sequence of its lines, a line the tuple of what it     *)
(* says.  A symbol is modelled by the id of its token.                     *)
(***************************************************************************)
EXTENDS Serialization, Sequences, SequencesExt

CONSTANTS
    Requests,       \* what a program may ask to be signed
    Batches,        \* sequences of requests, for a batch
    AccountId,      \* the account's id, as setRequiredAccountIdFromServer finds it
    Address,        \* of the account
    PubKeyHash,     \* of the wallet's rollup key
    TokenId,        \* resolveTokenId: the ids of the names a program has for tokens
    Unit,           \* a whole of each token, 10^decimals, by id
    MaxUnit,        \* what every such unit divides
    MinNFTTokenId,  \* ids from here on are NFTs
    MaxSignings     \* bound on the calls that sign

VARIABLES
    ethSigner,      \* "ordinary", "Create2" or "No2FA"
    signed,         \* what the rollup key has signed: [tx, bytes]
    shown,          \* what the user has signed: [txs, message], with the
                    \* transactions that the message was made for
    signings

vars == <<ethSigner, signed, shown, signings>>

None == -1

MaxTimestamp == Word - 1

IsNFT(token) == token >= MinNFTTokenId

\* Requests as the program makes them, optional arguments being None, with the nonce
\* that Submission is about.
TransferRequest ==
    [type : {"Transfer"}, to : Addresses, token : DOMAIN TokenId, amount : Nat, fee : Nat,
     nonce : Nat, validFrom : Nat \cup {None}, validUntil : Nat \cup {None}]

WithdrawRequest ==
    [type : {"Withdraw"}, ethAddress : Addresses, token : DOMAIN TokenId, amount : Nat,
     fee : Nat, nonce : Nat, validFrom : Nat \cup {None}, validUntil : Nat \cup {None}]

AuthTypes == {"Onchain", "ECDSA", "CREATE2", "ECDSALegacyMessage"}

ChangePubKeyRequest ==
    [type : {"ChangePubKey"}, feeToken : DOMAIN TokenId, fee : Nat, nonce : Nat,
     ethAuthType : AuthTypes, batchHash : ContentHashes \cup {None},
     validFrom : Nat \cup {None}, validUntil : Nat \cup {None}]

ForcedExitRequest ==
    [type : {"ForcedExit"}, target : Addresses, token : DOMAIN TokenId, fee : Nat,
     nonce : Nat, validFrom : Nat \cup {None}, validUntil : Nat \cup {None}]

MintNFTRequest ==
    [type : {"MintNFT"}, recipient : Addresses, contentHash : ContentHashes,
     feeToken : DOMAIN TokenId, fee : Nat, nonce : Nat]

WithdrawNFTRequest ==
    [type : {"WithdrawNFT"}, to : Addresses, token : DOMAIN TokenId,
     feeToken : DOMAIN TokenId, fee : Nat, nonce : Nat,
     validFrom : Nat \cup {None}, validUntil : Nat \cup {None}]

OrderRequest ==
    [type : {"Order"}, tokenSell : DOMAIN TokenId, tokenBuy : DOMAIN TokenId,
     ratioType : {"Wei", "Token"}, sellPrice : Nat, buyPrice : Nat, amount : Nat,
     recipient : Addresses \cup {None}, nonce : Nat,
     validFrom : Nat \cup {None}, validUntil : Nat \cup {None}]

SwapRequest ==
    [type : {"Swap"}, orderA : Order, orderB : Order, feeToken : DOMAIN TokenId,
     fee : Nat, amountA : Nat \cup {None}, amountB : Nat \cup {None}, nonce : Nat]

ASSUME SigningAssumption ==
    /\ Requests \subseteq
        TransferRequest \cup WithdrawRequest \cup ChangePubKeyRequest \cup ForcedExitRequest
            \cup MintNFTRequest \cup WithdrawNFTRequest \cup OrderRequest \cup SwapRequest
    /\ Batches \subseteq Seq({r \in Requests : r.type # "Order"})
    /\ AccountId \in Nat /\ Address \in Addresses /\ PubKeyHash \in PubKeyHashes
    /\ \A token \in DOMAIN TokenId : TokenId[token] \in Nat
    /\ \A token \in DOMAIN TokenId : ~IsNFT(TokenId[token]) =>
            /\ Unit[TokenId[token]] \in Nat \ {0}
            /\ MaxUnit % Unit[TokenId[token]] = 0
    /\ MinNFTTokenId \in Nat /\ MaxUnit \in Nat \ {0} /\ MaxSignings \in Nat

Init ==
    /\ ethSigner \in {"ordinary", "Create2", "No2FA"}
    /\ signed = {} /\ shown = {} /\ signings = 0

(***************************************************************************)
(* The signer of the rollup key: fields renamed, and the bytes signed.     *)
(***************************************************************************)
SignMintNFT(tx) == [tx |-> tx, bytes |-> SerializeMintNFT(tx)]
SignWithdrawNFT(tx) == [tx |-> tx, bytes |-> SerializeWithdrawNFT(tx)]
SignSyncOrder(tx) == [tx |-> tx, bytes |-> SerializeOrder(tx)]
SignSyncSwap(tx) == [tx |-> tx, bytes |-> SerializeSwap(tx)]
SignSyncTransfer(tx) == [tx |-> tx, bytes |-> SerializeTransfer(tx)]
SignSyncWithdraw(tx) == [tx |-> tx, bytes |-> SerializeWithdraw(tx)]
SignSyncForcedExit(tx) == [tx |-> tx, bytes |-> SerializeForcedExit(tx)]
SignSyncChangePubKey(tx) == [tx |-> tx, bytes |-> SerializeChangePubKey(tx)]

(***************************************************************************)
(* The wallet completes a transaction.                                     *)
(***************************************************************************)
\* validFrom || 0 and validUntil || MAX_TIMESTAMP: an end of validity of 0 is none.
ValidFrom(r) == IF r.validFrom = None THEN 0 ELSE r.validFrom

\* Mutant: the caller has to see to it.
ValidUntilAsGiven(r) == r.validUntil

ValidUntil(r) == IF r.validUntil \in {None, 0} THEN MaxTimestamp ELSE r.validUntil

GetTransfer(r) == SignSyncTransfer(
    [type |-> "Transfer", accountId |-> AccountId, from |-> Address, to |-> r.to,
     token |-> TokenId[r.token], amount |-> r.amount, fee |-> r.fee, nonce |-> r.nonce,
     validFrom |-> ValidFrom(r), validUntil |-> ValidUntil(r)])

GetChangePubKey(r) == SignSyncChangePubKey(
    [type |-> "ChangePubKey", accountId |-> AccountId, account |-> Address,
     newPkHash |-> PubKeyHash, feeToken |-> TokenId[r.feeToken], fee |-> r.fee,
     nonce |-> r.nonce, validFrom |-> ValidFrom(r), validUntil |-> ValidUntil(r)])

GetWithdrawFromSyncToEthereum(r) == SignSyncWithdraw(
    [type |-> "Withdraw", accountId |-> AccountId, from |-> Address, to |-> r.ethAddress,
     token |-> TokenId[r.token], amount |-> r.amount, fee |-> r.fee, nonce |-> r.nonce,
     validFrom |-> ValidFrom(r), validUntil |-> ValidUntil(r)])

GetForcedExit(r) == SignSyncForcedExit(
    [type |-> "ForcedExit", initiatorAccountId |-> AccountId, target |-> r.target,
     token |-> TokenId[r.token], fee |-> r.fee, nonce |-> r.nonce,
     validFrom |-> ValidFrom(r), validUntil |-> ValidUntil(r)])

\* syncSwap takes the amounts of the orders if the program gives none.
SwapAmount(given, order) == IF given = None THEN order.amount ELSE given

GetSwap(r) == SignSyncSwap(
    [type |-> "Swap", submitterId |-> AccountId, submitterAddress |-> Address,
     nonce |-> r.nonce, orderA |-> r.orderA, orderB |-> r.orderB,
     feeToken |-> TokenId[r.feeToken], fee |-> r.fee,
     amountA |-> SwapAmount(r.amountA, r.orderA), amountB |-> SwapAmount(r.amountB, r.orderB)])

GetMintNFT(r) == SignMintNFT(
    [type |-> "MintNFT", creatorId |-> AccountId, creatorAddress |-> Address,
     contentHash |-> r.contentHash, recipient |-> r.recipient,
     feeToken |-> TokenId[r.feeToken], fee |-> r.fee, nonce |-> r.nonce])

GetWithdrawNFT(r) == SignWithdrawNFT(
    [type |-> "WithdrawNFT", accountId |-> AccountId, from |-> Address, to |-> r.to,
     token |-> TokenId[r.token], feeToken |-> TokenId[r.feeToken], fee |-> r.fee,
     nonce |-> r.nonce, validFrom |-> ValidFrom(r), validUntil |-> ValidUntil(r)])

\* A ratio of tokens is parsed with the decimals of each, a ratio of Wei is taken as it is.
Price(r, token, price) ==
    IF r.ratioType = "Token" /\ ~IsNFT(TokenId[token])
    THEN price * Unit[TokenId[token]] ELSE price

GetPartialOrder(r) == SignSyncOrder(
    [type |-> "Order", accountId |-> AccountId,
     recipient |-> IF r.recipient = None THEN Address ELSE r.recipient,
     nonce |-> r.nonce, tokenSell |-> TokenId[r.tokenSell], tokenBuy |-> TokenId[r.tokenBuy],
     sellPrice |-> Price(r, r.tokenSell, r.sellPrice),
     buyPrice |-> Price(r, r.tokenBuy, r.buyPrice), amount |-> r.amount,
     validFrom |-> ValidFrom(r), validUntil |-> ValidUntil(r)])

(***************************************************************************)
(* The parts of the messages.  An amount or a fee of 0 is left out; others *)
(* are written in units of the token, here as multiples of the smallest    *)
(* fraction that any token has.                                            *)
(***************************************************************************)
FormatToken(token, amount) ==
    amount * (MaxUnit \div IF IsNFT(token) THEN 1 ELSE Unit[token])

AmountLine(kind, amount, token, to) ==
    IF amount = 0 THEN <<>> ELSE << <<kind, FormatToken(token, amount), token, to>> >>

FeeLine(fee, token) ==
    IF fee = 0 THEN <<>> ELSE << <<"Fee", FormatToken(token, fee), token>> >>

\* Mutant: a withdrawal is announced as a transfer.
TransferPartOfEither(kind, amount, fee, token, to) ==
    AmountLine("Transfer", amount, token, to) \o FeeLine(fee, token)

\* getTransferEthMessagePart, for withdrawals too.
TransferPart(kind, amount, fee, token, to) ==
    AmountLine(kind, amount, token, to) \o FeeLine(fee, token)

GetTransferEthMessagePart(r) ==
    TransferPart("Transfer", r.amount, r.fee, TokenId[r.token], r.to)

GetWithdrawEthMessagePart(r) ==
    TransferPart("Withdraw", r.amount, r.fee, TokenId[r.token], r.ethAddress)

GetChangePubKeyEthMessagePart(r) ==
    << <<"Set signing key", PubKeyHash>> >> \o FeeLine(r.fee, TokenId[r.feeToken])

GetForcedExitEthMessagePart(r) ==
    << <<"ForcedExit", TokenId[r.token], r.target>> >> \o FeeLine(r.fee, TokenId[r.token])

GetMintNFTEthMessagePart(r) ==
    << <<"MintNFT", r.contentHash, r.recipient>> >> \o FeeLine(r.fee, TokenId[r.feeToken])

GetWithdrawNFTEthMessagePart(r) ==
    << <<"WithdrawNFT", TokenId[r.token], r.to>> >> \o FeeLine(r.fee, TokenId[r.feeToken])

GetSwapEthSignMessagePart(r) ==
    IF r.fee = 0 THEN <<>>
    ELSE << <<"Swap fee", FormatToken(TokenId[r.feeToken], r.fee), TokenId[r.feeToken]>> >>

NonceLine(nonce) == << <<"Nonce", nonce>> >>

\* A limit order has no amount.  The ratio is that of the signed order.
OrderMessage(order) ==
    << <<"Order", order.tokenSell, order.tokenBuy,
         FormatToken(order.tokenSell, order.amount)>>,
       <<"Ratio", order.sellPrice, order.buyPrice>>, <<"Address", order.recipient>> >>
        \o NonceLine(order.nonce)

\* getChangePubkeyMessage, getChangePubkeyLegacyMessage: without the fee.  No batch hash
\* reads like that of zeros.
ChangePubKeyMessage(r) ==
    CASE r.ethAuthType = "ECDSA" ->
            << <<"ECDSA", PubKeyHash, NumberToBytes(r.nonce), NumberToBytes(AccountId),
                 r.batchHash>> >>
      [] r.ethAuthType = "ECDSALegacyMessage" ->
            << <<"ECDSALegacyMessage", PubKeyHash, NumberToBytes(r.nonce),
                 NumberToBytes(AccountId)>> >>
      [] OTHER -> <<>>

(***************************************************************************)
(* The calls that sign.  Any of them may throw before it gets as far, or   *)
(* between its two signatures: the user refuses, a request fails.          *)
(***************************************************************************)
UnableToSign == ethSigner \in {"Create2", "No2FA"}

Shown(txs, message) ==
    IF UnableToSign \/ message = <<>> THEN {} ELSE {[txs |-> txs, message |-> message]}

\* What the rollup key signs, and what the user does.
BothSign(made, messages) ==
    /\ signings' = signings + 1
    /\ signed' = signed \cup made
    /\ shown' = shown \cup messages
    /\ UNCHANGED ethSigner

\* The rollup key signs first.
Sign(s, message) ==
    /\ Serializable(s.tx)
    /\ \E messages \in {{}, Shown(<<s.tx>>, message)} : BothSign({s}, messages)

\* resolveTokenSymbol throws for an NFT.
HasSymbol(token) == ~IsNFT(TokenId[token])

\* So nothing can be said about it, but that is after the rollup key has signed.
Worded(token, message) == IF HasSymbol(token) THEN message ELSE <<>>

SignTransfer(r) ==
    /\ signings < MaxSignings /\ r.type = "Transfer"
    /\ Sign(GetTransfer(r),
            Worded(r.token, GetTransferEthMessagePart(r) \o NonceLine(r.nonce)))

SignWithdraw(r) ==
    /\ signings < MaxSignings /\ r.type = "Withdraw"
    /\ Sign(GetWithdrawFromSyncToEthereum(r),
            Worded(r.token, GetWithdrawEthMessagePart(r) \o NonceLine(r.nonce)))

\* Authentication by CREATE2 is for CREATE2 wallets.
MayAuthenticate(r) == r.ethAuthType = "CREATE2" => ethSigner = "Create2"

\* What the user signs to authorise the change, if the account's id is one.
Authorisation(r) ==
    IF IsAccountId(AccountId) THEN Shown(<<GetChangePubKey(r).tx>>, ChangePubKeyMessage(r))
    ELSE {}

\* The user authorises it first.
SignSetSigningKey(r) ==
    /\ signings < MaxSignings /\ r.type = "ChangePubKey" /\ MayAuthenticate(r)
    /\ \E made \in {{}, {GetChangePubKey(r)}} :
        /\ \A s \in made : Serializable(s.tx)
        /\ BothSign(made, Authorisation(r))

SignForcedExit(r) ==
    /\ signings < MaxSignings /\ r.type = "ForcedExit"
    /\ Sign(GetForcedExit(r),
            Worded(r.token, GetForcedExitEthMessagePart(r) \o NonceLine(r.nonce)))

\* A price of 0 is refused if it is the number, but not the string or the BigNumber.
SignOrder(r) ==
    /\ signings < MaxSignings /\ r.type = "Order"
    /\ Sign(GetPartialOrder(r), OrderMessage(GetPartialOrder(r).tx))

\* Without amounts, those of both orders must be explicit.
SignSwap(r) ==
    /\ signings < MaxSignings /\ r.type = "Swap"
    /\ None \in {r.amountA, r.amountB} => r.orderA.amount # 0 /\ r.orderB.amount # 0
    /\ Sign(GetSwap(r),
            Worded(r.feeToken, GetSwapEthSignMessagePart(r) \o NonceLine(r.nonce)))

SignMint(r) ==
    /\ signings < MaxSignings /\ r.type = "MintNFT"
    /\ Sign(GetMintNFT(r),
            Worded(r.feeToken, GetMintNFTEthMessagePart(r) \o NonceLine(r.nonce)))

\* withdrawNFT wants an NFT, signWithdrawNFT takes any token.
SignNFTWithdrawal(r) ==
    /\ signings < MaxSignings /\ r.type = "WithdrawNFT"
    /\ Sign(GetWithdrawNFT(r),
            Worded(r.feeToken, GetWithdrawNFTEthMessagePart(r) \o NonceLine(r.nonce)))

(***************************************************************************)
(* processBatchBuilderTransactions, and syncMultiTransfer for a batch of   *)
(* transfers.  The transactions are numbered from the first nonce and      *)
(* signed one after another, as far as nothing throws; then the user signs *)
(* one message for all of them, besides those that have authorised a       *)
(* change of the key on the way.                                           *)
(***************************************************************************)
Complete(r) ==
    CASE r.type = "Transfer" -> GetTransfer(r)
      [] r.type = "Withdraw" -> GetWithdrawFromSyncToEthereum(r)
      [] r.type = "ChangePubKey" -> GetChangePubKey(r)
      [] r.type = "ForcedExit" -> GetForcedExit(r)
      [] r.type = "MintNFT" -> GetMintNFT(r)
      [] r.type = "WithdrawNFT" -> GetWithdrawNFT(r)
      [] r.type = "Swap" -> GetSwap(r)

Part(r) ==
    CASE r.type = "Transfer" -> GetTransferEthMessagePart(r)
      [] r.type = "Withdraw" -> GetWithdrawEthMessagePart(r)
      [] r.type = "ChangePubKey" -> GetChangePubKeyEthMessagePart(r)
      [] r.type = "ForcedExit" -> GetForcedExitEthMessagePart(r)
      [] r.type = "MintNFT" -> GetMintNFTEthMessagePart(r)
      [] r.type = "WithdrawNFT" -> GetWithdrawNFTEthMessagePart(r)
      [] r.type = "Swap" -> GetSwapEthSignMessagePart(r)

\* resolveTokenSymbol throws for no token that the part of a transaction names.
HasPart(r) ==
    /\ r.type \in {"Withdraw", "ForcedExit"} => HasSymbol(r.token)
    /\ r.type \in {"ChangePubKey", "MintNFT", "WithdrawNFT", "Swap"} => HasSymbol(r.feeToken)

\* The part comes before the signature, but for a change of the key.
Signs(r) ==
    /\ r.type # "ChangePubKey" => HasPart(r)
    /\ r.type = "ChangePubKey" => MayAuthenticate(r)
    /\ r.type = "Swap" => None \notin {r.amountA, r.amountB}
    /\ Serializable(Complete(r).tx)

Numbered(batch) ==
    [i \in DOMAIN batch |-> [batch[i] EXCEPT !.nonce = batch[1].nonce + i - 1]]

\* It gets to the m-th transaction, and signs that one or throws there.
SignBatch(batch) ==
    /\ signings < MaxSignings
    /\ LET rs == Numbered(batch)
           done == [i \in DOMAIN rs |-> Complete(rs[i])]
           txs == [i \in DOMAIN rs |-> done[i].tx]
           parts == [i \in DOMAIN rs |-> Part(rs[i])]
       IN  \E m \in DOMAIN rs : \E n \in {m - 1, m} :
           /\ \A i \in 1 .. m - 1 : HasPart(rs[i])
           /\ \A i \in 1 .. n : Signs(rs[i])
           /\ LET authorised == {i \in 1 .. m : rs[i].type = "ChangePubKey" /\ MayAuthenticate(rs[i])}
                  whole == IF n = Len(batch) /\ HasPart(rs[n])
                           THEN Shown(txs, FlattenSeq(parts) \o NonceLine(rs[1].nonce)) ELSE {}
              IN  \E messages \in {{}, whole} :
                   BothSign({done[i] : i \in 1 .. n},
                            messages \cup UNION {Authorisation(rs[i]) : i \in authorised})

Next ==
    \/ \E r \in Requests :
        \/ SignTransfer(r) \/ SignWithdraw(r) \/ SignSetSigningKey(r) \/ SignForcedExit(r)
        \/ SignOrder(r) \/ SignSwap(r) \/ SignMint(r) \/ SignNFTWithdrawal(r)
    \/ \E batch \in Batches : SignBatch(batch)

Spec == Init /\ [][Next]_vars
-----------------------------------------------------------------------------
(***************************************************************************)
(* Safety.                                                                 *)
(***************************************************************************)

\* Whatever the program leaves out, what is signed is a transaction of the rollup, and
\* a message never goes with none.
TypeOK ==
    /\ ethSigner \in {"ordinary", "Create2", "No2FA"}
    /\ \A s \in signed : s.tx \in Transactions
    /\ \A m \in shown : m.txs # <<>> /\ \A i \in DOMAIN m.txs : m.txs[i] \in Transactions
    /\ signings \in 0 .. MaxSignings

\* No signature of the rollup key is good for two transactions, but for what is cut off:
\* they may differ in nonces and times that do not fit four bytes, and in nothing else.
SameBytesSameTransaction ==
    \A s, t \in signed : s.bytes = t.bytes => Cut(s.tx) = Cut(t.tx)

\* What a transaction does: whom it pays what, what it exchanges.
Deed(tx) ==
    CASE tx.type \in {"Transfer", "Withdraw"} ->
            IF tx.amount = 0 THEN <<>> ELSE << <<tx.type, tx.to, tx.token, tx.amount>> >>
      [] tx.type = "ChangePubKey" -> << <<tx.type, tx.newPkHash>> >>
      [] tx.type = "ForcedExit" -> << <<tx.type, tx.target, tx.token>> >>
      [] tx.type = "MintNFT" -> << <<tx.type, tx.recipient, tx.contentHash>> >>
      [] tx.type = "WithdrawNFT" -> << <<tx.type, tx.to, tx.token>> >>
      [] tx.type = "Order" -> << <<tx.type, tx.recipient, tx.tokenSell, tx.tokenBuy,
                                   tx.sellPrice, tx.buyPrice, tx.amount>> >>
      [] tx.type = "Swap" -> << <<tx.type, tx.orderA, tx.orderB, tx.amountA, tx.amountB>> >>

\* What it costs, a swap apart from the others.
Cost(tx) ==
    IF tx.type = "Order" \/ tx.fee = 0 THEN <<>>
    ELSE << <<IF tx.type = "Swap" THEN "Swap fee" ELSE "Fee",
              IF tx.type \in {"Transfer", "Withdraw", "ForcedExit"} THEN tx.token ELSE tx.feeToken,
              tx.fee>> >>

Effect(txs) == FlattenSeq([i \in DOMAIN txs |-> Deed(txs[i]) \o Cost(txs[i])])

\* What a message tells of it: all but what a swap exchanges.
Announced(tx) == (IF tx.type = "Swap" THEN <<>> ELSE Deed(tx)) \o Cost(tx)

Told(txs) == FlattenSeq([i \in DOMAIN txs |-> Announced(txs[i])])

NoSwap(txs) == \A i \in DOMAIN txs : txs[i].type # "Swap"

\* The authorisation of a change of the key.
Authorising(m) == m.message[1][1] \in {"ECDSA", "ECDSALegacyMessage"}

\* What the user signs determines what it is signed for.  Two messages with the same
\* lines go with transactions that begin at the same nonce, so that those at the same
\* place of two batches have the same; and they tell of the same deeds and the same costs
\* in the same tokens and order, which without swaps is all that is done.  Of a swap the
\* message tells the fee, not what is exchanged; and a transaction that does and costs
\* nothing is in no line, so that another batch may have the same deeds at later places.
\* An authorisation tells the key and four bytes of the nonce, not the fee.
SameMessageSameEffect ==
    \A m, n \in shown : m.message = n.message =>
        IF Authorising(m)
        THEN /\ NumberToBytes(m.txs[1].nonce) = NumberToBytes(n.txs[1].nonce)
             /\ Deed(m.txs[1]) = Deed(n.txs[1])
        ELSE /\ \A i \in DOMAIN m.txs \cap DOMAIN n.txs : m.txs[i].nonce = n.txs[i].nonce
             /\ Told(m.txs) = Told(n.txs)
             /\ NoSwap(m.txs) /\ NoSwap(n.txs) => Effect(m.txs) = Effect(n.txs)
=============================================================================
