---------------------------- MODULE Serialization ---------------------------
(***************************************************************************)
(* The bytes that the rollup key signs: serializeTx of src/utils.ts and    *)
(* the functions under it.  Every field of a transaction has a fixed width *)
(* and a fixed place, so that the bytes are modelled as the tuple of what  *)
(* the fields' bytes spell.  A number is cut to the width of its field, an *)
(* amount or a fee is packed as in Packing, an address, a key hash and a   *)
(* content hash are their bytes, and rescueHashOrders is taken to be free  *)
(* of collisions.                                                          *)
(***************************************************************************)
EXTENDS Integers

CONSTANTS
    Addresses,      \* of accounts, tokens' owners and Rootstock accounts
    PubKeyHashes,
    ContentHashes,
    Word,           \* the numbers that four bytes spell: 2^32
    Prices,         \* those that fifteen bytes spell: 2^120
    FullAmounts,    \* those that sixteen bytes spell: 2^128
    MaxAccounts, MaxTokens,     \* 2^24 and 2^31
    ExpBits, MantissaBits       \* of a packed amount; a fee's has fewer bits

ASSUME SerializationAssumption ==
    /\ Word \in Nat \ {0} /\ Prices \in Nat /\ FullAmounts \in Nat
    /\ MaxAccounts \in 0 .. Word /\ MaxTokens \in 0 .. Word
    /\ ExpBits \in Nat \ {0} /\ MantissaBits \in Nat \ {0}

Packed == INSTANCE Packing WITH ExpBase <- 10, Starts <- {}, Digits <- {}, integer <- 0

(***************************************************************************)
(* The transactions of the rollup and the orders in a swap, without their  *)
(* signatures.                                                             *)
(***************************************************************************)
Transfer == [type : {"Transfer"}, accountId : Nat, from : Addresses, to : Addresses,
             token : Nat, amount : Nat, fee : Nat, nonce : Nat,
             validFrom : Nat, validUntil : Nat]

Withdraw == [type : {"Withdraw"}, accountId : Nat, from : Addresses, to : Addresses,
             token : Nat, amount : Nat, fee : Nat, nonce : Nat,
             validFrom : Nat, validUntil : Nat]

ChangePubKey == [type : {"ChangePubKey"}, accountId : Nat, account : Addresses,
                 newPkHash : PubKeyHashes, feeToken : Nat, fee : Nat, nonce : Nat,
                 validFrom : Nat, validUntil : Nat]

ForcedExit == [type : {"ForcedExit"}, initiatorAccountId : Nat, target : Addresses,
               token : Nat, fee : Nat, nonce : Nat, validFrom : Nat, validUntil : Nat]

MintNFT == [type : {"MintNFT"}, creatorId : Nat, creatorAddress : Addresses,
            contentHash : ContentHashes, recipient : Addresses, feeToken : Nat,
            fee : Nat, nonce : Nat]

WithdrawNFT == [type : {"WithdrawNFT"}, accountId : Nat, from : Addresses, to : Addresses,
                token : Nat, feeToken : Nat, fee : Nat, nonce : Nat,
                validFrom : Nat, validUntil : Nat]

Order == [type : {"Order"}, accountId : Nat, recipient : Addresses, nonce : Nat,
          tokenSell : Nat, tokenBuy : Nat, sellPrice : Nat, buyPrice : Nat,
          amount : Nat, validFrom : Nat, validUntil : Nat]

Swap == [type : {"Swap"}, submitterId : Nat, submitterAddress : Addresses, nonce : Nat,
         orderA : Order, orderB : Order, feeToken : Nat, fee : Nat,
         amountA : Nat, amountB : Nat]

Transactions ==
    Transfer \cup Withdraw \cup ChangePubKey \cup ForcedExit \cup MintNFT \cup WithdrawNFT
        \cup Order \cup Swap

(***************************************************************************)
(* What the fields' functions demand, or throw.                            *)
(***************************************************************************)
IsAccountId(id) == id < MaxAccounts

IsTokenId(id) == id < MaxTokens

Packable(amount) == ~Packed!TooBig(amount) /\ Packed!IsPackable(amount)

OrderSerializable(order) ==
    /\ IsAccountId(order.accountId)
    /\ IsTokenId(order.tokenSell) /\ IsTokenId(order.tokenBuy)
    /\ order.sellPrice < Prices /\ order.buyPrice < Prices
    /\ Packable(order.amount)

Serializable(tx) ==
    /\ tx.type \in {"Transfer", "Withdraw", "ChangePubKey", "WithdrawNFT"} =>
            IsAccountId(tx.accountId)
    /\ tx.type = "ForcedExit" => IsAccountId(tx.initiatorAccountId)
    /\ tx.type = "MintNFT" => IsAccountId(tx.creatorId)
    /\ tx.type = "Swap" => IsAccountId(tx.submitterId)
    /\ tx.type \in {"Transfer", "Withdraw", "ForcedExit", "WithdrawNFT"} =>
            IsTokenId(tx.token)
    /\ tx.type \in {"ChangePubKey", "MintNFT", "WithdrawNFT", "Swap"} =>
            IsTokenId(tx.feeToken)
    /\ tx.type # "Order" => Packable(tx.fee)
    /\ tx.type = "Transfer" => Packable(tx.amount)
    /\ tx.type = "Withdraw" => tx.amount < FullAmounts
    /\ tx.type = "Swap" =>
            /\ Packable(tx.amountA) /\ Packable(tx.amountB)
            /\ OrderSerializable(tx.orderA) /\ OrderSerializable(tx.orderB)
    /\ tx.type = "Order" => OrderSerializable(tx)

(***************************************************************************)
(* The bytes.                                                              *)
(***************************************************************************)
CurrentTxVersion == 1

\* The first byte; 111 is the letter o.
TypeByte ==
    [Transfer |-> 255 - 5, Withdraw |-> 255 - 3, ChangePubKey |-> 255 - 7,
     ForcedExit |-> 255 - 8, MintNFT |-> 255 - 9, WithdrawNFT |-> 255 - 10,
     Swap |-> 255 - 11, Order |-> 111]

\* numberToBytesBE with four bytes: what does not fit is dropped.
NumberToBytes(number) == number % Word

SerializeOrder(order) ==
    <<TypeByte.Order, CurrentTxVersion, NumberToBytes(order.accountId), order.recipient,
      NumberToBytes(order.nonce), NumberToBytes(order.tokenSell),
      NumberToBytes(order.tokenBuy), order.sellPrice, order.buyPrice,
      Packed!Pack(order.amount),
      NumberToBytes(order.validFrom), NumberToBytes(order.validUntil)>>

SerializeSwap(swap) ==
    <<TypeByte.Swap, CurrentTxVersion, NumberToBytes(swap.submitterId), swap.submitterAddress,
      NumberToBytes(swap.nonce), <<SerializeOrder(swap.orderA), SerializeOrder(swap.orderB)>>,
      NumberToBytes(swap.feeToken), Packed!Pack(swap.fee),
      Packed!Pack(swap.amountA), Packed!Pack(swap.amountB)>>

SerializeWithdraw(withdraw) ==
    <<TypeByte.Withdraw, CurrentTxVersion, NumberToBytes(withdraw.accountId), withdraw.from,
      withdraw.to, NumberToBytes(withdraw.token), withdraw.amount,
      Packed!Pack(withdraw.fee), NumberToBytes(withdraw.nonce),
      NumberToBytes(withdraw.validFrom), NumberToBytes(withdraw.validUntil)>>

SerializeMintNFT(mintNFT) ==
    <<TypeByte.MintNFT, CurrentTxVersion, NumberToBytes(mintNFT.creatorId), mintNFT.creatorAddress,
      mintNFT.contentHash, mintNFT.recipient, NumberToBytes(mintNFT.feeToken),
      Packed!Pack(mintNFT.fee), NumberToBytes(mintNFT.nonce)>>

SerializeWithdrawNFT(withdrawNFT) ==
    <<TypeByte.WithdrawNFT, CurrentTxVersion, NumberToBytes(withdrawNFT.accountId), withdrawNFT.from,
      withdrawNFT.to, NumberToBytes(withdrawNFT.token), NumberToBytes(withdrawNFT.feeToken),
      Packed!Pack(withdrawNFT.fee), NumberToBytes(withdrawNFT.nonce),
      NumberToBytes(withdrawNFT.validFrom), NumberToBytes(withdrawNFT.validUntil)>>

\* Mutant: the fee is forgotten.
SerializeTransferWithoutFee(transfer) ==
    <<TypeByte.Transfer, CurrentTxVersion, NumberToBytes(transfer.accountId), transfer.from,
      transfer.to, NumberToBytes(transfer.token), Packed!Pack(transfer.amount),
      NumberToBytes(transfer.nonce),
      NumberToBytes(transfer.validFrom), NumberToBytes(transfer.validUntil)>>

SerializeTransfer(transfer) ==
    <<TypeByte.Transfer, CurrentTxVersion, NumberToBytes(transfer.accountId), transfer.from,
      transfer.to, NumberToBytes(transfer.token), Packed!Pack(transfer.amount),
      Packed!Pack(transfer.fee), NumberToBytes(transfer.nonce),
      NumberToBytes(transfer.validFrom), NumberToBytes(transfer.validUntil)>>

SerializeChangePubKey(changePubKey) ==
    <<TypeByte.ChangePubKey, CurrentTxVersion, NumberToBytes(changePubKey.accountId), changePubKey.account,
      changePubKey.newPkHash, NumberToBytes(changePubKey.feeToken),
      Packed!Pack(changePubKey.fee), NumberToBytes(changePubKey.nonce),
      NumberToBytes(changePubKey.validFrom), NumberToBytes(changePubKey.validUntil)>>

SerializeForcedExit(forcedExit) ==
    <<TypeByte.ForcedExit, CurrentTxVersion, NumberToBytes(forcedExit.initiatorAccountId),
      forcedExit.target, NumberToBytes(forcedExit.token), Packed!Pack(forcedExit.fee),
      NumberToBytes(forcedExit.nonce),
      NumberToBytes(forcedExit.validFrom), NumberToBytes(forcedExit.validUntil)>>

SerializeTx(tx) ==
    CASE tx.type = "Transfer" -> SerializeTransfer(tx)
      [] tx.type = "Withdraw" -> SerializeWithdraw(tx)
      [] tx.type = "ChangePubKey" -> SerializeChangePubKey(tx)
      [] tx.type = "ForcedExit" -> SerializeForcedExit(tx)
      [] tx.type = "MintNFT" -> SerializeMintNFT(tx)
      [] tx.type = "WithdrawNFT" -> SerializeWithdrawNFT(tx)
      [] tx.type = "Order" -> SerializeOrder(tx)
      [] tx.type = "Swap" -> SerializeSwap(tx)

\* What is left of a transaction, or of an order, when its nonce and its times are cut to
\* their fields.
CutFields(record) ==
    [f \in DOMAIN record |->
        IF f \in {"nonce", "validFrom", "validUntil"} THEN NumberToBytes(record[f])
        ELSE record[f]]

Cut(tx) ==
    IF tx.type = "Swap"
    THEN [CutFields(tx) EXCEPT !.orderA = CutFields(tx.orderA), !.orderB = CutFields(tx.orderB)]
    ELSE CutFields(tx)
=============================================================================
