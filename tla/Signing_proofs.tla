--------------------------- MODULE Signing_proofs ---------------------------
(***************************************************************************)
(* The bytes that the rollup key signs determine the transaction, whatever *)
(* the widths of the fields are; and the key signs the bytes of            *)
(* well-formed transactions only, for any requests and tokens.  Hence none *)
(* of its signatures is good for two that differ in more than is cut off.  *)
(* The lines that the user signs determine what they tell of, by reading   *)
(* them back.                                                              *)
(***************************************************************************)
EXTENDS Signing, SumLemmas, SequenceTheorems

-----------------------------------------------------------------------------
(***************************************************************************)
(* Serialization: from bytes back to fields.                               *)
(***************************************************************************)

\* An amount that passes packAmountChecked is what its bytes, read back, stand for:
\* two of them have different bytes.
LEMMA PackInjective ==
    ASSUME NEW a, NEW b, Packable(a), Packable(b), Packed!Pack(a) = Packed!Pack(b)
    PROVE  a = b
BY DEF Packable, Packed!IsPackable, Packed!ClosestPackable

\* A number that fits its field is kept.
LEMMA NumberKept ==
    ASSUME NEW n \in Nat, n < Word
    PROVE  NumberToBytes(n) = n
BY SerializationAssumption DEF NumberToBytes

\* In particular account and token ids that pass their checks.
LEMMA IdKept ==
    ASSUME NEW n \in Nat, IsAccountId(n) \/ IsTokenId(n)
    PROVE  NumberToBytes(n) = n
BY NumberKept, SerializationAssumption DEF IsAccountId, IsTokenId

\* serializeTransfer: equal bytes, equal fields but for what is cut off.
LEMMA TransferBytes ==
    ASSUME NEW s \in Transfer, NEW t \in Transfer,
           Serializable(s), Serializable(t),
           SerializeTransfer(s) = SerializeTransfer(t)
    PROVE  CutFields(s) = CutFields(t)
<1>1. /\ s.from = t.from
      /\ s.to = t.to
      /\ NumberToBytes(s.accountId) = NumberToBytes(t.accountId)
      /\ NumberToBytes(s.token) = NumberToBytes(t.token)
      /\ NumberToBytes(s.nonce) = NumberToBytes(t.nonce)
      /\ NumberToBytes(s.validFrom) = NumberToBytes(t.validFrom)
      /\ NumberToBytes(s.validUntil) = NumberToBytes(t.validUntil)
      /\ Packed!Pack(s.amount) = Packed!Pack(t.amount)
      /\ Packed!Pack(s.fee) = Packed!Pack(t.fee)
  BY DEF SerializeTransfer
<1>2. s.amount = t.amount /\ s.fee = t.fee
  <2>1. \A u \in {s, t} : Packable(u.amount) /\ Packable(u.fee)
    BY DEF Serializable, Transfer
  <2> QED
    BY <1>1, <2>1, PackInjective
<1>3. s.accountId = t.accountId /\ s.token = t.token
  <2>1. \A u \in {s, t} : 
            /\ u.accountId \in Nat /\ IsAccountId(u.accountId)
            /\ u.token \in Nat /\ IsTokenId(u.token)
    BY DEF Serializable, Transfer
  <2> QED
    BY <1>1, <2>1, IdKept
<1> QED
  BY <1>1, <1>2, <1>3 DEF CutFields, Transfer

\* serializeWithdraw: equal bytes, equal fields but for what is cut off.
LEMMA WithdrawBytes ==
    ASSUME NEW s \in Withdraw, NEW t \in Withdraw,
           Serializable(s), Serializable(t),
           SerializeWithdraw(s) = SerializeWithdraw(t)
    PROVE  CutFields(s) = CutFields(t)
<1>1. /\ s.from = t.from
      /\ s.to = t.to
      /\ s.amount = t.amount
      /\ NumberToBytes(s.accountId) = NumberToBytes(t.accountId)
      /\ NumberToBytes(s.token) = NumberToBytes(t.token)
      /\ NumberToBytes(s.nonce) = NumberToBytes(t.nonce)
      /\ NumberToBytes(s.validFrom) = NumberToBytes(t.validFrom)
      /\ NumberToBytes(s.validUntil) = NumberToBytes(t.validUntil)
      /\ Packed!Pack(s.fee) = Packed!Pack(t.fee)
  BY DEF SerializeWithdraw
<1>2. s.fee = t.fee
  <2>1. \A u \in {s, t} : Packable(u.fee)
    BY DEF Serializable, Withdraw
  <2> QED
    BY <1>1, <2>1, PackInjective
<1>3. s.accountId = t.accountId /\ s.token = t.token
  <2>1. \A u \in {s, t} : 
            /\ u.accountId \in Nat /\ IsAccountId(u.accountId)
            /\ u.token \in Nat /\ IsTokenId(u.token)
    BY DEF Serializable, Withdraw
  <2> QED
    BY <1>1, <2>1, IdKept
<1> QED
  BY <1>1, <1>2, <1>3 DEF CutFields, Withdraw

\* serializeChangePubKey: equal bytes, equal fields but for what is cut off.
LEMMA ChangePubKeyBytes ==
    ASSUME NEW s \in ChangePubKey, NEW t \in ChangePubKey,
           Serializable(s), Serializable(t),
           SerializeChangePubKey(s) = SerializeChangePubKey(t)
    PROVE  CutFields(s) = CutFields(t)
<1>1. /\ s.account = t.account
      /\ s.newPkHash = t.newPkHash
      /\ NumberToBytes(s.accountId) = NumberToBytes(t.accountId)
      /\ NumberToBytes(s.feeToken) = NumberToBytes(t.feeToken)
      /\ NumberToBytes(s.nonce) = NumberToBytes(t.nonce)
      /\ NumberToBytes(s.validFrom) = NumberToBytes(t.validFrom)
      /\ NumberToBytes(s.validUntil) = NumberToBytes(t.validUntil)
      /\ Packed!Pack(s.fee) = Packed!Pack(t.fee)
  BY DEF SerializeChangePubKey
<1>2. s.fee = t.fee
  <2>1. \A u \in {s, t} : Packable(u.fee)
    BY DEF Serializable, ChangePubKey
  <2> QED
    BY <1>1, <2>1, PackInjective
<1>3. s.accountId = t.accountId /\ s.feeToken = t.feeToken
  <2>1. \A u \in {s, t} : 
            /\ u.accountId \in Nat /\ IsAccountId(u.accountId)
            /\ u.feeToken \in Nat /\ IsTokenId(u.feeToken)
    BY DEF Serializable, ChangePubKey
  <2> QED
    BY <1>1, <2>1, IdKept
<1> QED
  BY <1>1, <1>2, <1>3 DEF CutFields, ChangePubKey

\* serializeForcedExit: equal bytes, equal fields but for what is cut off.
LEMMA ForcedExitBytes ==
    ASSUME NEW s \in ForcedExit, NEW t \in ForcedExit,
           Serializable(s), Serializable(t),
           SerializeForcedExit(s) = SerializeForcedExit(t)
    PROVE  CutFields(s) = CutFields(t)
<1>1. /\ s.target = t.target
      /\ NumberToBytes(s.initiatorAccountId) = NumberToBytes(t.initiatorAccountId)
      /\ NumberToBytes(s.token) = NumberToBytes(t.token)
      /\ NumberToBytes(s.nonce) = NumberToBytes(t.nonce)
      /\ NumberToBytes(s.validFrom) = NumberToBytes(t.validFrom)
      /\ NumberToBytes(s.validUntil) = NumberToBytes(t.validUntil)
      /\ Packed!Pack(s.fee) = Packed!Pack(t.fee)
  BY DEF SerializeForcedExit
<1>2. s.fee = t.fee
  <2>1. \A u \in {s, t} : Packable(u.fee)
    BY DEF Serializable, ForcedExit
  <2> QED
    BY <1>1, <2>1, PackInjective
<1>3. s.initiatorAccountId = t.initiatorAccountId /\ s.token = t.token
  <2>1. \A u \in {s, t} : 
            /\ u.initiatorAccountId \in Nat /\ IsAccountId(u.initiatorAccountId)
            /\ u.token \in Nat /\ IsTokenId(u.token)
    BY DEF Serializable, ForcedExit
  <2> QED
    BY <1>1, <2>1, IdKept
<1> QED
  BY <1>1, <1>2, <1>3 DEF CutFields, ForcedExit

\* serializeMintNFT: equal bytes, equal fields but for what is cut off.
LEMMA MintNFTBytes ==
    ASSUME NEW s \in MintNFT, NEW t \in MintNFT,
           Serializable(s), Serializable(t),
           SerializeMintNFT(s) = SerializeMintNFT(t)
    PROVE  CutFields(s) = CutFields(t)
<1>1. /\ s.creatorAddress = t.creatorAddress
      /\ s.contentHash = t.contentHash
      /\ s.recipient = t.recipient
      /\ NumberToBytes(s.creatorId) = NumberToBytes(t.creatorId)
      /\ NumberToBytes(s.feeToken) = NumberToBytes(t.feeToken)
      /\ NumberToBytes(s.nonce) = NumberToBytes(t.nonce)
      /\ Packed!Pack(s.fee) = Packed!Pack(t.fee)
  BY DEF SerializeMintNFT
<1>2. s.fee = t.fee
  <2>1. \A u \in {s, t} : Packable(u.fee)
    BY DEF Serializable, MintNFT
  <2> QED
    BY <1>1, <2>1, PackInjective
<1>3. s.creatorId = t.creatorId /\ s.feeToken = t.feeToken
  <2>1. \A u \in {s, t} : 
            /\ u.creatorId \in Nat /\ IsAccountId(u.creatorId)
            /\ u.feeToken \in Nat /\ IsTokenId(u.feeToken)
    BY DEF Serializable, MintNFT
  <2> QED
    BY <1>1, <2>1, IdKept
<1> QED
  BY <1>1, <1>2, <1>3 DEF CutFields, MintNFT

\* serializeWithdrawNFT: equal bytes, equal fields but for what is cut off.
LEMMA WithdrawNFTBytes ==
    ASSUME NEW s \in WithdrawNFT, NEW t \in WithdrawNFT,
           Serializable(s), Serializable(t),
           SerializeWithdrawNFT(s) = SerializeWithdrawNFT(t)
    PROVE  CutFields(s) = CutFields(t)
<1>1. /\ s.from = t.from
      /\ s.to = t.to
      /\ NumberToBytes(s.accountId) = NumberToBytes(t.accountId)
      /\ NumberToBytes(s.token) = NumberToBytes(t.token)
      /\ NumberToBytes(s.feeToken) = NumberToBytes(t.feeToken)
      /\ NumberToBytes(s.nonce) = NumberToBytes(t.nonce)
      /\ NumberToBytes(s.validFrom) = NumberToBytes(t.validFrom)
      /\ NumberToBytes(s.validUntil) = NumberToBytes(t.validUntil)
      /\ Packed!Pack(s.fee) = Packed!Pack(t.fee)
  BY DEF SerializeWithdrawNFT
<1>2. s.fee = t.fee
  <2>1. \A u \in {s, t} : Packable(u.fee)
    BY DEF Serializable, WithdrawNFT
  <2> QED
    BY <1>1, <2>1, PackInjective
<1>3. s.accountId = t.accountId /\ s.token = t.token /\ s.feeToken = t.feeToken
  <2>1. \A u \in {s, t} : 
            /\ u.accountId \in Nat /\ IsAccountId(u.accountId)
            /\ u.token \in Nat /\ IsTokenId(u.token)
            /\ u.feeToken \in Nat /\ IsTokenId(u.feeToken)
    BY DEF Serializable, WithdrawNFT
  <2> QED
    BY <1>1, <2>1, IdKept
<1> QED
  BY <1>1, <1>2, <1>3 DEF CutFields, WithdrawNFT

\* serializeOrder: equal bytes, equal fields but for what is cut off.
LEMMA OrderBytes ==
    ASSUME NEW s \in Order, NEW t \in Order,
           OrderSerializable(s), OrderSerializable(t),
           SerializeOrder(s) = SerializeOrder(t)
    PROVE  CutFields(s) = CutFields(t)
<1>1. /\ s.recipient = t.recipient
      /\ s.sellPrice = t.sellPrice
      /\ s.buyPrice = t.buyPrice
      /\ NumberToBytes(s.accountId) = NumberToBytes(t.accountId)
      /\ NumberToBytes(s.tokenSell) = NumberToBytes(t.tokenSell)
      /\ NumberToBytes(s.tokenBuy) = NumberToBytes(t.tokenBuy)
      /\ NumberToBytes(s.nonce) = NumberToBytes(t.nonce)
      /\ NumberToBytes(s.validFrom) = NumberToBytes(t.validFrom)
      /\ NumberToBytes(s.validUntil) = NumberToBytes(t.validUntil)
      /\ Packed!Pack(s.amount) = Packed!Pack(t.amount)
  BY DEF SerializeOrder
<1>2. s.amount = t.amount
  <2>1. \A u \in {s, t} : Packable(u.amount)
    BY DEF OrderSerializable, Order
  <2> QED
    BY <1>1, <2>1, PackInjective
<1>3. s.accountId = t.accountId /\ s.tokenSell = t.tokenSell /\ s.tokenBuy = t.tokenBuy
  <2>1. \A u \in {s, t} : 
            /\ u.accountId \in Nat /\ IsAccountId(u.accountId)
            /\ u.tokenSell \in Nat /\ IsTokenId(u.tokenSell)
            /\ u.tokenBuy \in Nat /\ IsTokenId(u.tokenBuy)
    BY DEF OrderSerializable, Order
  <2> QED
    BY <1>1, <2>1, IdKept
<1> QED
  BY <1>1, <1>2, <1>3 DEF CutFields, Order

\* serializeSwap: equal bytes, equal fields but for what is cut off.
LEMMA SwapBytes ==
    ASSUME NEW s \in Swap, NEW t \in Swap,
           Serializable(s), Serializable(t),
           SerializeSwap(s) = SerializeSwap(t)
    PROVE  Cut(s) = Cut(t)
<1>1. /\ s.submitterAddress = t.submitterAddress
      /\ NumberToBytes(s.submitterId) = NumberToBytes(t.submitterId)
      /\ NumberToBytes(s.feeToken) = NumberToBytes(t.feeToken)
      /\ NumberToBytes(s.nonce) = NumberToBytes(t.nonce)
      /\ Packed!Pack(s.fee) = Packed!Pack(t.fee)
      /\ Packed!Pack(s.amountA) = Packed!Pack(t.amountA)
      /\ Packed!Pack(s.amountB) = Packed!Pack(t.amountB)
      /\ SerializeOrder(s.orderA) = SerializeOrder(t.orderA)
      /\ SerializeOrder(s.orderB) = SerializeOrder(t.orderB)
  BY DEF SerializeSwap
<1>2. s.fee = t.fee /\ s.amountA = t.amountA /\ s.amountB = t.amountB
  <2>1. \A u \in {s, t} : Packable(u.fee) /\ Packable(u.amountA) /\ Packable(u.amountB)
    BY DEF Serializable, Swap
  <2> QED
    BY <1>1, <2>1, PackInjective
<1>3. s.submitterId = t.submitterId /\ s.feeToken = t.feeToken
  <2>1. \A u \in {s, t} : 
            /\ u.submitterId \in Nat /\ IsAccountId(u.submitterId)
            /\ u.feeToken \in Nat /\ IsTokenId(u.feeToken)
    BY DEF Serializable, Swap
  <2> QED
    BY <1>1, <2>1, IdKept
<1>4. CutFields(s.orderA) = CutFields(t.orderA) /\ CutFields(s.orderB) = CutFields(t.orderB)
  <2>1. \A u \in {s, t} :
            /\ u.orderA \in Order /\ OrderSerializable(u.orderA)
            /\ u.orderB \in Order /\ OrderSerializable(u.orderB)
    BY DEF Serializable, Swap
  <2> QED
    BY <1>1, <2>1, OrderBytes
<1>5. ASSUME NEW u \in {s, t}
      PROVE  Cut(u) = [type |-> "Swap", submitterId |-> u.submitterId,
                       submitterAddress |-> u.submitterAddress, nonce |-> NumberToBytes(u.nonce),
                       orderA |-> CutFields(u.orderA), orderB |-> CutFields(u.orderB),
                       feeToken |-> u.feeToken, fee |-> u.fee,
                       amountA |-> u.amountA, amountB |-> u.amountB]
  <2>1. CutFields(u) = [type |-> "Swap", submitterId |-> u.submitterId,
                        submitterAddress |-> u.submitterAddress, nonce |-> NumberToBytes(u.nonce),
                        orderA |-> u.orderA, orderB |-> u.orderB,
                        feeToken |-> u.feeToken, fee |-> u.fee,
                        amountA |-> u.amountA, amountB |-> u.amountB]
    BY DEF CutFields, Swap
  <2>2. u.type = "Swap"
    BY DEF Swap
  <2>3. Cut(u) = [CutFields(u) EXCEPT !.orderA = CutFields(u.orderA),
                                      !.orderB = CutFields(u.orderB)]
    BY <2>2 DEF Cut
  <2> DEFINE A == CutFields(u.orderA)
             B == CutFields(u.orderB)
             cut == CutFields(u)
  <2>4. Cut(u) = [cut EXCEPT !.orderA = A, !.orderB = B]
    BY <2>3
  <2> HIDE DEF A, B, cut
  <2>5. cut = [type |-> "Swap", submitterId |-> u.submitterId,
               submitterAddress |-> u.submitterAddress, nonce |-> NumberToBytes(u.nonce),
               orderA |-> u.orderA, orderB |-> u.orderB,
               feeToken |-> u.feeToken, fee |-> u.fee,
               amountA |-> u.amountA, amountB |-> u.amountB]
    BY <2>1 DEF cut
  <2>6. Cut(u) = [type |-> "Swap", submitterId |-> u.submitterId,
                  submitterAddress |-> u.submitterAddress, nonce |-> NumberToBytes(u.nonce),
                  orderA |-> A, orderB |-> B,
                  feeToken |-> u.feeToken, fee |-> u.fee,
                  amountA |-> u.amountA, amountB |-> u.amountB]
    BY <2>4, <2>5
  <2> QED
    BY <2>6 DEF A, B
<1> QED
  BY <1>1, <1>2, <1>3, <1>4, <1>5

\* serializeTx goes by the type, and the first byte tells the type.
LEMMA ByType ==
    ASSUME NEW tx \in Transactions
    PROVE  /\ tx \in Transfer => SerializeTx(tx) = SerializeTransfer(tx)
           /\ tx \in Withdraw => SerializeTx(tx) = SerializeWithdraw(tx)
           /\ tx \in ChangePubKey => SerializeTx(tx) = SerializeChangePubKey(tx)
           /\ tx \in ForcedExit => SerializeTx(tx) = SerializeForcedExit(tx)
           /\ tx \in MintNFT => SerializeTx(tx) = SerializeMintNFT(tx)
           /\ tx \in WithdrawNFT => SerializeTx(tx) = SerializeWithdrawNFT(tx)
           /\ tx \in Order => SerializeTx(tx) = SerializeOrder(tx)
           /\ tx \in Swap => SerializeTx(tx) = SerializeSwap(tx)
<1>1. ASSUME tx \in Transfer PROVE SerializeTx(tx) = SerializeTransfer(tx)
  <2>1. tx.type = "Transfer"
    BY <1>1 DEF Transfer
  <2> QED
    BY <2>1, Zenon DEF SerializeTx
<1>2. ASSUME tx \in Withdraw PROVE SerializeTx(tx) = SerializeWithdraw(tx)
  <2>1. tx.type = "Withdraw"
    BY <1>2 DEF Withdraw
  <2> QED
    BY <2>1, Zenon DEF SerializeTx
<1>3. ASSUME tx \in ChangePubKey PROVE SerializeTx(tx) = SerializeChangePubKey(tx)
  <2>1. tx.type = "ChangePubKey"
    BY <1>3 DEF ChangePubKey
  <2> QED
    BY <2>1, Zenon DEF SerializeTx
<1>4. ASSUME tx \in ForcedExit PROVE SerializeTx(tx) = SerializeForcedExit(tx)
  <2>1. tx.type = "ForcedExit"
    BY <1>4 DEF ForcedExit
  <2> QED
    BY <2>1, Zenon DEF SerializeTx
<1>5. ASSUME tx \in MintNFT PROVE SerializeTx(tx) = SerializeMintNFT(tx)
  <2>1. tx.type = "MintNFT"
    BY <1>5 DEF MintNFT
  <2> QED
    BY <2>1, Zenon DEF SerializeTx
<1>6. ASSUME tx \in WithdrawNFT PROVE SerializeTx(tx) = SerializeWithdrawNFT(tx)
  <2>1. tx.type = "WithdrawNFT"
    BY <1>6 DEF WithdrawNFT
  <2> QED
    BY <2>1, Zenon DEF SerializeTx
<1>7. ASSUME tx \in Order PROVE SerializeTx(tx) = SerializeOrder(tx)
  <2>1. tx.type = "Order"
    BY <1>7 DEF Order
  <2> QED
    BY <2>1, Zenon DEF SerializeTx
<1>8. ASSUME tx \in Swap PROVE SerializeTx(tx) = SerializeSwap(tx)
  <2>1. tx.type = "Swap"
    BY <1>8 DEF Swap
  <2> QED
    BY <2>1, Zenon DEF SerializeTx
<1> QED
  BY <1>1, <1>2, <1>3, <1>4, <1>5, <1>6, <1>7, <1>8

\* The first byte tells the types of transactions apart.
LEMMA FirstByte ==
    ASSUME NEW tx \in Transactions
    PROVE  SerializeTx(tx)[1] = TypeByte[tx.type]
<1>1. CASE tx \in Transfer
  <2>1. tx.type = "Transfer" /\ SerializeTx(tx) = SerializeTransfer(tx)
    BY <1>1, ByType DEF Transfer
  <2> QED
    BY <2>1 DEF SerializeTransfer, TypeByte
<1>2. CASE tx \in Withdraw
  <2>1. tx.type = "Withdraw" /\ SerializeTx(tx) = SerializeWithdraw(tx)
    BY <1>2, ByType DEF Withdraw
  <2> QED
    BY <2>1 DEF SerializeWithdraw, TypeByte
<1>3. CASE tx \in ChangePubKey
  <2>1. tx.type = "ChangePubKey" /\ SerializeTx(tx) = SerializeChangePubKey(tx)
    BY <1>3, ByType DEF ChangePubKey
  <2> QED
    BY <2>1 DEF SerializeChangePubKey, TypeByte
<1>4. CASE tx \in ForcedExit
  <2>1. tx.type = "ForcedExit" /\ SerializeTx(tx) = SerializeForcedExit(tx)
    BY <1>4, ByType DEF ForcedExit
  <2> QED
    BY <2>1 DEF SerializeForcedExit, TypeByte
<1>5. CASE tx \in MintNFT
  <2>1. tx.type = "MintNFT" /\ SerializeTx(tx) = SerializeMintNFT(tx)
    BY <1>5, ByType DEF MintNFT
  <2> QED
    BY <2>1 DEF SerializeMintNFT, TypeByte
<1>6. CASE tx \in WithdrawNFT
  <2>1. tx.type = "WithdrawNFT" /\ SerializeTx(tx) = SerializeWithdrawNFT(tx)
    BY <1>6, ByType DEF WithdrawNFT
  <2> QED
    BY <2>1 DEF SerializeWithdrawNFT, TypeByte
<1>7. CASE tx \in Order
  <2>1. tx.type = "Order" /\ SerializeTx(tx) = SerializeOrder(tx)
    BY <1>7, ByType DEF Order
  <2> QED
    BY <2>1 DEF SerializeOrder, TypeByte
<1>8. CASE tx \in Swap
  <2>1. tx.type = "Swap" /\ SerializeTx(tx) = SerializeSwap(tx)
    BY <1>8, ByType DEF Swap
  <2> QED
    BY <2>1 DEF SerializeSwap, TypeByte
<1> QED
  BY <1>1, <1>2, <1>3, <1>4, <1>5, <1>6, <1>7, <1>8 DEF Transactions

\* Two transactions that the rollup key signs with the same bytes are the same, but for
\* what four bytes cut off their nonces and their times: their signatures can be attached
\* to no other transaction.
THEOREM BytesDetermineTransaction ==
    ASSUME NEW s \in Transactions, NEW t \in Transactions,
           Serializable(s), Serializable(t),
           SerializeTx(s) = SerializeTx(t)
    PROVE  Cut(s) = Cut(t)
<1>1. s.type = t.type
  <2>1. TypeByte[s.type] = TypeByte[t.type]
    BY FirstByte
  <2>2. \A u \in {s, t} : u.type \in {"Transfer", "Withdraw", "ChangePubKey", "ForcedExit",
                                      "MintNFT", "WithdrawNFT", "Order", "Swap"}
    BY DEF Transactions, Transfer, Withdraw, ChangePubKey, ForcedExit, MintNFT, WithdrawNFT, Order, Swap
  <2> QED
    BY <2>1, <2>2 DEF TypeByte
<1>2. CASE s \in Transfer
  <2>1. t \in Transfer
    BY <1>1, <1>2 DEF Transactions, Transfer, Withdraw, ChangePubKey, ForcedExit, MintNFT, WithdrawNFT, Order, Swap
  <2>2. SerializeTransfer(s) = SerializeTransfer(t)
    BY <1>2, <2>1, ByType
  <2> QED
    BY <1>2, <2>1, <2>2, TransferBytes DEF Cut, Transfer
<1>3. CASE s \in Withdraw
  <2>1. t \in Withdraw
    BY <1>1, <1>3 DEF Transactions, Transfer, Withdraw, ChangePubKey, ForcedExit, MintNFT, WithdrawNFT, Order, Swap
  <2>2. SerializeWithdraw(s) = SerializeWithdraw(t)
    BY <1>3, <2>1, ByType
  <2> QED
    BY <1>3, <2>1, <2>2, WithdrawBytes DEF Cut, Withdraw
<1>4. CASE s \in ChangePubKey
  <2>1. t \in ChangePubKey
    BY <1>1, <1>4 DEF Transactions, Transfer, Withdraw, ChangePubKey, ForcedExit, MintNFT, WithdrawNFT, Order, Swap
  <2>2. SerializeChangePubKey(s) = SerializeChangePubKey(t)
    BY <1>4, <2>1, ByType
  <2> QED
    BY <1>4, <2>1, <2>2, ChangePubKeyBytes DEF Cut, ChangePubKey
<1>5. CASE s \in ForcedExit
  <2>1. t \in ForcedExit
    BY <1>1, <1>5 DEF Transactions, Transfer, Withdraw, ChangePubKey, ForcedExit, MintNFT, WithdrawNFT, Order, Swap
  <2>2. SerializeForcedExit(s) = SerializeForcedExit(t)
    BY <1>5, <2>1, ByType
  <2> QED
    BY <1>5, <2>1, <2>2, ForcedExitBytes DEF Cut, ForcedExit
<1>6. CASE s \in MintNFT
  <2>1. t \in MintNFT
    BY <1>1, <1>6 DEF Transactions, Transfer, Withdraw, ChangePubKey, ForcedExit, MintNFT, WithdrawNFT, Order, Swap
  <2>2. SerializeMintNFT(s) = SerializeMintNFT(t)
    BY <1>6, <2>1, ByType
  <2> QED
    BY <1>6, <2>1, <2>2, MintNFTBytes DEF Cut, MintNFT
<1>7. CASE s \in WithdrawNFT
  <2>1. t \in WithdrawNFT
    BY <1>1, <1>7 DEF Transactions, Transfer, Withdraw, ChangePubKey, ForcedExit, MintNFT, WithdrawNFT, Order, Swap
  <2>2. SerializeWithdrawNFT(s) = SerializeWithdrawNFT(t)
    BY <1>7, <2>1, ByType
  <2> QED
    BY <1>7, <2>1, <2>2, WithdrawNFTBytes DEF Cut, WithdrawNFT
<1>8. CASE s \in Order
  <2>1. t \in Order
    BY <1>1, <1>8 DEF Transactions, Transfer, Withdraw, ChangePubKey, ForcedExit, MintNFT, WithdrawNFT, Order, Swap
  <2>2. SerializeOrder(s) = SerializeOrder(t)
    BY <1>8, <2>1, ByType
  <2>3. OrderSerializable(s) /\ OrderSerializable(t)
    BY <1>8, <2>1 DEF Serializable, Order
  <2> QED
    BY <1>8, <2>1, <2>2, <2>3, OrderBytes DEF Cut, Order
<1>9. CASE s \in Swap
  <2>1. t \in Swap
    BY <1>1, <1>9 DEF Transactions, Transfer, Withdraw, ChangePubKey, ForcedExit, MintNFT, WithdrawNFT, Order, Swap
  <2>2. SerializeSwap(s) = SerializeSwap(t)
    BY <1>9, <2>1, ByType
  <2> QED
    BY <1>9, <2>1, <2>2, SwapBytes
<1> QED
  BY <1>2, <1>3, <1>4, <1>5, <1>6, <1>7, <1>8, <1>9 DEF Transactions
-----------------------------------------------------------------------------
(***************************************************************************)
(* Signing: what the wallet makes of requests.                             *)
(***************************************************************************)

\* The defaults of the validity are timestamps.
LEMMA TimesTyped ==
    ASSUME NEW r, r.validFrom \in Nat \cup {None}, r.validUntil \in Nat \cup {None}
    PROVE  ValidFrom(r) \in Nat /\ ValidUntil(r) \in Nat
BY SerializationAssumption DEF ValidFrom, ValidUntil, None, MaxTimestamp

WellMade(s) == s.tx \in Transactions /\ s.bytes = SerializeTx(s.tx)

\* getTransfer completes a request and has its bytes signed.
LEMMA TransferMade ==
    ASSUME NEW r \in TransferRequest
    PROVE  WellMade(GetTransfer(r))
<1>1. ValidFrom(r) \in Nat /\ ValidUntil(r) \in Nat
  BY TimesTyped DEF TransferRequest
<1>2. GetTransfer(r).tx \in Transfer
  BY <1>1, SigningAssumption DEF GetTransfer, SignSyncTransfer, TransferRequest, Transfer
<1>3. GetTransfer(r).bytes = SerializeTransfer(GetTransfer(r).tx)
  BY DEF GetTransfer, SignSyncTransfer
<1> QED
  BY <1>2, <1>3, ByType DEF WellMade, Transactions

\* getWithdrawFromSyncToEthereum completes a request and has its bytes signed.
LEMMA WithdrawMade ==
    ASSUME NEW r \in WithdrawRequest
    PROVE  WellMade(GetWithdrawFromSyncToEthereum(r))
<1>1. ValidFrom(r) \in Nat /\ ValidUntil(r) \in Nat
  BY TimesTyped DEF WithdrawRequest
<1>2. GetWithdrawFromSyncToEthereum(r).tx \in Withdraw
  BY <1>1, SigningAssumption DEF GetWithdrawFromSyncToEthereum, SignSyncWithdraw, WithdrawRequest, Withdraw
<1>3. GetWithdrawFromSyncToEthereum(r).bytes = SerializeWithdraw(GetWithdrawFromSyncToEthereum(r).tx)
  BY DEF GetWithdrawFromSyncToEthereum, SignSyncWithdraw
<1> QED
  BY <1>2, <1>3, ByType DEF WellMade, Transactions

\* getChangePubKey completes a request and has its bytes signed.
LEMMA ChangePubKeyMade ==
    ASSUME NEW r \in ChangePubKeyRequest
    PROVE  WellMade(GetChangePubKey(r))
<1>1. ValidFrom(r) \in Nat /\ ValidUntil(r) \in Nat
  BY TimesTyped DEF ChangePubKeyRequest
<1>2. GetChangePubKey(r).tx \in ChangePubKey
  BY <1>1, SigningAssumption DEF GetChangePubKey, SignSyncChangePubKey, ChangePubKeyRequest, ChangePubKey
<1>3. GetChangePubKey(r).bytes = SerializeChangePubKey(GetChangePubKey(r).tx)
  BY DEF GetChangePubKey, SignSyncChangePubKey
<1> QED
  BY <1>2, <1>3, ByType DEF WellMade, Transactions

\* getForcedExit completes a request and has its bytes signed.
LEMMA ForcedExitMade ==
    ASSUME NEW r \in ForcedExitRequest
    PROVE  WellMade(GetForcedExit(r))
<1>1. ValidFrom(r) \in Nat /\ ValidUntil(r) \in Nat
  BY TimesTyped DEF ForcedExitRequest
<1>2. GetForcedExit(r).tx \in ForcedExit
  BY <1>1, SigningAssumption DEF GetForcedExit, SignSyncForcedExit, ForcedExitRequest, ForcedExit
<1>3. GetForcedExit(r).bytes = SerializeForcedExit(GetForcedExit(r).tx)
  BY DEF GetForcedExit, SignSyncForcedExit
<1> QED
  BY <1>2, <1>3, ByType DEF WellMade, Transactions

\* getMintNFT completes a request and has its bytes signed.
LEMMA MintNFTMade ==
    ASSUME NEW r \in MintNFTRequest
    PROVE  WellMade(GetMintNFT(r))
<1>1. GetMintNFT(r).tx \in MintNFT
  BY SigningAssumption DEF GetMintNFT, SignMintNFT, MintNFTRequest, MintNFT
<1>2. GetMintNFT(r).bytes = SerializeMintNFT(GetMintNFT(r).tx)
  BY DEF GetMintNFT, SignMintNFT
<1> QED
  BY <1>1, <1>2, ByType DEF WellMade, Transactions

\* getWithdrawNFT completes a request and has its bytes signed.
LEMMA WithdrawNFTMade ==
    ASSUME NEW r \in WithdrawNFTRequest
    PROVE  WellMade(GetWithdrawNFT(r))
<1>1. ValidFrom(r) \in Nat /\ ValidUntil(r) \in Nat
  BY TimesTyped DEF WithdrawNFTRequest
<1>2. GetWithdrawNFT(r).tx \in WithdrawNFT
  BY <1>1, SigningAssumption DEF GetWithdrawNFT, SignWithdrawNFT, WithdrawNFTRequest, WithdrawNFT
<1>3. GetWithdrawNFT(r).bytes = SerializeWithdrawNFT(GetWithdrawNFT(r).tx)
  BY DEF GetWithdrawNFT, SignWithdrawNFT
<1> QED
  BY <1>2, <1>3, ByType DEF WellMade, Transactions

\* getPartialOrder completes a request and has its bytes signed.
LEMMA OrderMade ==
    ASSUME NEW r \in OrderRequest
    PROVE  WellMade(GetPartialOrder(r))
<1>1. ValidFrom(r) \in Nat /\ ValidUntil(r) \in Nat
  BY TimesTyped DEF OrderRequest
<1>2. Price(r, r.tokenSell, r.sellPrice) \in Nat /\ Price(r, r.tokenBuy, r.buyPrice) \in Nat
  BY SigningAssumption DEF Price, OrderRequest
<1>3. GetPartialOrder(r).tx \in Order
  BY <1>1, <1>2, SigningAssumption DEF GetPartialOrder, SignSyncOrder, OrderRequest, Order
<1>4. GetPartialOrder(r).bytes = SerializeOrder(GetPartialOrder(r).tx)
  BY DEF GetPartialOrder, SignSyncOrder
<1> QED
  BY <1>3, <1>4, ByType DEF WellMade, Transactions

\* getSwap completes a request and has its bytes signed.
LEMMA SwapMade ==
    ASSUME NEW r \in SwapRequest
    PROVE  WellMade(GetSwap(r))
<1>1. SwapAmount(r.amountA, r.orderA) \in Nat /\ SwapAmount(r.amountB, r.orderB) \in Nat
  BY DEF SwapAmount, SwapRequest, Order, None
<1>2. GetSwap(r).tx \in Swap
  BY <1>1, SigningAssumption DEF GetSwap, SignSyncSwap, SwapRequest, Swap
<1>3. GetSwap(r).bytes = SerializeSwap(GetSwap(r).tx)
  BY DEF GetSwap, SignSyncSwap
<1> QED
  BY <1>2, <1>3, ByType DEF WellMade, Transactions

\* The request of a type is what the program may ask for with that type.
LEMMA RequestTyped ==
    ASSUME NEW r \in Requests
    PROVE  /\ r.type = "Transfer" => r \in TransferRequest
           /\ r.type = "Withdraw" => r \in WithdrawRequest
           /\ r.type = "ChangePubKey" => r \in ChangePubKeyRequest
           /\ r.type = "ForcedExit" => r \in ForcedExitRequest
           /\ r.type = "MintNFT" => r \in MintNFTRequest
           /\ r.type = "WithdrawNFT" => r \in WithdrawNFTRequest
           /\ r.type = "Order" => r \in OrderRequest
           /\ r.type = "Swap" => r \in SwapRequest
BY SigningAssumption 
DEF TransferRequest, WithdrawRequest, ChangePubKeyRequest, ForcedExitRequest,
    MintNFTRequest, WithdrawNFTRequest, OrderRequest, SwapRequest

\* Renumbering leaves it one.
LEMMA Renumbered ==
    ASSUME NEW r \in Requests, r.type # "Order", NEW n \in Nat
    PROVE  WellMade(Complete([r EXCEPT !.nonce = n]))
<1> DEFINE q == [r EXCEPT !.nonce = n]
<1>0. r.type \in {"Transfer", "Withdraw", "ChangePubKey", "ForcedExit", "MintNFT",
                  "WithdrawNFT", "Swap"}
  BY SigningAssumption 
  DEF TransferRequest, WithdrawRequest, ChangePubKeyRequest, ForcedExitRequest,
      MintNFTRequest, WithdrawNFTRequest, OrderRequest, SwapRequest
<1>1. CASE r.type = "Transfer"
  <2>1. q \in TransferRequest /\ q.type = "Transfer"
    BY <1>1, RequestTyped DEF TransferRequest
  <2>2. Complete(q) = GetTransfer(q)
    BY <2>1, Zenon DEF Complete
  <2> QED
    BY <2>1, <2>2, TransferMade
<1>2. CASE r.type = "Withdraw"
  <2>1. q \in WithdrawRequest /\ q.type = "Withdraw"
    BY <1>2, RequestTyped DEF WithdrawRequest
  <2>2. Complete(q) = GetWithdrawFromSyncToEthereum(q)
    BY <2>1, Zenon DEF Complete
  <2> QED
    BY <2>1, <2>2, WithdrawMade
<1>3. CASE r.type = "ChangePubKey"
  <2>1. q \in ChangePubKeyRequest /\ q.type = "ChangePubKey"
    BY <1>3, RequestTyped DEF ChangePubKeyRequest
  <2>2. Complete(q) = GetChangePubKey(q)
    BY <2>1, Zenon DEF Complete
  <2> QED
    BY <2>1, <2>2, ChangePubKeyMade
<1>4. CASE r.type = "ForcedExit"
  <2>1. q \in ForcedExitRequest /\ q.type = "ForcedExit"
    BY <1>4, RequestTyped DEF ForcedExitRequest
  <2>2. Complete(q) = GetForcedExit(q)
    BY <2>1, Zenon DEF Complete
  <2> QED
    BY <2>1, <2>2, ForcedExitMade
<1>5. CASE r.type = "MintNFT"
  <2>1. q \in MintNFTRequest /\ q.type = "MintNFT"
    BY <1>5, RequestTyped DEF MintNFTRequest
  <2>2. Complete(q) = GetMintNFT(q)
    BY <2>1, Zenon DEF Complete
  <2> QED
    BY <2>1, <2>2, MintNFTMade
<1>6. CASE r.type = "WithdrawNFT"
  <2>1. q \in WithdrawNFTRequest /\ q.type = "WithdrawNFT"
    BY <1>6, RequestTyped DEF WithdrawNFTRequest
  <2>2. Complete(q) = GetWithdrawNFT(q)
    BY <2>1, Zenon DEF Complete
  <2> QED
    BY <2>1, <2>2, WithdrawNFTMade
<1>7. CASE r.type = "Swap"
  <2>1. q \in SwapRequest /\ q.type = "Swap"
    BY <1>7, RequestTyped DEF SwapRequest
  <2>2. Complete(q) = GetSwap(q)
    BY <2>1, Zenon DEF Complete
  <2> QED
    BY <2>1, <2>2, SwapMade
<1> QED
  BY <1>0, <1>1, <1>2, <1>3, <1>4, <1>5, <1>6, <1>7

\* Inductive: whatever has been signed is well made and passed the checks of its fields,
\* and no message goes with nothing.
SignedInv == \A s \in signed : WellMade(s) /\ Serializable(s.tx)

\* Whatever both sign, if it is well made and passed its checks, the invariant is kept.
LEMMA BothSignPreserves ==
    ASSUME TypeOK, SignedInv, signings < MaxSignings,
           NEW made, NEW messages, BothSign(made, messages),
           \A s \in made : WellMade(s) /\ Serializable(s.tx),
           \A m \in messages :
                m.txs # <<>> /\ \A i \in DOMAIN m.txs : m.txs[i] \in Transactions
    PROVE  TypeOK' /\ SignedInv'
<1>1. SignedInv'
  BY DEF SignedInv, BothSign
<1>2. signings' \in 0 .. MaxSignings /\ ethSigner' \in {"ordinary", "Create2", "No2FA"}
  BY SigningAssumption DEF TypeOK, BothSign
<1>3. \A m \in shown' : m.txs # <<>> /\ \A i \in DOMAIN m.txs : m.txs[i] \in Transactions
  BY DEF TypeOK, BothSign
<1>4. \A t \in signed' : t.tx \in Transactions
  BY DEF TypeOK, BothSign, WellMade
<1> QED
  BY <1>1, <1>2, <1>3, <1>4 DEF TypeOK

\* A message for one transaction goes with that.
LEMMA OneShown ==
    ASSUME NEW tx \in Transactions, NEW message, NEW m \in Shown(<<tx>>, message)
    PROVE  m.txs # <<>> /\ \A i \in DOMAIN m.txs : m.txs[i] \in Transactions
<1>1. m.txs = <<tx>>
  BY DEF Shown
<1>2. <<tx>> # <<>> /\ \A i \in DOMAIN <<tx>> : <<tx>>[i] \in Transactions
  OBVIOUS
<1> QED
  BY <1>1, <1>2

\* A single signing of a well-made transaction keeps the invariant.
LEMMA SignPreserves ==
    ASSUME NEW s, NEW message, TypeOK, SignedInv, signings < MaxSignings, WellMade(s),
           Sign(s, message)
    PROVE  TypeOK' /\ SignedInv'
<1>1. PICK messages \in {{}, Shown(<<s.tx>>, message)} : BothSign({s}, messages)
  BY DEF Sign
<1>2. \A m \in messages : m.txs # <<>> /\ \A i \in DOMAIN m.txs : m.txs[i] \in Transactions
  BY <1>1, OneShown DEF WellMade
<1>3. \A t \in {s} : WellMade(t) /\ Serializable(t.tx)
  BY DEF Sign
<1> QED
  BY <1>1, <1>2, <1>3, BothSignPreserves

\* An authorisation goes with the change of the key that it is for.
LEMMA AuthorisationTyped ==
    ASSUME NEW r \in ChangePubKeyRequest, NEW m \in Authorisation(r)
    PROVE  m.txs # <<>> /\ \A i \in DOMAIN m.txs : m.txs[i] \in Transactions
<1>1. m \in Shown(<<GetChangePubKey(r).tx>>, ChangePubKeyMessage(r))
  BY DEF Authorisation
<1>2. GetChangePubKey(r).tx \in Transactions
  BY ChangePubKeyMade DEF WellMade
<1> QED
  BY <1>1, <1>2, OneShown

\* Signing a change of the key keeps the invariant.
LEMMA SetKeyPreserves ==
    ASSUME NEW r \in Requests, TypeOK, SignedInv, SignSetSigningKey(r)
    PROVE  TypeOK' /\ SignedInv'
<1>1. r \in ChangePubKeyRequest
  BY RequestTyped DEF SignSetSigningKey
<1>2. PICK made \in {{}, {GetChangePubKey(r)}} :
        (\A s \in made : Serializable(s.tx)) /\ BothSign(made, Authorisation(r))
  BY DEF SignSetSigningKey
<1>3. \A s \in made : WellMade(s) /\ Serializable(s.tx)
  BY <1>1, <1>2, ChangePubKeyMade
<1>4. \A m \in Authorisation(r) :
        m.txs # <<>> /\ \A i \in DOMAIN m.txs : m.txs[i] \in Transactions
  BY <1>1, AuthorisationTyped
<1>5. signings < MaxSignings
  BY DEF SignSetSigningKey
<1> QED
  BY <1>2, <1>3, <1>4, <1>5, BothSignPreserves

\* The transactions of a batch are numbered one after another, and remain requests.
LEMMA NumberedTyped ==
    ASSUME NEW batch \in Batches, NEW i \in DOMAIN Numbered(batch)
    PROVE  /\ batch[i] \in Requests /\ batch[i].type # "Order"
           /\ i \in Nat \ {0} /\ batch[1].nonce + i - 1 \in Nat
           /\ Numbered(batch)[i] = [batch[i] EXCEPT !.nonce = batch[1].nonce + i - 1]
           /\ DOMAIN Numbered(batch) = 1 .. Len(batch) /\ Len(batch) \in Nat \ {0}
<1>1. batch \in Seq({r \in Requests : r.type # "Order"}) /\ i \in DOMAIN batch
  BY SigningAssumption DEF Numbered
<1>2. DOMAIN batch = 1 .. Len(batch) /\ Len(batch) \in Nat /\ i \in 1 .. Len(batch)
  BY <1>1, LenProperties
<1>3. i \in Nat \ {0} /\ Len(batch) \in Nat \ {0} /\ 1 \in 1 .. Len(batch)
  BY <1>2
<1>4. /\ batch[i] \in Requests /\ batch[i].type # "Order" /\ batch[1] \in Requests
  BY <1>1, <1>2, <1>3, ElementOfSeq
<1>5. batch[1].nonce \in Nat
  BY <1>4, SigningAssumption
  DEF TransferRequest, WithdrawRequest, ChangePubKeyRequest, ForcedExitRequest,
      MintNFTRequest, WithdrawNFTRequest, OrderRequest, SwapRequest
<1>6. /\ Numbered(batch)[i] = [batch[i] EXCEPT !.nonce = batch[1].nonce + i - 1]
      /\ DOMAIN Numbered(batch) = DOMAIN batch
  BY <1>1 DEF Numbered
<1>7. batch[1].nonce + i - 1 \in Nat
  BY <1>3, <1>5
<1> QED
  BY <1>2, <1>3, <1>4, <1>6, <1>7

\* A change of the key in a batch is the request of one.
LEMMA NumberedKeyChange ==
    ASSUME NEW batch \in Batches, NEW i \in DOMAIN Numbered(batch),
           Numbered(batch)[i].type = "ChangePubKey"
    PROVE  Numbered(batch)[i] \in ChangePubKeyRequest
<1> DEFINE r == batch[i]
           k == batch[1].nonce + i - 1
<1>1. r \in Requests /\ k \in Nat /\ Numbered(batch)[i] = [r EXCEPT !.nonce = k]
  BY NumberedTyped
<1> HIDE DEF r, k
<1>2. r.type = "ChangePubKey"
  BY <1>1
<1>3. r \in ChangePubKeyRequest
  BY <1>1, <1>2, RequestTyped
<1> QED
  BY <1>1, <1>3 DEF ChangePubKeyRequest

\* So does the signing of a batch, whole or as far as it gets.
LEMMA SignBatchPreserves ==
    ASSUME NEW batch \in Batches, TypeOK, SignedInv, SignBatch(batch)
    PROVE  TypeOK' /\ SignedInv'
<1> DEFINE rs == Numbered(batch)
           done == [i \in DOMAIN rs |-> Complete(rs[i])]
           txs == [i \in DOMAIN rs |-> done[i].tx]
           message == FlattenSeq([i \in DOMAIN rs |-> Part(rs[i])]) \o NonceLine(rs[1].nonce)
<1> DEFINE authorised(m) ==
                {i \in 1 .. m : rs[i].type = "ChangePubKey" /\ MayAuthenticate(rs[i])}
           own(m) == UNION {Authorisation(rs[i]) : i \in authorised(m)}
           made(n) == {done[i] : i \in 1 .. n}
<1>1. PICK m \in DOMAIN rs : \E n \in {m - 1, m} : \E messages \in {{}, Shown(txs, message)} :
        (\A i \in 1 .. n : Signs(rs[i])) /\ BothSign(made(n), messages \cup own(m))
  BY DEF SignBatch
<1>2. PICK n \in {m - 1, m}, messages \in {{}, Shown(txs, message)} :
        (\A i \in 1 .. n : Signs(rs[i])) /\ BothSign(made(n), messages \cup own(m))
  BY <1>1
<1>3. /\ DOMAIN rs = 1 .. Len(batch) /\ Len(batch) \in Nat \ {0}
      /\ 1 .. m \subseteq DOMAIN rs /\ 1 .. n \subseteq DOMAIN rs
  <2>1. DOMAIN rs = 1 .. Len(batch) /\ Len(batch) \in Nat \ {0}
    BY NumberedTyped
  <2>2. m \in 1 .. Len(batch) /\ n \in {m - 1, m}
    BY <2>1
  <2> QED
    BY <2>1, <2>2
<1>4. \A i \in DOMAIN rs : WellMade(done[i])
  <2> SUFFICES ASSUME NEW i \in DOMAIN rs
               PROVE  WellMade(done[i])
    OBVIOUS
  <2>1. done[i] = Complete([batch[i] EXCEPT !.nonce = batch[1].nonce + i - 1])
    BY NumberedTyped
  <2> QED
    BY <2>1, NumberedTyped, Renumbered
<1>5. \A s \in made(n) : WellMade(s) /\ Serializable(s.tx)
  <2>1. \A i \in 1 .. n : WellMade(done[i]) /\ Serializable(done[i].tx)
    BY <1>2, <1>3, <1>4 DEF Signs
  <2> QED
    BY <2>1
<1>6. txs # <<>> /\ \A i \in DOMAIN txs : txs[i] \in Transactions
  <2>1. \A i \in DOMAIN txs : txs[i] \in Transactions
    BY <1>4 DEF WellMade
  <2>2. 1 \in DOMAIN txs
    BY <1>3
  <2>3. DOMAIN txs # DOMAIN <<>>
    BY <2>2
  <2> QED
    BY <2>1, <2>3
<1>7. ASSUME NEW x \in messages \cup own(m)
      PROVE  x.txs # <<>> /\ \A i \in DOMAIN x.txs : x.txs[i] \in Transactions
  <2>1. CASE x \in messages
    <3>1. x.txs = txs
      BY <1>2, <2>1 DEF Shown
    <3> QED
      BY <1>6, <3>1
  <2>2. CASE x \in own(m)
    <3>1. PICK i \in 1 .. m : rs[i].type = "ChangePubKey" /\ x \in Authorisation(rs[i])
      BY <2>2
    <3>2. rs[i] \in ChangePubKeyRequest
      BY <1>3, <3>1, NumberedKeyChange
    <3> QED
      BY <3>1, <3>2, AuthorisationTyped
  <2> QED
    BY <2>1, <2>2
<1>8. signings < MaxSignings
  BY DEF SignBatch
<1> HIDE DEF made, own
<1> QED
  BY <1>2, <1>5, <1>7, <1>8, BothSignPreserves

\* In every state the rollup key has signed transactions of the rollup with their own bytes,
\* each of which passed the checks of its fields.
THEOREM InductiveInvariant == Spec => [](TypeOK /\ SignedInv)
<1>1. Init => TypeOK /\ SignedInv
  BY SigningAssumption DEF Init, TypeOK, SignedInv
<1>2. TypeOK /\ SignedInv /\ [Next]_vars => (TypeOK /\ SignedInv)'
  <2> SUFFICES ASSUME TypeOK, SignedInv, [Next]_vars
               PROVE  (TypeOK /\ SignedInv)'
    OBVIOUS
  <2>1. ASSUME NEW r \in Requests, SignTransfer(r)
        PROVE  (TypeOK /\ SignedInv)'
    BY <2>1, RequestTyped, TransferMade, SignPreserves DEF SignTransfer
  <2>2. ASSUME NEW r \in Requests, SignWithdraw(r)
        PROVE  (TypeOK /\ SignedInv)'
    BY <2>2, RequestTyped, WithdrawMade, SignPreserves DEF SignWithdraw
  <2>3. ASSUME NEW r \in Requests, SignSetSigningKey(r)
        PROVE  (TypeOK /\ SignedInv)'
    BY <2>3, SetKeyPreserves
  <2>4. ASSUME NEW r \in Requests, SignForcedExit(r)
        PROVE  (TypeOK /\ SignedInv)'
    BY <2>4, RequestTyped, ForcedExitMade, SignPreserves DEF SignForcedExit
  <2>5. ASSUME NEW r \in Requests, SignMint(r)
        PROVE  (TypeOK /\ SignedInv)'
    BY <2>5, RequestTyped, MintNFTMade, SignPreserves DEF SignMint
  <2>6. ASSUME NEW r \in Requests, SignNFTWithdrawal(r)
        PROVE  (TypeOK /\ SignedInv)'
    BY <2>6, RequestTyped, WithdrawNFTMade, SignPreserves DEF SignNFTWithdrawal
  <2>7. ASSUME NEW r \in Requests, SignOrder(r)
        PROVE  (TypeOK /\ SignedInv)'
    BY <2>7, RequestTyped, OrderMade, SignPreserves DEF SignOrder
  <2>8. ASSUME NEW r \in Requests, SignSwap(r)
        PROVE  (TypeOK /\ SignedInv)'
    BY <2>8, RequestTyped, SwapMade, SignPreserves DEF SignSwap
  <2>9. ASSUME NEW batch \in Batches, SignBatch(batch)
        PROVE  (TypeOK /\ SignedInv)'
    BY <2>9, SignBatchPreserves
  <2>10. CASE UNCHANGED vars
    BY <2>10 DEF vars, TypeOK, SignedInv
  <2> QED
    BY <2>1, <2>2, <2>3, <2>4, <2>5, <2>6, <2>7, <2>8, <2>9, <2>10 DEF Next
<1> QED
  BY <1>1, <1>2, PTL DEF Spec

\* Every transaction that is signed is one of the rollup's, whatever the program left out.
THEOREM TypeCorrect == Spec => []TypeOK
BY InductiveInvariant, PTL

\* No signature of the rollup key is good for two transactions that differ in more
\* than what is cut off.
THEOREM NoSignatureTwice == Spec => []SameBytesSameTransaction
<1>1. TypeOK /\ SignedInv => SameBytesSameTransaction
  BY BytesDetermineTransaction DEF SignedInv, WellMade, SameBytesSameTransaction
<1> QED
  BY <1>1, InductiveInvariant, PTL
-----------------------------------------------------------------------------
(***************************************************************************)
(* Messages: from lines back to what transactions do.                      *)
(***************************************************************************)

\* The number of smallest fractions in the least amount of a token.
Factor(token) == MaxUnit \div IF IsNFT(token) THEN 1 ELSE Unit[token]

\* The lines that the parts of messages are made of.
Line ==
    ({"Transfer", "Withdraw"} \X Nat \X Nat \X Addresses)
        \cup ({"Fee", "Swap fee"} \X Nat \X Nat)
        \cup ({"Set signing key"} \X PubKeyHashes)
        \cup ({"ForcedExit", "WithdrawNFT"} \X Nat \X Addresses)
        \cup ({"MintNFT"} \X ContentHashes \X Addresses)

\* What a line says is done or paid, whoever wrote it.
Says(line) ==
    CASE line[1] \in {"Transfer", "Withdraw"} ->
            <<line[1], line[4], line[3], line[2] \div Factor(line[3])>>
      [] line[1] \in {"Fee", "Swap fee"} ->
            <<line[1], line[3], line[2] \div Factor(line[3])>>
      [] line[1] = "Set signing key" -> <<"ChangePubKey", line[2]>>
      [] line[1] = "ForcedExit" -> <<"ForcedExit", line[3], line[2]>>
      [] line[1] = "MintNFT" -> <<"MintNFT", line[3], line[2]>>
      [] line[1] = "WithdrawNFT" -> <<"WithdrawNFT", line[3], line[2]>>

Sayings == {Says(line) : line \in Line}

Meaning(lines) == [i \in DOMAIN lines |-> Says(lines[i])]

\* A sequence that is put together from sequences is so step by step.
LEMMA FlattenUnfolds ==
    ASSUME NEW S, NEW seqs \in Seq(Seq(S)), seqs # <<>>
    PROVE  \E f : /\ f[1] = seqs[1]
                  /\ \A i \in 2 .. Len(seqs) : f[i] = f[i - 1] \o seqs[i]
                  /\ \A i \in 1 .. Len(seqs) : f[i] \in Seq(S)
                  /\ FlattenSeq(seqs) = f[Len(seqs)]
<1> DEFINE n == Len(seqs)
           IsFlat(g, k) == g = [i \in 1 .. k |-> IF i = 1 THEN seqs[i] ELSE g[i - 1] \o seqs[i]]
<1>1. n \in Nat \ {0} /\ \A i \in 1 .. n : seqs[i] \in Seq(S)
  <2>1. n \in Nat /\ n # 0
    BY EmptySeq, LenProperties
  <2> QED
    BY <2>1, ElementOfSeq
<1> HIDE DEF n
<1>2. ASSUME NEW k \in Nat, NEW g, IsFlat(g, k)
      PROVE  \E h : IsFlat(h, k + 1)
  <2> DEFINE h == [i \in 1 .. k + 1 |-> IF i = 1 THEN seqs[i] ELSE g[i - 1] \o seqs[i]]
  <2>1. \A i \in 1 .. k : h[i] = g[i]
    <3> SUFFICES ASSUME NEW i \in 1 .. k
                 PROVE  h[i] = g[i]
      OBVIOUS
    <3>1. i \in 1 .. k + 1
      OBVIOUS
    <3>2. h[i] = IF i = 1 THEN seqs[i] ELSE g[i - 1] \o seqs[i]
      BY <3>1
    <3>3. g[i] = IF i = 1 THEN seqs[i] ELSE g[i - 1] \o seqs[i]
      BY <1>2
    <3> QED
      BY <3>2, <3>3
  <2>2. ASSUME NEW i \in 1 .. k + 1
        PROVE  h[i] = IF i = 1 THEN seqs[i] ELSE h[i - 1] \o seqs[i]
    <3>1. h[i] = IF i = 1 THEN seqs[i] ELSE g[i - 1] \o seqs[i]
      OBVIOUS
    <3>2. i # 1 => i - 1 \in 1 .. k
      OBVIOUS
    <3> HIDE DEF h
    <3>3. i # 1 => h[i - 1] = g[i - 1]
      BY <2>1, <3>2
    <3> QED
      BY <3>1, <3>3
  <2>3. h = [i \in 1 .. k + 1 |-> h[i]]
    OBVIOUS
  <2> HIDE DEF h
  <2>4. IsFlat(h, k + 1)
    BY <2>2, <2>3
  <2> HIDE DEF IsFlat
  <2> QED
    BY <2>4
<1>3. \E g : IsFlat(g, n)
  <2> DEFINE T == {k \in Nat : ~\E g : IsFlat(g, k)}
  <2>1. SUFFICES ASSUME T # {} PROVE FALSE
    BY <1>1
  <2>2. PICK k \in T : \A j \in T : k <= j
    <3>1. T \subseteq Nat
      OBVIOUS
    <3> HIDE DEF T
    <3> QED
      BY <2>1, <3>1, LeastNumber
  <2>3. CASE k = 0
    <3> DEFINE h == [i \in 1 .. 0 |-> seqs[i]]
    <3>1. IsFlat(h, k)
      BY <2>3
    <3> QED
      BY <3>1
  <2>4. CASE k # 0
    <3>1. k \in Nat /\ k - 1 \in Nat /\ ~(k <= k - 1) /\ (k - 1) + 1 = k
      BY <2>4
    <3>2. k - 1 \notin T
      <4> HIDE DEF T
      <4> QED
        BY <2>2, <3>1
    <3> HIDE DEF IsFlat
    <3>3. PICK g : IsFlat(g, k - 1)
      BY <3>1, <3>2
    <3>4. \E h : IsFlat(h, (k - 1) + 1)
      BY <1>2, <3>1, <3>3
    <3> QED
      BY <3>1, <3>4
  <2> QED
    BY <2>3, <2>4
<1> DEFINE flatten == CHOOSE flatten : IsFlat(flatten, n)
<1>4. FlattenSeq(seqs) = flatten[n]
  BY <1>1 DEF FlattenSeq, n
<1>5. IsFlat(flatten, n)
  <2> HIDE DEF IsFlat
  <2> QED
    BY <1>3
<1> HIDE DEF flatten
<1>6. /\ flatten[1] = seqs[1]
      /\ \A i \in 2 .. n : flatten[i] = flatten[i - 1] \o seqs[i]
  <2>1. \A i \in 1 .. n : flatten[i] = IF i = 1 THEN seqs[i] ELSE flatten[i - 1] \o seqs[i]
    BY <1>5
  <2>2. 1 \in 1 .. n /\ \A i \in 2 .. n : i \in 1 .. n /\ i # 1
    BY <1>1
  <2> HIDE DEF IsFlat
  <2> QED
    BY <2>1, <2>2
<1> HIDE DEF IsFlat
<1>7. \A i \in 1 .. n : flatten[i] \in Seq(S)
  <2> DEFINE T == {i \in 1 .. n : flatten[i] \notin Seq(S)}
  <2>1. SUFFICES ASSUME T # {} PROVE FALSE
    OBVIOUS
  <2>2. PICK i \in T : \A j \in T : i <= j
    <3>1. T \subseteq Nat
      OBVIOUS
    <3> HIDE DEF T
    <3> QED
      BY <2>1, <3>1, LeastNumber
  <2>3. i # 1
    BY <1>1, <1>6
  <2>4. i \in 2 .. n /\ i - 1 \in 1 .. n /\ ~(i <= i - 1)
    BY <1>1, <2>3
  <2>5. flatten[i - 1] \in Seq(S)
    BY <2>2, <2>4
  <2>6. flatten[i] = flatten[i - 1] \o seqs[i] /\ seqs[i] \in Seq(S)
    BY <1>1, <1>6, <2>4
  <2>7. flatten[i] \in Seq(S)
    BY <2>5, <2>6, ConcatProperties
  <2> QED
    BY <2>7
<1> QED
  BY <1>4, <1>6, <1>7 DEF n

\* The meaning of a message is that of its lines.
LEMMA MeaningType ==
    ASSUME NEW a \in Seq(Line)
    PROVE  /\ Meaning(a) \in Seq(Sayings) /\ Len(Meaning(a)) = Len(a)
           /\ \A i \in 1 .. Len(a) : Meaning(a)[i] = Says(a[i])
<1>1. Len(a) \in Nat /\ DOMAIN a = 1 .. Len(a)
  BY LenProperties
<1>2. \A i \in 1 .. Len(a) : Says(a[i]) \in Sayings
  <2>1. \A i \in 1 .. Len(a) : a[i] \in Line
    BY ElementOfSeq
  <2> QED
    BY <2>1 DEF Sayings
<1>3. Meaning(a) = [i \in 1 .. Len(a) |-> Says(a[i])]
  BY <1>1 DEF Meaning
<1>4. Meaning(a) \in [1 .. Len(a) -> Sayings]
  BY <1>2, <1>3
<1>5. Meaning(a) \in Seq(Sayings)
  BY <1>1, <1>4, SeqDef
<1> QED
  BY <1>1, <1>3, <1>4, <1>5, LenProperties

\* One message after the other means one thing after the other.
LEMMA MeaningOfConcat ==
    ASSUME NEW a \in Seq(Line), NEW b \in Seq(Line)
    PROVE  /\ a \o b \in Seq(Line)
           /\ Meaning(a \o b) = Meaning(a) \o Meaning(b)
<1> DEFINE c == a \o b
           m == Meaning(a) \o Meaning(b)
<1>1. /\ c \in Seq(Line) /\ Len(c) = Len(a) + Len(b)
      /\ \A i \in 1 .. Len(a) + Len(b) : c[i] = IF i <= Len(a) THEN a[i] ELSE b[i - Len(a)]
  BY ConcatProperties
<1>2. /\ Meaning(a) \in Seq(Sayings) /\ Len(Meaning(a)) = Len(a)
      /\ Meaning(b) \in Seq(Sayings) /\ Len(Meaning(b)) = Len(b)
      /\ Len(a) \in Nat /\ Len(b) \in Nat
  BY MeaningType, LenProperties
<1>3. /\ m \in Seq(Sayings) /\ Len(m) = Len(a) + Len(b)
      /\ \A i \in 1 .. Len(a) + Len(b) :
            m[i] = IF i <= Len(a) THEN Meaning(a)[i] ELSE Meaning(b)[i - Len(a)]
  <2> DEFINE first == Meaning(a)
             second == Meaning(b)
  <2>1. /\ first \in Seq(Sayings) /\ Len(first) = Len(a)
        /\ second \in Seq(Sayings) /\ Len(second) = Len(b)
    BY <1>2
  <2> HIDE DEF first, second
  <2>2. /\ first \o second \in Seq(Sayings)
        /\ Len(first \o second) = Len(first) + Len(second)
        /\ \A i \in 1 .. Len(first) + Len(second) :
              (first \o second)[i] = IF i <= Len(first) THEN first[i]
                                     ELSE second[i - Len(first)]
    BY <2>1, ConcatProperties, Zenon
  <2> QED
    BY <2>1, <2>2 DEF first, second
<1> HIDE DEF c, m
<1>4. ASSUME NEW i \in 1 .. Len(a) + Len(b)
      PROVE  Meaning(c)[i] = m[i]
  <2>1. Meaning(c)[i] = Says(c[i])
    BY <1>1, MeaningType
  <2>2. CASE i <= Len(a)
    <3>1. i \in 1 .. Len(a)
      BY <1>2, <2>2
    <3> QED
      BY <1>1, <1>3, <2>1, <2>2, <3>1, MeaningType
  <2>3. CASE ~(i <= Len(a))
    <3>1. i - Len(a) \in 1 .. Len(b)
      BY <1>2, <2>3
    <3> QED
      BY <1>1, <1>3, <2>1, <2>3, <3>1, MeaningType
  <2> QED
    BY <2>2, <2>3
<1>5. Meaning(c) \in Seq(Sayings) /\ Len(Meaning(c)) = Len(a) + Len(b)
  BY <1>1, MeaningType
<1>6. Meaning(c) = m
  BY <1>3, <1>4, <1>5, SeqEqual
<1> QED
  BY <1>1, <1>6 DEF c, m

\* So it is for as many as there are.
LEMMA MeaningOfParts ==
    ASSUME NEW parts \in Seq(Seq(Line)), parts # <<>>
    PROVE  /\ FlattenSeq(parts) \in Seq(Line)
           /\ FlattenSeq([i \in DOMAIN parts |-> Meaning(parts[i])]) = Meaning(FlattenSeq(parts))
<1> DEFINE n == Len(parts)
           meanings == [i \in 1 .. n |-> Meaning(parts[i])]
<1>1. n \in Nat \ {0} /\ DOMAIN parts = 1 .. n /\ \A i \in 1 .. n : parts[i] \in Seq(Line)
  <2>1. n \in Nat /\ n # 0 /\ DOMAIN parts = 1 .. n
    BY EmptySeq, LenProperties
  <2> QED
    BY <2>1, ElementOfSeq
<1> HIDE DEF n
<1>2. meanings \in Seq(Seq(Sayings)) /\ Len(meanings) = n /\ meanings # <<>>
  <2>1. meanings \in [1 .. n -> Seq(Sayings)]
    BY <1>1, MeaningType
  <2> HIDE DEF meanings
  <2>2. meanings \in Seq(Seq(Sayings)) /\ Len(meanings) = n
    BY <1>1, <2>1, SeqDef, LenProperties
  <2> QED
    BY <1>1, <2>2, EmptySeq
<1>3. \A i \in 1 .. n : meanings[i] = Meaning(parts[i])
  OBVIOUS
<1> HIDE DEF meanings
<1>4. PICK f : /\ f[1] = parts[1]
               /\ \A i \in 2 .. n : f[i] = f[i - 1] \o parts[i]
               /\ \A i \in 1 .. n : f[i] \in Seq(Line)
               /\ FlattenSeq(parts) = f[n]
  BY FlattenUnfolds DEF n
<1>5. PICK g : /\ g[1] = meanings[1]
               /\ \A i \in 2 .. n : g[i] = g[i - 1] \o meanings[i]
               /\ FlattenSeq(meanings) = g[n]
  BY <1>2, FlattenUnfolds
<1>6. \A i \in 1 .. n : g[i] = Meaning(f[i])
  <2> DEFINE T == {i \in 1 .. n : g[i] # Meaning(f[i])}
  <2>1. SUFFICES ASSUME T # {} PROVE FALSE
    OBVIOUS
  <2>2. PICK i \in T : \A j \in T : i <= j
    <3>1. T \subseteq Nat
      OBVIOUS
    <3> HIDE DEF T
    <3> QED
      BY <2>1, <3>1, LeastNumber
  <2>3. i # 1
    BY <1>1, <1>3, <1>4, <1>5
  <2>4. i \in 2 .. n /\ i \in 1 .. n /\ i - 1 \in 1 .. n /\ ~(i <= i - 1)
    BY <1>1, <2>3
  <2>5. g[i - 1] = Meaning(f[i - 1])
    BY <2>2, <2>4
  <2>6. Meaning(f[i - 1] \o parts[i]) = Meaning(f[i - 1]) \o Meaning(parts[i])
    BY <1>1, <1>4, <2>4, MeaningOfConcat
  <2>7. g[i] = Meaning(f[i])
    BY <1>3, <1>4, <1>5, <2>4, <2>5, <2>6
  <2> QED
    BY <2>7
<1>7. n \in 1 .. n
  BY <1>1
<1> QED
  BY <1>1, <1>4, <1>5, <1>6, <1>7 DEF meanings

\* A token's amounts are written as multiples of a positive number.
LEMMA FactorPositive ==
    ASSUME NEW name \in DOMAIN TokenId
    PROVE  TokenId[name] \in Nat /\ Factor(TokenId[name]) \in Nat \ {0}
<1> DEFINE token == TokenId[name]
           unit == IF IsNFT(token) THEN 1 ELSE Unit[token]
<1>1. /\ token \in Nat /\ MaxUnit \in Nat \ {0}
      /\ ~IsNFT(token) => Unit[token] \in Nat \ {0} /\ MaxUnit % Unit[token] = 0
  BY SigningAssumption
<1>2. unit \in Nat \ {0} /\ MaxUnit % unit = 0
  BY <1>1
<1> HIDE DEF unit
<1>3. MaxUnit \div unit \in Nat /\ MaxUnit = (MaxUnit \div unit) * unit + (MaxUnit % unit)
  BY <1>1, <1>2
<1>4. MaxUnit \div unit # 0
  <2> DEFINE q == MaxUnit \div unit
             r == MaxUnit % unit
  <2>1. MaxUnit = q * unit + r /\ r = 0 /\ MaxUnit # 0
    BY <1>1, <1>2, <1>3
  <2> HIDE DEF q, r
  <2>2. ASSUME q = 0
        PROVE  FALSE
    BY <1>2, <2>1, <2>2
  <2> QED
    BY <2>2 DEF q
<1> QED
  BY <1>1, <1>3, <1>4 DEF Factor, unit

\* What an amount is written as, divided by the factor, is the amount.
LEMMA AmountReadBack ==
    ASSUME NEW name \in DOMAIN TokenId, NEW amount \in Nat
    PROVE  /\ FormatToken(TokenId[name], amount) \in Nat
           /\ FormatToken(TokenId[name], amount) \div Factor(TokenId[name]) = amount
<1> DEFINE d == Factor(TokenId[name])
<1>1. d \in Nat \ {0} /\ FormatToken(TokenId[name], amount) = amount * d
  BY FactorPositive DEF FormatToken, Factor
<1> HIDE DEF d
<1>2. amount * d \in Nat /\ (amount * d) \div d = amount
  BY <1>1
<1> QED
  BY <1>1, <1>2 DEF d

\* A single line, or none.
LEMMA OneLine ==
    ASSUME NEW line \in Line
    PROVE  /\ <<line>> \in Seq(Line) /\ Meaning(<<line>>) = <<Says(line)>>
           /\ <<>> \in Seq(Line) /\ Meaning(<<>>) = <<>>
<1>1. <<line>> \in Seq(Line) /\ <<>> \in Seq(Line)
  OBVIOUS
<1>2. Meaning(<<line>>) = <<Says(line)>>
  BY DEF Meaning
<1>3. Meaning(<<>>) = <<>>
  BY DEF Meaning
<1> QED
  BY <1>1, <1>2, <1>3

\* The line of a fee.
LEMMA FeeSaid ==
    ASSUME NEW name \in DOMAIN TokenId, NEW fee \in Nat, NEW kind \in {"Fee", "Swap fee"},
           NEW lines,
           lines = IF fee = 0 THEN <<>>
                   ELSE << <<kind, FormatToken(TokenId[name], fee), TokenId[name]>> >>
    PROVE  /\ lines \in Seq(Line)
           /\ Meaning(lines) = IF fee = 0 THEN <<>> ELSE << <<kind, TokenId[name], fee>> >>
<1> DEFINE written == FormatToken(TokenId[name], fee)
           token == TokenId[name]
           line == <<kind, written, token>>
<1>1. /\ token \in Nat /\ written \in Nat /\ written \div Factor(token) = fee
  BY FactorPositive, AmountReadBack
<1> HIDE DEF written, token
<1>2. line \in Line
  BY <1>1 DEF Line
<1>3. line[1] = kind /\ line[2] = written /\ line[3] = token
  OBVIOUS
<1> HIDE DEF line
<1>4. Says(line) = <<kind, token, fee>>
  BY <1>1, <1>3 DEF Says
<1>5. lines = IF fee = 0 THEN <<>> ELSE <<line>>
  BY DEF line, written, token
<1> QED
  BY <1>2, <1>4, <1>5, OneLine DEF token

\* The line of an amount.
LEMMA AmountSaid ==
    ASSUME NEW name \in DOMAIN TokenId, NEW amount \in Nat, NEW to \in Addresses,
           NEW kind \in {"Transfer", "Withdraw"}
    PROVE  /\ AmountLine(kind, amount, TokenId[name], to) \in Seq(Line)
           /\ Meaning(AmountLine(kind, amount, TokenId[name], to))
                = IF amount = 0 THEN <<>> ELSE << <<kind, to, TokenId[name], amount>> >>
<1> DEFINE written == FormatToken(TokenId[name], amount)
           token == TokenId[name]
           line == <<kind, written, token, to>>
<1>1. /\ token \in Nat /\ written \in Nat /\ written \div Factor(token) = amount
  BY FactorPositive, AmountReadBack
<1>2. AmountLine(kind, amount, token, to) = IF amount = 0 THEN <<>> ELSE <<line>>
  BY DEF AmountLine
<1> HIDE DEF written, token
<1>3. line \in Line
  BY <1>1 DEF Line
<1>4. line[1] = kind /\ line[2] = written /\ line[3] = token /\ line[4] = to
  OBVIOUS
<1> HIDE DEF line
<1>5. Says(line) = <<kind, to, token, amount>>
  BY <1>1, <1>4 DEF Says
<1> QED
  BY <1>2, <1>3, <1>5, OneLine DEF token

\* What a part says, and the nonce that goes with it, are the transaction's.
Tells(part, tx, nonce) ==
    part \in Seq(Line) /\ Meaning(part) = Announced(tx) /\ tx.nonce = nonce

\* A line that says what is done, and the fee: what most parts are made of.
LEMMA LineAndFee ==
    ASSUME NEW line \in Line, NEW name \in DOMAIN TokenId, NEW tx, tx.fee \in Nat,
           Deed(tx) = <<Says(line)>>,
           Cost(tx) = IF tx.fee = 0 THEN <<>> ELSE << <<"Fee", TokenId[name], tx.fee>> >>
    PROVE  /\ <<line>> \o FeeLine(tx.fee, TokenId[name]) \in Seq(Line)
           /\ Meaning(<<line>> \o FeeLine(tx.fee, TokenId[name])) = Deed(tx) \o Cost(tx)
<1> DEFINE lines == FeeLine(tx.fee, TokenId[name])
<1>1. lines \in Seq(Line) /\ Meaning(lines) = Cost(tx)
  BY FeeSaid DEF FeeLine
<1>2. <<line>> \in Seq(Line) /\ Meaning(<<line>>) = Deed(tx)
  BY OneLine
<1> HIDE DEF lines
<1>3. <<line>> \o lines \in Seq(Line) /\ Meaning(<<line>> \o lines) = Deed(tx) \o Cost(tx)
  BY <1>1, <1>2, MeaningOfConcat
<1> QED
  BY <1>3 DEF lines

\* A transfer's part announces the amount, if there is one, and the fee.
LEMMA TransferTells ==
    ASSUME NEW r \in TransferRequest
    PROVE  Tells(GetTransferEthMessagePart(r), GetTransfer(r).tx, r.nonce)
<1> DEFINE tx == GetTransfer(r).tx
           token == TokenId[r.token]
           amounts == AmountLine("Transfer", r.amount, token, r.to)
           fees == FeeLine(r.fee, token)
<1>1. /\ r.token \in DOMAIN TokenId /\ r.amount \in Nat /\ r.fee \in Nat /\ r.to \in Addresses
  BY DEF TransferRequest
<1>2. /\ tx.type = "Transfer" /\ tx.to = r.to /\ tx.token = token /\ tx.amount = r.amount
      /\ tx.fee = r.fee /\ tx.nonce = r.nonce
  BY DEF GetTransfer, SignSyncTransfer
<1> HIDE DEF tx
<1>3. Deed(tx) = IF r.amount = 0 THEN <<>> ELSE << <<"Transfer", r.to, token, r.amount>> >>
  BY <1>2 DEF Deed
<1>4. Cost(tx) = IF r.fee = 0 THEN <<>> ELSE << <<"Fee", token, r.fee>> >>
  BY <1>2 DEF Cost
<1>5. amounts \in Seq(Line) /\ Meaning(amounts) = Deed(tx)
  BY <1>1, <1>3, AmountSaid
<1>6. fees \in Seq(Line) /\ Meaning(fees) = Cost(tx)
  BY <1>1, <1>4, FeeSaid DEF FeeLine
<1>7. GetTransferEthMessagePart(r) = amounts \o fees
  BY DEF GetTransferEthMessagePart, TransferPart
<1> HIDE DEF amounts, fees
<1>8. amounts \o fees \in Seq(Line) /\ Meaning(amounts \o fees) = Deed(tx) \o Cost(tx)
  BY <1>5, <1>6, MeaningOfConcat
<1> QED
  BY <1>2, <1>7, <1>8 DEF Tells, Announced, tx

\* So does that of a withdrawal.
LEMMA WithdrawTells ==
    ASSUME NEW r \in WithdrawRequest
    PROVE  Tells(GetWithdrawEthMessagePart(r), GetWithdrawFromSyncToEthereum(r).tx, r.nonce)
<1> DEFINE tx == GetWithdrawFromSyncToEthereum(r).tx
           token == TokenId[r.token]
           amounts == AmountLine("Withdraw", r.amount, token, r.ethAddress)
           fees == FeeLine(r.fee, token)
<1>1. /\ r.token \in DOMAIN TokenId /\ r.amount \in Nat /\ r.fee \in Nat
      /\ r.ethAddress \in Addresses
  BY DEF WithdrawRequest
<1>2. /\ tx.type = "Withdraw" /\ tx.to = r.ethAddress /\ tx.token = token
      /\ tx.amount = r.amount /\ tx.fee = r.fee /\ tx.nonce = r.nonce
  BY DEF GetWithdrawFromSyncToEthereum, SignSyncWithdraw
<1> HIDE DEF tx
<1>3. Deed(tx) = IF r.amount = 0 THEN <<>>
                 ELSE << <<"Withdraw", r.ethAddress, token, r.amount>> >>
  BY <1>2 DEF Deed
<1>4. Cost(tx) = IF r.fee = 0 THEN <<>> ELSE << <<"Fee", token, r.fee>> >>
  BY <1>2 DEF Cost
<1>5. amounts \in Seq(Line) /\ Meaning(amounts) = Deed(tx)
  BY <1>1, <1>3, AmountSaid
<1>6. fees \in Seq(Line) /\ Meaning(fees) = Cost(tx)
  BY <1>1, <1>4, FeeSaid DEF FeeLine
<1>7. GetWithdrawEthMessagePart(r) = amounts \o fees
  BY DEF GetWithdrawEthMessagePart, TransferPart
<1> HIDE DEF amounts, fees
<1>8. amounts \o fees \in Seq(Line) /\ Meaning(amounts \o fees) = Deed(tx) \o Cost(tx)
  BY <1>5, <1>6, MeaningOfConcat
<1> QED
  BY <1>2, <1>7, <1>8 DEF Tells, Announced, tx

\* A change of the key is told with the key, in a batch.
LEMMA ChangePubKeyTells ==
    ASSUME NEW r \in ChangePubKeyRequest
    PROVE  Tells(GetChangePubKeyEthMessagePart(r), GetChangePubKey(r).tx, r.nonce)
<1> DEFINE tx == GetChangePubKey(r).tx
           line == <<"Set signing key", PubKeyHash>>
<1>1. r.feeToken \in DOMAIN TokenId /\ r.fee \in Nat /\ PubKeyHash \in PubKeyHashes
  BY SigningAssumption DEF ChangePubKeyRequest
<1>2. /\ tx.type = "ChangePubKey" /\ tx.newPkHash = PubKeyHash
      /\ tx.feeToken = TokenId[r.feeToken] /\ tx.fee = r.fee /\ tx.nonce = r.nonce
  BY DEF GetChangePubKey, SignSyncChangePubKey
<1> HIDE DEF tx
<1>3. Cost(tx) = IF tx.fee = 0 THEN <<>> ELSE << <<"Fee", TokenId[r.feeToken], tx.fee>> >>
  BY <1>2 DEF Cost
<1>4. line \in Line
  BY <1>1 DEF Line
<1>5. Deed(tx) = <<Says(line)>>
  BY <1>2 DEF Deed, Says
<1>6. GetChangePubKeyEthMessagePart(r) = <<line>> \o FeeLine(tx.fee, TokenId[r.feeToken])
  BY <1>2 DEF GetChangePubKeyEthMessagePart
<1> HIDE DEF line
<1> QED
  BY <1>1, <1>2, <1>3, <1>4, <1>5, <1>6, LineAndFee DEF Tells, Announced, tx

\* A forced exit with the token and the account.
LEMMA ForcedExitTells ==
    ASSUME NEW r \in ForcedExitRequest
    PROVE  Tells(GetForcedExitEthMessagePart(r), GetForcedExit(r).tx, r.nonce)
<1> DEFINE tx == GetForcedExit(r).tx
           line == <<"ForcedExit", TokenId[r.token], r.target>>
<1>1. /\ r.token \in DOMAIN TokenId /\ r.fee \in Nat /\ r.target \in Addresses
      /\ TokenId[r.token] \in Nat
  BY SigningAssumption DEF ForcedExitRequest
<1>2. /\ tx.type = "ForcedExit" /\ tx.target = r.target /\ tx.token = TokenId[r.token]
      /\ tx.fee = r.fee /\ tx.nonce = r.nonce
  BY DEF GetForcedExit, SignSyncForcedExit
<1> HIDE DEF tx
<1>3. Cost(tx) = IF tx.fee = 0 THEN <<>> ELSE << <<"Fee", TokenId[r.token], tx.fee>> >>
  BY <1>2 DEF Cost
<1>4. line \in Line
  BY <1>1 DEF Line
<1>5. Deed(tx) = <<Says(line)>>
  BY <1>2 DEF Deed, Says
<1>6. GetForcedExitEthMessagePart(r) = <<line>> \o FeeLine(tx.fee, TokenId[r.token])
  BY <1>2 DEF GetForcedExitEthMessagePart
<1> HIDE DEF line
<1> QED
  BY <1>1, <1>2, <1>3, <1>4, <1>5, <1>6, LineAndFee DEF Tells, Announced, tx

\* An NFT that is minted with its content and its owner.
LEMMA MintNFTTells ==
    ASSUME NEW r \in MintNFTRequest
    PROVE  Tells(GetMintNFTEthMessagePart(r), GetMintNFT(r).tx, r.nonce)
<1> DEFINE tx == GetMintNFT(r).tx
           line == <<"MintNFT", r.contentHash, r.recipient>>
<1>1. /\ r.feeToken \in DOMAIN TokenId /\ r.fee \in Nat
      /\ r.contentHash \in ContentHashes /\ r.recipient \in Addresses
  BY DEF MintNFTRequest
<1>2. /\ tx.type = "MintNFT" /\ tx.contentHash = r.contentHash /\ tx.recipient = r.recipient
      /\ tx.feeToken = TokenId[r.feeToken] /\ tx.fee = r.fee /\ tx.nonce = r.nonce
  BY DEF GetMintNFT, SignMintNFT
<1> HIDE DEF tx
<1>3. Cost(tx) = IF tx.fee = 0 THEN <<>> ELSE << <<"Fee", TokenId[r.feeToken], tx.fee>> >>
  BY <1>2 DEF Cost
<1>4. line \in Line
  BY <1>1 DEF Line
<1>5. Deed(tx) = <<Says(line)>>
  BY <1>2 DEF Deed, Says
<1>6. GetMintNFTEthMessagePart(r) = <<line>> \o FeeLine(tx.fee, TokenId[r.feeToken])
  BY <1>2 DEF GetMintNFTEthMessagePart
<1> HIDE DEF line
<1> QED
  BY <1>1, <1>2, <1>3, <1>4, <1>5, <1>6, LineAndFee DEF Tells, Announced, tx

\* An NFT that is withdrawn with its id and where it goes.
LEMMA WithdrawNFTTells ==
    ASSUME NEW r \in WithdrawNFTRequest
    PROVE  Tells(GetWithdrawNFTEthMessagePart(r), GetWithdrawNFT(r).tx, r.nonce)
<1> DEFINE tx == GetWithdrawNFT(r).tx
           line == <<"WithdrawNFT", TokenId[r.token], r.to>>
<1>1. /\ r.feeToken \in DOMAIN TokenId /\ r.fee \in Nat /\ r.to \in Addresses
      /\ TokenId[r.token] \in Nat
  BY SigningAssumption DEF WithdrawNFTRequest
<1>2. /\ tx.type = "WithdrawNFT" /\ tx.to = r.to /\ tx.token = TokenId[r.token]
      /\ tx.feeToken = TokenId[r.feeToken] /\ tx.fee = r.fee /\ tx.nonce = r.nonce
  BY DEF GetWithdrawNFT, SignWithdrawNFT
<1> HIDE DEF tx
<1>3. Cost(tx) = IF tx.fee = 0 THEN <<>> ELSE << <<"Fee", TokenId[r.feeToken], tx.fee>> >>
  BY <1>2 DEF Cost
<1>4. line \in Line
  BY <1>1 DEF Line
<1>5. Deed(tx) = <<Says(line)>>
  BY <1>2 DEF Deed, Says
<1>6. GetWithdrawNFTEthMessagePart(r) = <<line>> \o FeeLine(tx.fee, TokenId[r.feeToken])
  BY <1>2 DEF GetWithdrawNFTEthMessagePart
<1> HIDE DEF line
<1> QED
  BY <1>1, <1>2, <1>3, <1>4, <1>5, <1>6, LineAndFee DEF Tells, Announced, tx

\* Of a swap there is the fee.
LEMMA SwapTells ==
    ASSUME NEW r \in SwapRequest
    PROVE  Tells(GetSwapEthSignMessagePart(r), GetSwap(r).tx, r.nonce)
<1> DEFINE tx == GetSwap(r).tx
           lines == GetSwapEthSignMessagePart(r)
<1>1. r.feeToken \in DOMAIN TokenId /\ r.fee \in Nat
  BY DEF SwapRequest
<1>2. /\ tx.type = "Swap" /\ tx.feeToken = TokenId[r.feeToken] /\ tx.fee = r.fee
      /\ tx.nonce = r.nonce
  BY DEF GetSwap, SignSyncSwap
<1> HIDE DEF tx
<1>3. Cost(tx) = IF r.fee = 0 THEN <<>> ELSE << <<"Swap fee", TokenId[r.feeToken], r.fee>> >>
  BY <1>2 DEF Cost
<1>4. lines \in Seq(Line) /\ Meaning(lines) = Cost(tx)
  BY <1>1, <1>3, FeeSaid DEF GetSwapEthSignMessagePart
<1> HIDE DEF lines
<1>5. Announced(tx) = Cost(tx)
  <2>1. Announced(tx) = <<>> \o Cost(tx)
    BY <1>2 DEF Announced
  <2> QED
    BY <1>4, <2>1, MeaningType, ConcatEmptySeq
<1> QED
  BY <1>2, <1>4, <1>5 DEF Tells, tx, lines

\* A sequence of one sequence is flattened to it.
LEMMA FlattenOne ==
    ASSUME NEW S, NEW seq \in Seq(S)
    PROVE  FlattenSeq(<<seq>>) = seq
<1> DEFINE seqs == <<seq>>
<1>1. seqs \in Seq(Seq(S)) /\ seqs # <<>> /\ Len(seqs) = 1 /\ seqs[1] = seq
  OBVIOUS
<1> HIDE DEF seqs
<1>2. PICK f : f[1] = seqs[1] /\ FlattenSeq(seqs) = f[Len(seqs)]
  BY <1>1, FlattenUnfolds
<1> QED
  BY <1>1, <1>2 DEF seqs

\* If each part tells what its transaction does, the message tells what all of them do.
LEMMA EffectTold ==
    ASSUME NEW n \in Nat \ {0}, NEW parts, NEW txs,
           parts = [i \in 1 .. n |-> parts[i]], txs = [i \in 1 .. n |-> txs[i]],
           \A i \in 1 .. n : \E nonce : Tells(parts[i], txs[i], nonce)
    PROVE  FlattenSeq(parts) \in Seq(Line) /\ Told(txs) = Meaning(FlattenSeq(parts))
<1>1. /\ \A i \in 1 .. n : parts[i] \in Seq(Line)
      /\ \A i \in 1 .. n : Meaning(parts[i]) = Announced(txs[i])
  BY DEF Tells
<1>2. parts \in Seq(Seq(Line)) /\ Len(parts) = n
  <2>1. parts \in [1 .. n -> Seq(Line)]
    BY <1>1
  <2> QED
    BY <2>1, SeqDef, LenProperties
<1>3. parts # <<>>
  BY <1>2, EmptySeq
<1>4. DOMAIN parts = 1 .. n /\ DOMAIN txs = 1 .. n
  OBVIOUS
<1>5. [i \in DOMAIN parts |-> Meaning(parts[i])]
        = [i \in DOMAIN txs |-> Announced(txs[i])]
  BY <1>1, <1>4
<1> QED
  BY <1>2, <1>3, <1>5, MeaningOfParts DEF Told

\* A request in a batch is told as its transaction, with the nonce it gets there.
LEMMA NumberedTells ==
    ASSUME NEW r \in Requests, r.type # "Order", NEW n \in Nat
    PROVE  Tells(Part([r EXCEPT !.nonce = n]), Complete([r EXCEPT !.nonce = n]).tx, n)
<1> DEFINE q == [r EXCEPT !.nonce = n]
<1>0. r.type \in {"Transfer", "Withdraw", "ChangePubKey", "ForcedExit", "MintNFT",
                  "WithdrawNFT", "Swap"}
  BY SigningAssumption
  DEF TransferRequest, WithdrawRequest, ChangePubKeyRequest, ForcedExitRequest,
      MintNFTRequest, WithdrawNFTRequest, OrderRequest, SwapRequest
<1>1. CASE r.type = "Transfer"
  <2>1. q \in TransferRequest /\ q.type = "Transfer" /\ q.nonce = n
    BY <1>1, RequestTyped DEF TransferRequest
  <2>2. Complete(q) = GetTransfer(q)
    BY <2>1, Zenon DEF Complete
  <2>3. Part(q) = GetTransferEthMessagePart(q)
    BY <2>1, Zenon DEF Part
  <2> QED
    BY <2>1, <2>2, <2>3, TransferTells
<1>2. CASE r.type = "Withdraw"
  <2>1. q \in WithdrawRequest /\ q.type = "Withdraw" /\ q.nonce = n
    BY <1>2, RequestTyped DEF WithdrawRequest
  <2>2. Complete(q) = GetWithdrawFromSyncToEthereum(q)
    BY <2>1, Zenon DEF Complete
  <2>3. Part(q) = GetWithdrawEthMessagePart(q)
    BY <2>1, Zenon DEF Part
  <2> QED
    BY <2>1, <2>2, <2>3, WithdrawTells
<1>3. CASE r.type = "ChangePubKey"
  <2>1. q \in ChangePubKeyRequest /\ q.type = "ChangePubKey" /\ q.nonce = n
    BY <1>3, RequestTyped DEF ChangePubKeyRequest
  <2>2. Complete(q) = GetChangePubKey(q)
    BY <2>1, Zenon DEF Complete
  <2>3. Part(q) = GetChangePubKeyEthMessagePart(q)
    BY <2>1, Zenon DEF Part
  <2> QED
    BY <2>1, <2>2, <2>3, ChangePubKeyTells
<1>4. CASE r.type = "ForcedExit"
  <2>1. q \in ForcedExitRequest /\ q.type = "ForcedExit" /\ q.nonce = n
    BY <1>4, RequestTyped DEF ForcedExitRequest
  <2>2. Complete(q) = GetForcedExit(q)
    BY <2>1, Zenon DEF Complete
  <2>3. Part(q) = GetForcedExitEthMessagePart(q)
    BY <2>1, Zenon DEF Part
  <2> QED
    BY <2>1, <2>2, <2>3, ForcedExitTells
<1>5. CASE r.type = "MintNFT"
  <2>1. q \in MintNFTRequest /\ q.type = "MintNFT" /\ q.nonce = n
    BY <1>5, RequestTyped DEF MintNFTRequest
  <2>2. Complete(q) = GetMintNFT(q)
    BY <2>1, Zenon DEF Complete
  <2>3. Part(q) = GetMintNFTEthMessagePart(q)
    BY <2>1, Zenon DEF Part
  <2> QED
    BY <2>1, <2>2, <2>3, MintNFTTells
<1>6. CASE r.type = "WithdrawNFT"
  <2>1. q \in WithdrawNFTRequest /\ q.type = "WithdrawNFT" /\ q.nonce = n
    BY <1>6, RequestTyped DEF WithdrawNFTRequest
  <2>2. Complete(q) = GetWithdrawNFT(q)
    BY <2>1, Zenon DEF Complete
  <2>3. Part(q) = GetWithdrawNFTEthMessagePart(q)
    BY <2>1, Zenon DEF Part
  <2> QED
    BY <2>1, <2>2, <2>3, WithdrawNFTTells
<1>7. CASE r.type = "Swap"
  <2>1. q \in SwapRequest /\ q.type = "Swap" /\ q.nonce = n
    BY <1>7, RequestTyped DEF SwapRequest
  <2>2. Complete(q) = GetSwap(q)
    BY <2>1, Zenon DEF Complete
  <2>3. Part(q) = GetSwapEthSignMessagePart(q)
    BY <2>1, Zenon DEF Part
  <2> QED
    BY <2>1, <2>2, <2>3, SwapTells
<1> QED
  BY <1>0, <1>1, <1>2, <1>3, <1>4, <1>5, <1>6, <1>7

\* An ordinary message: lines that tell what its transactions do, and their first nonce.
Enumerates(m) ==
    \E lines \in Seq(Line) :
        /\ m.message = lines \o NonceLine(m.txs[1].nonce)
        /\ Told(m.txs) = Meaning(lines)
        /\ \A i \in DOMAIN m.txs : m.txs[i].nonce = m.txs[1].nonce + i - 1

\* The message of an order.
Offers(m) ==
    \E order \in Order, name \in DOMAIN TokenId :
        /\ m.txs = <<order>> /\ m.message = OrderMessage(order)
        /\ order.tokenSell = TokenId[name]

\* The message that authorises a change of the key.
Authorises(m) ==
    \E tx \in ChangePubKey :
        /\ m.txs = <<tx>>
        /\ m.message[1][1] \in {"ECDSA", "ECDSALegacyMessage"}
        /\ m.message[1][2] = tx.newPkHash /\ m.message[1][3] = NumberToBytes(tx.nonce)

\* Inductive: whatever the user has signed has one of the three forms.
ShownInv == \A m \in shown : Enumerates(m) \/ Offers(m) \/ Authorises(m)

\* A single transaction is shown by its part and its nonce, if it is shown.
LEMMA PartShown ==
    ASSUME NEW s, NEW part, NEW nonce, NEW token, ShownInv, Tells(part, s.tx, nonce),
           s.tx \in Transactions, Sign(s, Worded(token, part \o NonceLine(nonce)))
    PROVE  ShownInv'
<1> DEFINE message == part \o NonceLine(nonce)
<1>1. part \in Seq(Line) /\ s.tx.nonce = nonce /\ s.tx.nonce \in Nat
  BY DEF Tells, Transactions, Transfer, Withdraw, ChangePubKey, ForcedExit, MintNFT, WithdrawNFT, Order, Swap
<1>2. Told(<<s.tx>>) = Meaning(part)
  <2> DEFINE parts == <<part>>
             txs == <<s.tx>>
  <2>1. /\ parts = [i \in 1 .. 1 |-> parts[i]] /\ txs = [i \in 1 .. 1 |-> txs[i]]
        /\ parts[1] = part /\ txs[1] = s.tx
    OBVIOUS
  <2>2. FlattenSeq(parts) = part
    BY <1>1, FlattenOne
  <2> HIDE DEF parts, txs
  <2>3. 1 \in Nat \ {0} /\ \A i \in 1 .. 1 : Tells(parts[i], txs[i], nonce)
    BY <2>1
  <2>4. Told(txs) = Meaning(FlattenSeq(parts))
    BY <2>1, <2>3, EffectTold
  <2> QED
    BY <2>2, <2>4 DEF txs
<1>3. \A m \in Shown(<<s.tx>>, message) : m.txs = <<s.tx>> /\ m.message = message
  BY DEF Shown
<1>4. DOMAIN <<s.tx>> = {1} /\ <<s.tx>>[1] = s.tx
  OBVIOUS
<1>5. \A m \in Shown(<<s.tx>>, message) : Enumerates(m)
  <2> SUFFICES ASSUME NEW m \in Shown(<<s.tx>>, message)
               PROVE  Enumerates(m)
    OBVIOUS
  <2>1. m.txs = <<s.tx>> /\ m.message = message /\ m.txs[1].nonce = nonce
    BY <1>1, <1>3, <1>4
  <2>2. \A i \in DOMAIN m.txs : m.txs[i].nonce = m.txs[1].nonce + i - 1
    BY <1>1, <1>4, <2>1
  <2> QED
    BY <1>1, <1>2, <2>1, <2>2 DEF Enumerates
<1>6. shown' \subseteq shown \cup Shown(<<s.tx>>, message)
  <2> HIDE DEF message
  <2>1. Shown(<<s.tx>>, Worded(token, message)) \subseteq Shown(<<s.tx>>, message)
    BY DEF Shown, Worded
  <2>2. shown' \subseteq shown \cup Shown(<<s.tx>>, Worded(token, message))
    BY DEF Sign, BothSign, message
  <2> QED
    BY <2>1, <2>2
<1> HIDE DEF message
<1> QED
  BY <1>5, <1>6 DEF ShownInv

\* An order is shown by its message.
LEMMA OrderShown ==
    ASSUME NEW r \in OrderRequest, ShownInv,
           Sign(GetPartialOrder(r), OrderMessage(GetPartialOrder(r).tx))
    PROVE  ShownInv'
<1> DEFINE tx == GetPartialOrder(r).tx
<1>1. tx.type = "Order" /\ tx.tokenSell = TokenId[r.tokenSell] /\ r.tokenSell \in DOMAIN TokenId
  BY DEF GetPartialOrder, SignSyncOrder, OrderRequest
<1>2. tx \in Order
  <2>1. tx \in Transactions
    BY OrderMade DEF WellMade
  <2> HIDE DEF tx
  <2> QED
    BY <1>1, <2>1 DEF Transactions, Transfer, Withdraw, ChangePubKey, ForcedExit, MintNFT, WithdrawNFT, Order, Swap
<1>3. shown' \subseteq shown \cup Shown(<<tx>>, OrderMessage(tx))
  BY DEF Sign, BothSign
<1> HIDE DEF tx
<1>4. \A m \in Shown(<<tx>>, OrderMessage(tx)) : m.txs = <<tx>> /\ m.message = OrderMessage(tx)
  BY DEF Shown
<1>5. \A m \in Shown(<<tx>>, OrderMessage(tx)) : Offers(m)
  BY <1>1, <1>2, <1>4 DEF Offers
<1> QED
  BY <1>3, <1>5 DEF ShownInv

\* A change of the key is shown by what authorises it, alone or in a batch.
LEMMA AuthorisationShown ==
    ASSUME NEW r \in ChangePubKeyRequest, NEW m \in Authorisation(r)
    PROVE  Authorises(m)
<1> DEFINE tx == GetChangePubKey(r).tx
<1>1. tx.type = "ChangePubKey" /\ tx.newPkHash = PubKeyHash /\ tx.nonce = r.nonce
  BY DEF GetChangePubKey, SignSyncChangePubKey
<1>2. tx \in ChangePubKey
  <2>1. tx \in Transactions
    BY ChangePubKeyMade DEF WellMade
  <2> HIDE DEF tx
  <2> QED
    BY <1>1, <2>1 DEF Transactions, Transfer, Withdraw, ChangePubKey, ForcedExit, MintNFT, WithdrawNFT, Order, Swap
<1>3. m.txs = <<tx>> /\ m.message = ChangePubKeyMessage(r) /\ ChangePubKeyMessage(r) # <<>>
  BY DEF Authorisation, Shown
<1> HIDE DEF tx
<1>4. /\ m.message[1][1] \in {"ECDSA", "ECDSALegacyMessage"}
      /\ m.message[1][2] = PubKeyHash /\ m.message[1][3] = NumberToBytes(r.nonce)
  <2> DEFINE new == <<"ECDSA", PubKeyHash, NumberToBytes(r.nonce), NumberToBytes(AccountId),
                      r.batchHash>>
             old == <<"ECDSALegacyMessage", PubKeyHash, NumberToBytes(r.nonce),
                      NumberToBytes(AccountId)>>
  <2>1. /\ new[1] = "ECDSA" /\ new[2] = PubKeyHash /\ new[3] = NumberToBytes(r.nonce)
        /\ old[1] = "ECDSALegacyMessage" /\ old[2] = PubKeyHash
        /\ old[3] = NumberToBytes(r.nonce)
    OBVIOUS
  <2>2. m.message \in {<<new>>, <<old>>}
    BY <1>3 DEF ChangePubKeyMessage
  <2> HIDE DEF new, old
  <2> QED
    BY <2>1, <2>2
<1> QED
  BY <1>1, <1>2, <1>3, <1>4 DEF Authorises

\* A batch is shown by its parts and its first nonce, and by its authorisations.
LEMMA BatchShown ==
    ASSUME NEW batch \in Batches, ShownInv, SignBatch(batch)
    PROVE  ShownInv'
<1> DEFINE n == Len(batch)
           rs == Numbered(batch)
           txs == [i \in DOMAIN rs |-> [j \in DOMAIN rs |-> Complete(rs[j])][i].tx]
           parts == [i \in DOMAIN rs |-> Part(rs[i])]
           message == FlattenSeq(parts) \o NonceLine(rs[1].nonce)
           own == UNION {Authorisation(rs[i]) : i \in {j \in DOMAIN rs : rs[j].type = "ChangePubKey"}}
<1>1. DOMAIN rs # {}
  BY DEF SignBatch
<1>2. n \in Nat \ {0} /\ DOMAIN rs = 1 .. n /\ 1 \in 1 .. n
  BY <1>1, NumberedTyped
<1>3. shown' \subseteq shown \cup Shown(txs, message) \cup own
  <2>1. PICK m \in DOMAIN rs, messages \in {{}, Shown(txs, message)} :
            shown' = shown \cup (messages \cup
                UNION {Authorisation(rs[i]) :
                        i \in {j \in 1 .. m : rs[j].type = "ChangePubKey" /\ MayAuthenticate(rs[j])}})
    BY DEF SignBatch, BothSign
  <2>2. 1 .. m \subseteq DOMAIN rs
    BY <1>2
  <2>3. UNION {Authorisation(rs[i]) :
                i \in {j \in 1 .. m : rs[j].type = "ChangePubKey" /\ MayAuthenticate(rs[j])}}
            \subseteq own
    BY <2>2
  <2> HIDE DEF own
  <2> QED
    BY <2>1, <2>3
<1>4. ASSUME NEW i \in 1 .. n
      PROVE  /\ batch[i] \in Requests /\ batch[i].type # "Order"
             /\ batch[1].nonce + i - 1 \in Nat
             /\ rs[i] = [batch[i] EXCEPT !.nonce = batch[1].nonce + i - 1]
             /\ txs[i] = Complete(rs[i]).tx /\ parts[i] = Part(rs[i])
  BY <1>2, NumberedTyped
<1>5. parts = [i \in 1 .. n |-> parts[i]] /\ txs = [i \in 1 .. n |-> txs[i]]
  BY <1>2
<1>6. DOMAIN txs = 1 .. n
  BY <1>2
<1> HIDE DEF n, rs, txs, parts
<1>7. ASSUME NEW i \in 1 .. n
      PROVE  Tells(parts[i], txs[i], batch[1].nonce + i - 1)
  <2> DEFINE r == batch[i]
             k == batch[1].nonce + i - 1
  <2>1. /\ r \in Requests /\ r.type # "Order" /\ k \in Nat
        /\ txs[i] = Complete([r EXCEPT !.nonce = k]).tx
        /\ parts[i] = Part([r EXCEPT !.nonce = k])
    BY <1>4
  <2> SUFFICES Tells(parts[i], txs[i], k)
    OBVIOUS
  <2> HIDE DEF r, k
  <2>2. Tells(Part([r EXCEPT !.nonce = k]), Complete([r EXCEPT !.nonce = k]).tx, k)
    BY <2>1, NumberedTells
  <2> QED
    BY <2>1, <2>2
<1>8. FlattenSeq(parts) \in Seq(Line) /\ Told(txs) = Meaning(FlattenSeq(parts))
  BY <1>2, <1>5, <1>7, EffectTold
<1>9. /\ rs[1].nonce = txs[1].nonce
      /\ \A i \in 1 .. n : txs[i].nonce = txs[1].nonce + i - 1
  <2>1. batch[1] \in Requests /\ batch[1].nonce + 1 - 1 \in Nat
    BY <1>2, <1>4
  <2>2. "nonce" \in DOMAIN batch[1] /\ batch[1].nonce \in Nat
    BY <2>1, SigningAssumption
    DEF TransferRequest, WithdrawRequest, ChangePubKeyRequest, ForcedExitRequest,
        MintNFTRequest, WithdrawNFTRequest, OrderRequest, SwapRequest
  <2>3. \A i \in 1 .. n : txs[i].nonce = batch[1].nonce + i - 1
    BY <1>7 DEF Tells
  <2>4. txs[1].nonce = batch[1].nonce
    BY <1>2, <2>2, <2>3
  <2>5. rs[1].nonce = batch[1].nonce
    <3>1. rs[1] = [batch[1] EXCEPT !.nonce = batch[1].nonce + 1 - 1]
      BY <1>2, <1>4
    <3> QED
      BY <2>2, <3>1
  <2> QED
    BY <2>3, <2>4, <2>5
<1>10. \A m \in Shown(txs, message) : Enumerates(m)
  <2>1. \A m \in Shown(txs, message) : m.txs = txs /\ m.message = message
    BY DEF Shown
  <2> QED
    BY <1>6, <1>8, <1>9, <2>1 DEF Enumerates
<1>11. \A m \in own : Authorises(m)
  <2> SUFFICES ASSUME NEW m \in own
               PROVE  Authorises(m)
    OBVIOUS
  <2>1. PICK i \in DOMAIN rs : rs[i].type = "ChangePubKey" /\ m \in Authorisation(rs[i])
    OBVIOUS
  <2>2. rs[i] \in ChangePubKeyRequest
    BY <2>1, NumberedKeyChange DEF rs
  <2> QED
    BY <2>1, <2>2, AuthorisationShown
<1> HIDE DEF message, own
<1> QED
  BY <1>3, <1>10, <1>11 DEF ShownInv

\* In every state each message that the user has signed has one of the three forms.
LEMMA MessagesFormed == Spec => []ShownInv
<1>1. Init => ShownInv
  BY DEF Init, ShownInv
<1>2. ShownInv /\ [Next]_vars => ShownInv'
  <2> SUFFICES ASSUME ShownInv, [Next]_vars
               PROVE  ShownInv'
    OBVIOUS
  <2>1. ASSUME NEW r \in Requests, SignTransfer(r)
        PROVE  ShownInv'
    BY <2>1, RequestTyped, TransferMade, TransferTells, PartShown DEF SignTransfer, WellMade
  <2>2. ASSUME NEW r \in Requests, SignWithdraw(r)
        PROVE  ShownInv'
    BY <2>2, RequestTyped, WithdrawMade, WithdrawTells, PartShown DEF SignWithdraw, WellMade
  <2>3. ASSUME NEW r \in Requests, SignSetSigningKey(r)
        PROVE  ShownInv'
    <3>1. r \in ChangePubKeyRequest
      BY <2>3, RequestTyped DEF SignSetSigningKey
    <3>2. shown' = shown \cup Authorisation(r)
      BY <2>3 DEF SignSetSigningKey, BothSign
    <3> QED
      BY <3>1, <3>2, AuthorisationShown DEF ShownInv
  <2>4. ASSUME NEW r \in Requests, SignForcedExit(r)
        PROVE  ShownInv'
    BY <2>4, RequestTyped, ForcedExitMade, ForcedExitTells, PartShown DEF SignForcedExit, WellMade
  <2>5. ASSUME NEW r \in Requests, SignMint(r)
        PROVE  ShownInv'
    BY <2>5, RequestTyped, MintNFTMade, MintNFTTells, PartShown DEF SignMint, WellMade
  <2>6. ASSUME NEW r \in Requests, SignNFTWithdrawal(r)
        PROVE  ShownInv'
    BY <2>6, RequestTyped, WithdrawNFTMade, WithdrawNFTTells, PartShown DEF SignNFTWithdrawal, WellMade
  <2>7. ASSUME NEW r \in Requests, SignOrder(r)
        PROVE  ShownInv'
    BY <2>7, RequestTyped, OrderShown DEF SignOrder
  <2>8. ASSUME NEW r \in Requests, SignSwap(r)
        PROVE  ShownInv'
    BY <2>8, RequestTyped, SwapMade, SwapTells, PartShown DEF SignSwap, WellMade
  <2>9. ASSUME NEW batch \in Batches, SignBatch(batch)
        PROVE  ShownInv'
    BY <2>9, BatchShown
  <2>10. CASE UNCHANGED vars
    BY <2>10 DEF vars, ShownInv
  <2> QED
    BY <2>1, <2>2, <2>3, <2>4, <2>5, <2>6, <2>7, <2>8, <2>9, <2>10 DEF Next
<1> QED
  BY <1>1, <1>2, PTL DEF Spec

\* The word a message begins with.
LEMMA FirstWord ==
    ASSUME NEW m
    PROVE  /\ Enumerates(m) => m.message[1][1] \notin {"ECDSA", "ECDSALegacyMessage", "Order"}
           /\ Offers(m) => m.message[1][1] = "Order"
           /\ Authorises(m) => m.message[1][1] \in {"ECDSA", "ECDSALegacyMessage"}
<1>1. ASSUME Enumerates(m)
      PROVE  m.message[1][1] \notin {"ECDSA", "ECDSALegacyMessage", "Order"}
  <2> DEFINE last == <<"Nonce", m.txs[1].nonce>>
             S == Line \cup {last}
  <2>1. PICK lines \in Seq(Line) : m.message = lines \o <<last>>
    BY <1>1 DEF Enumerates, NonceLine
  <2>2. last[1] = "Nonce"
    OBVIOUS
  <2> HIDE DEF last
  <2>3. lines \in Seq(S) /\ <<last>> \in Seq(S) /\ Len(<<last>>) = 1 /\ <<last>>[1] = last
    OBVIOUS
  <2>4. Len(lines) \in Nat /\ (Len(lines) # 0 => lines[1] \in Line)
    <3>1. Len(lines) \in Nat
      BY LenProperties
    <3>2. Len(lines) # 0 => 1 \in 1 .. Len(lines)
      BY <3>1
    <3> QED
      BY <3>1, <3>2, ElementOfSeq
  <2> HIDE DEF S
  <2>5. m.message[1] = IF Len(lines) = 0 THEN last ELSE lines[1]
    <3>1. \A i \in 1 .. Len(lines) + Len(<<last>>) :
            (lines \o <<last>>)[i] = IF i <= Len(lines) THEN lines[i]
                                     ELSE <<last>>[i - Len(lines)]
      BY <2>3, ConcatProperties, Zenon
    <3>2. 1 \in 1 .. Len(lines) + 1 /\ (1 <= Len(lines) <=> Len(lines) # 0)
      BY <2>4
    <3>3. (lines \o <<last>>)[1] = IF 1 <= Len(lines) THEN lines[1] ELSE <<last>>[1 - Len(lines)]
      BY <2>3, <3>1, <3>2
    <3>4. Len(lines) = 0 => <<last>>[1 - Len(lines)] = last
      BY <2>3
    <3> QED
      BY <2>1, <3>2, <3>3, <3>4
  <2>6. \A line \in Line : line[1] \notin {"ECDSA", "ECDSALegacyMessage", "Order"}
    BY DEF Line
  <2> QED
    BY <2>2, <2>4, <2>5, <2>6
<1>2. ASSUME Offers(m)
      PROVE  m.message[1][1] = "Order"
  <2>1. PICK order : m.message = OrderMessage(order)
    BY <1>2 DEF Offers
  <2> DEFINE one == <<"Order", order.tokenSell, order.tokenBuy,
                      FormatToken(order.tokenSell, order.amount)>>
             two == <<"Ratio", order.sellPrice, order.buyPrice>>
             three == <<"Address", order.recipient>>
             four == <<"Nonce", order.nonce>>
  <2>2. m.message = <<one, two, three>> \o <<four>> /\ one[1] = "Order"
    BY <2>1 DEF OrderMessage, NonceLine
  <2> HIDE DEF one, two, three, four
  <2>3. (<<one, two, three>> \o <<four>>)[1] = one
    OBVIOUS
  <2> QED
    BY <2>2, <2>3
<1>3. ASSUME Authorises(m)
      PROVE  m.message[1][1] \in {"ECDSA", "ECDSALegacyMessage"}
  BY <1>3 DEF Authorises
<1> QED
  BY <1>1, <1>2, <1>3

\* Two ordinary messages with the same lines.
LEMMA SameEnumeration ==
    ASSUME NEW m, NEW n, Enumerates(m), Enumerates(n), m.message = n.message
    PROVE  /\ \A i \in DOMAIN m.txs \cap DOMAIN n.txs : m.txs[i].nonce = n.txs[i].nonce
           /\ Told(m.txs) = Told(n.txs)
<1> DEFINE a == <<"Nonce", m.txs[1].nonce>>
           b == <<"Nonce", n.txs[1].nonce>>
           S == Line \cup {a, b}
<1>1. PICK lines \in Seq(Line) :
        /\ m.message = lines \o <<a>> /\ Told(m.txs) = Meaning(lines)
        /\ \A i \in DOMAIN m.txs : m.txs[i].nonce = m.txs[1].nonce + i - 1
  BY DEF Enumerates, NonceLine
<1>2. PICK others \in Seq(Line) :
        /\ n.message = others \o <<b>> /\ Told(n.txs) = Meaning(others)
        /\ \A i \in DOMAIN n.txs : n.txs[i].nonce = n.txs[1].nonce + i - 1
  BY DEF Enumerates, NonceLine
<1>3. lines \in Seq(S) /\ others \in Seq(S) /\ a \in S /\ b \in S
  OBVIOUS
<1>4. lines = others /\ a = b
  <2> HIDE DEF a, b, S
  <2>1. Append(lines, a) = lines \o <<a>> /\ Append(others, b) = others \o <<b>>
    BY <1>3, AppendIsConcat
  <2>2. Append(lines, a) = Append(others, b)
    BY <1>1, <1>2, <2>1
  <2> QED
    BY <1>3, <2>2, AppendInjective
<1>5. a[2] = m.txs[1].nonce /\ b[2] = n.txs[1].nonce
  OBVIOUS
<1> HIDE DEF a, b
<1> QED
  BY <1>1, <1>2, <1>4, <1>5

\* Without swaps a message tells all that its transactions do.
LEMMA NothingUntold ==
    ASSUME NEW txs, NoSwap(txs)
    PROVE  Told(txs) = Effect(txs)
<1>1. \A i \in DOMAIN txs : Announced(txs[i]) = Deed(txs[i]) \o Cost(txs[i])
  BY DEF NoSwap, Announced
<1>2. [i \in DOMAIN txs |-> Announced(txs[i])] = [i \in DOMAIN txs |-> Deed(txs[i]) \o Cost(txs[i])]
  BY <1>1
<1> QED
  BY <1>2, Zenon DEF Told, Effect

\* Two messages of orders with the same lines.
LEMMA SameOffer ==
    ASSUME NEW m, NEW n, Offers(m), Offers(n), m.message = n.message
    PROVE  /\ \A i \in DOMAIN m.txs \cap DOMAIN n.txs : m.txs[i].nonce = n.txs[i].nonce
           /\ Told(m.txs) = Told(n.txs)
<1>1. PICK s \in Order, v \in DOMAIN TokenId :
        m.txs = <<s>> /\ m.message = OrderMessage(s) /\ s.tokenSell = TokenId[v]
  BY DEF Offers
<1>2. PICK t \in Order, w \in DOMAIN TokenId :
        n.txs = <<t>> /\ n.message = OrderMessage(t) /\ t.tokenSell = TokenId[w]
  BY DEF Offers
<1>3. OrderMessage(s) = OrderMessage(t)
  BY <1>1, <1>2
<1>4. /\ s.tokenSell = t.tokenSell /\ s.tokenBuy = t.tokenBuy
      /\ FormatToken(s.tokenSell, s.amount) = FormatToken(t.tokenSell, t.amount)
      /\ s.sellPrice = t.sellPrice /\ s.buyPrice = t.buyPrice
      /\ s.recipient = t.recipient /\ s.nonce = t.nonce
  BY <1>3 DEF OrderMessage, NonceLine
<1>5. s.amount = t.amount
  <2>1. s.amount \in Nat /\ t.amount \in Nat
    BY DEF Order
  <2>2. /\ FormatToken(TokenId[v], s.amount) \div Factor(TokenId[v]) = s.amount
        /\ FormatToken(TokenId[w], t.amount) \div Factor(TokenId[w]) = t.amount
    BY <2>1, AmountReadBack
  <2> QED
    BY <1>1, <1>2, <1>4, <2>2
<1>6. s.type = "Order" /\ t.type = "Order"
  BY DEF Order
<1>7. Announced(s) = Announced(t)
  <2>1. Deed(s) = Deed(t) /\ Cost(s) = Cost(t)
    BY <1>4, <1>5, <1>6 DEF Deed, Cost
  <2> QED
    BY <1>6, <2>1 DEF Announced
<1>8. DOMAIN <<s>> = {1} /\ DOMAIN <<t>> = {1} /\ <<s>>[1] = s /\ <<t>>[1] = t
  OBVIOUS
<1>9. Told(<<s>>) = Told(<<t>>)
  <2>1. [i \in DOMAIN <<s>> |-> Announced(<<s>>[i])] = [i \in DOMAIN <<t>> |-> Announced(<<t>>[i])]
    BY <1>7, <1>8
  <2> QED
    BY <2>1, Zenon DEF Told
<1> QED
  BY <1>1, <1>2, <1>4, <1>8, <1>9

\* Two authorisations with the same line.
LEMMA SameAuthorisation ==
    ASSUME NEW m, NEW n, Authorises(m), Authorises(n), m.message = n.message
    PROVE  /\ NumberToBytes(m.txs[1].nonce) = NumberToBytes(n.txs[1].nonce)
           /\ Deed(m.txs[1]) = Deed(n.txs[1])
<1>1. PICK s \in ChangePubKey :
        /\ m.txs = <<s>> /\ m.message[1][2] = s.newPkHash
        /\ m.message[1][3] = NumberToBytes(s.nonce)
  BY DEF Authorises
<1>2. PICK t \in ChangePubKey :
        /\ n.txs = <<t>> /\ n.message[1][2] = t.newPkHash
        /\ n.message[1][3] = NumberToBytes(t.nonce)
  BY DEF Authorises
<1>3. m.txs[1] = s /\ n.txs[1] = t
  BY <1>1, <1>2
<1>4. s.type = "ChangePubKey" /\ t.type = "ChangePubKey"
  BY DEF ChangePubKey
<1>5. s.newPkHash = t.newPkHash /\ NumberToBytes(s.nonce) = NumberToBytes(t.nonce)
  BY <1>1, <1>2
<1>6. Deed(s) = Deed(t)
  BY <1>4, <1>5 DEF Deed
<1> QED
  BY <1>3, <1>5, <1>6

\* What the user signs determines what it tells of: the nonces, and what is done and paid
\* but for what a swap exchanges.  No message without a swap, for one transaction or for a
\* batch of any length, is a consent to anything else than was announced; an authorisation
\* is none to another key.
THEOREM MessageDeterminesEffect == Spec => []SameMessageSameEffect
<1>1. ASSUME ShownInv
      PROVE  SameMessageSameEffect
  <2> DEFINE Alike(m, n) ==
                /\ \A i \in DOMAIN m.txs \cap DOMAIN n.txs : m.txs[i].nonce = n.txs[i].nonce
                /\ Told(m.txs) = Told(n.txs)
                /\ NoSwap(m.txs) /\ NoSwap(n.txs) => Effect(m.txs) = Effect(n.txs)
  <2> SUFFICES ASSUME NEW m \in shown, NEW n \in shown, m.message = n.message
               PROVE  IF Authorising(m)
                      THEN /\ NumberToBytes(m.txs[1].nonce) = NumberToBytes(n.txs[1].nonce)
                           /\ Deed(m.txs[1]) = Deed(n.txs[1])
                      ELSE Alike(m, n)
    BY DEF SameMessageSameEffect
  <2>1. m.message[1][1] = n.message[1][1]
    OBVIOUS
  <2>2. CASE Enumerates(m)
    <3>1. Enumerates(n) /\ ~Authorising(m)
      BY <1>1, <2>1, <2>2, FirstWord DEF ShownInv, Authorising
    <3> QED
      BY <2>2, <3>1, SameEnumeration, NothingUntold
  <2>3. CASE Offers(m)
    <3>1. Offers(n) /\ ~Authorising(m)
      BY <1>1, <2>1, <2>3, FirstWord DEF ShownInv, Authorising
    <3> QED
      BY <2>3, <3>1, SameOffer, NothingUntold
  <2>4. CASE Authorises(m)
    <3>1. Authorises(n) /\ Authorising(m)
      BY <1>1, <2>1, <2>4, FirstWord DEF ShownInv, Authorising
    <3> QED
      BY <2>4, <3>1, SameAuthorisation
  <2> QED
    BY <1>1, <2>2, <2>3, <2>4 DEF ShownInv
<1> QED
  BY <1>1, MessagesFormed, PTL
=============================================================================
