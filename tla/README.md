# Verification of the RIF Rollup JS SDK

The SDK (`src/src`, TypeScript) is the client side of a zero-knowledge rollup on Rootstock. It keeps little state
of its own, but what it keeps is shared by asynchronous calls that run between the program, the rollup server and
the Rootstock network, each of which may fail or move on between two `await`s. The models here are about that:
what may happen in between, and whether the SDK keeps its promises all the same.

Contents

1. The system and its components
2. How the models relate to the code
3. Modules
4. Runs, bounds and what they show
5. Fairness
6. Proofs
7. Where the code disagrees with its documentation
8. What is not modelled

`PROJECT.json` lists the components, runs, mutants, hazards, findings and theorems, and maps every definition to
the source lines it stands for.

## 1. The system and its components

| Component | State | Operations | Talks to |
|---|---|---|---|
| Transaction handle (`operations.ts`, `Transaction`) | `state`: Sent, Committed, Verified, Failed; `error` | `awaitReceipt`, `awaitVerifyReceipt` | provider (`notifyTransaction`) |
| Priority operation handle (`operations.ts`, `RootstockOperation`) | `state`, also Mined; `error`; `priorityOpId` | `awaitRootstockTxCommit`, `awaitReceipt`, `awaitVerifyReceipt` | Rootstock (`wait`), provider (`notifyPriorityOp`) |
| Status polling (`rest-provider.ts`, `provider.ts`) | none but each loop's position | `notifyTransaction`, `notifyPriorityOp`, `getTxReceipt`, `getPriorityOpStatus` | server |
| WebSocket transport (`transport.ts`, `provider.ts`) | subscriptions, each with its callback | `request`, `subscribe`, `unsubscribe` | server |
| Wallet (`wallet.ts`, `abstract-wallet.ts`) | `accountId`; nonces and fees in the objects that programs pass | `syncTransfer`, `withdrawFromSyncToRootstock`, `syncForcedExit`, `syncSwap`, `mintNFT`, `withdrawNFT`, `syncTransferNFT`, `syncMultiTransfer`, `setSigningKey` | server, signers, handles |
| Remote wallet (`remote-wallet.ts`) | as above, but transactions are completed and signed elsewhere | the same | external signer, server |
| Batch builder (`batch-builder.ts`, `wallet.ts`) | the list of transactions, their nonces and fees | the `add` methods, `build`, `setFeeToken` | wallet, server |
| Signing key (`abstract-wallet.ts`, `wallet.ts`) | none; the nonce for which a key is authorised is on Rootstock | `onchainAuthSigningKey`, `isOnchainAuthSigningKeySet`, `setSigningKey` | Rootstock, server |
| Rootstock operations (`abstract-wallet.ts`) | nonce handed from an approval to a deposit; the account id once known | `approveERC20TokenDeposits`, `depositToSyncFromRootstock`, `emergencyWithdraw`, `emergencyWithdrawNFT` | Rootstock |
| Pending balances (`withdraw-helpers.ts`) | amounts read in advance | `withdrawPendingBalance`, `withdrawPendingBalances` | Rootstock |
| Amount packing (`utils.ts`) | none | `integerToFloat(Up)`, `floatToInteger`, the `closest...` and `is...Packable` functions | signer, programs |
| Token list (`rest-provider.ts`, `provider-interface.ts`, `utils.ts`) | cached token set | `getTokens`, `updateTokenSet`, `TokenSet` | server |
| Serialization, messages, signers (`utils.ts`, `eth-message-signer.ts`, `signer.ts`) | keys | byte layouts, texts, signatures | wallet |
| Crypto loader (`crypto.ts`) | whether the module is loaded | `loadRifRollupCrypto` | all signers |

What makes each of them hard, and what makes it correct:

* **Handles.** Any number of calls may be in flight on one handle, all reading and writing the same `state` across
  awaits. A Verified handle, and every `awaitVerifyReceipt` that resolves, must mean a block that is final on
  Rootstock; Failed must mean what the rollup rejected; and every call must settle.
* **Polling.** A loop that has seen its condition asks again for the receipt it returns: the block may have moved,
  or have been reverted, in between. A rejected transaction never becomes "finalized", so the loop has to ask about
  its block instead.
* **Wallet.** The nonce is read and used in different turns; a failed call leaves the nonce, and sometimes the fee,
  in the program's object. A retry must not pay twice, and a fee that was left out must be the server's.
* **Batch builder.** `build` spreads over several awaits on one shared list that outlives a failed build. Numbers,
  fees and total must agree in what the user is asked to sign.
* **Rootstock operations.** The deposit needs its approval mined before it, on an account that others may use.
  Pending balances change between the question and the withdrawal.
* **Signing key.** The authorisation on Rootstock is for one nonce, read before the transaction that sends it is even
  mined; `setSigningKey` reads the nonce again, and the current key only after it has signed.
* **Packing.** The largest mantissa and the smallest exponent meet at boundaries where rounding goes wrong.
* **Serialization and messages.** Seven kinds of transaction, three kinds of signer and two ways to sign (alone or in
  a batch) are serialized and put into words by separate pieces of code. No two transactions may share the bytes that
  are signed, and no two different things the message that the user is shown.

## 2. How the models relate to the code

JavaScript runs to completion between two awaits, so an action is what happens from one answer to the next request.
Every action contains all assignments, early returns and throws of that stretch, in the methods called from it too.
A request is answered from the server's state at the moment the server answers; when the program gets to hear of it
is the next step of the call, before or after those of other calls. `pc` names the request a call is suspended on.
In Submission, BatchBuilder and RootstockCalls the answer and the code that runs on it are one step, which loses
nothing where the code that runs on it only reads and writes state of its own call, or of the one build in
flight, and the answer is not compared with anything that could change in between.

An await that can neither change state nor be told apart by a property (gas prices, estimates, chain ids, account
ids, signatures) is no step of its own; that it may fail is part of `Fail`. Tokens, addresses and payloads are model
values or absent. Amounts and fees are small numbers, or the three words "unset", "zero" and "quoted" in Submission.

The server, the Rootstock network and ethers are not part of the repository. They are modelled from what the code
expects of them, in definitions marked external: `RollupLedger` (where an operation stands in the rollup),
`RootstockAccount` (an account on Rootstock) and the server steps of Submission. What is assumed of them:

* the server answers from one consistent state per request; a block that is not final may be reverted; a final one
  never is;
* the server executes a transaction only with the account's current nonce, rejects an older one and an on-chain
  change of the key that is not authorised for its nonce, and knows a transaction it has received twice for the same;
  a batch is executed as one and uses as many nonces as it has transactions;
* an external signer completes a transaction with the committed nonce and the fee the server asks for;
* a subscription is answered with the receipt that ends the wait, or never;
* Rootstock mines the transactions of an account in the order of their nonces, never drops one, and does not replace
  a pending transaction by another at a higher price; `ethTxOptions` leave the nonce alone.

Some bounds are in the guards of actions and have names: `MaxReverts`, `MaxFailures` (calls that fail), `MaxForeign`
(what other programs do on the account), `MaxAuths` (on-chain authorisations), `MaxTxs` and `MaxNonce` (of a batch),
`MaxCredits` (pending balances), `MaxSignings`.

## 3. Modules

| Module | Models |
|---|---|
| `RollupLedger` | one operation on the server: mempool, block, commit, finality, revert; what `tx_info`, `txStatus` and `blockByPosition` answer |
| `ProviderNotify` | the polling loops of both providers, the receipts read after them, and subscriptions over WebSocket |
| `HandleCalls` | what the two handles share: calls in flight on one `state`, how a promise settles, a request that fails |
| `TxTracking` | `Transaction`, composed of the three above |
| `OpTracking` | `RootstockOperation`, likewise, with the Rootstock transaction before it |
| `AwaitContract` | abstract: how a call may settle according to `docs/utils/README.md`, without handles or polling |
| `Submission` | every operation of `Wallet` and `RemoteWallet` that submits to the server, alone or as a batch, with its retries, and the authorisation of keys on Rootstock |
| `BatchBuilder` | the builder, `build`, `setFeeToken`, and `processBatchBuilderTransactions` of both wallets |
| `RootstockAccount` | external: mempool, nonces, allowance, pending balances of an account |
| `RootstockCalls` | approvals, deposits, emergency withdrawals and withdrawals of pending balances |
| `Packing` | the floating-point representation of amounts and fees |
| `Serialization` | the bytes of every kind of transaction that the rollup key signs |
| `Signing` | how the wallet completes what the program asks for, has it signed with the rollup key, and words it for the user |
| `TxTracking_proofs`, `OpTracking_proofs`, `Submission_proofs`, `BatchBuilder_proofs`, `RootstockCalls_proofs`, `Packing_proofs` | theorems about the module they are named after |
| `Signing_proofs` | theorems about `Signing` and `Serialization` |
| `SumLemmas` | lemmas about sums over finite sets and about least numbers, on which four of these rest |
| `MC*` | small instances for TLC |

`ProviderNotify` EXTENDS `RollupLedger`, `HandleCalls` extends it, and both handle modules extend `HandleCalls`: a
handle, the provider and the server share one state, and a step of each leaves the others' alone. `TxTracking`
implements `AwaitContract` through `promise[c] <- "none"` before the call and `outcome[c]` after it.
`RootstockCalls` extends `RootstockAccount`, `Signing` extends `Serialization`, which takes its amounts from an
instance of `Packing`.

Operators whose comment starts with "Mutant:" are no part of the model. Each is a plausible slip in the definition
after it and shows, put in its place, that the properties can fail.

**ProviderNotify.** The variable `provider` is chosen in `Init` and never changes: "Rest", "HTTP" or "WS". Over
WebSocket a call waits for the acknowledgement of its subscription (`Subscribe`), and then for the server to call
back (`SubscriptionEvent`). The promise that `Provider.notifyTransaction` and `notifyPriorityOp` return has no reject
path, so a request that fails and a socket that closes are `SubscriptionLost`: the call stays at "lost" for good.

**TxTracking.** `Call(c, m)` is a method up to its first await, `ResumeCommit` and `ResumeVerify` what follows
`notifyTransaction`. Note that `awaitReceipt` does not look at `state` after its await, as in the code: a late answer
may take a Verified handle back to Committed. That is allowed by the properties where several calls are in flight and
shown not to hurt any caller.

**OpTracking.** `awaitVerifyReceipt` runs `awaitReceipt`, which runs `awaitRootstockTxCommit`; the continuations of
all three follow one another without another answer between them and are one action. `ResumeMined` sets Mined
whatever the state has become. A transaction that is mined without a priority id ("unlogged") fails the call and
leaves the handle Sent. `WaitFails` is `wait()` giving up for any other reason (a request to the Rootstock node fails,
the transaction is replaced): as long as the call waits, and without a change of the handle.

**Submission.** A request is the object a program passes, with the nonce and the fee the calls write into it; a call
is one attempt. Requests come in four kinds:

* `Transfers` stand for all single operations of `Wallet`: nonce and fee are asked for if missing, and stay in the
  object.
* `KeyChanges`, those of them that are authorised on Rootstock in `OnchainKeyChanges`: `setSigningKey` writes a fee of
  0 before it asks for the fee, and compares keys after it has signed.
* `Batches` (`syncMultiTransfer`, and in `NFTTransfers` `syncTransferNFT`) take the first nonce anew at each attempt.
* `RemoteRequests`, any operation of `RemoteWallet`, leave nonce and fee to the external signer, each time anew.

`Renumbered` are the last two: what a retry of them signs is another transaction. A call that fails after "submit"
fails although the server has the transaction. `AuthCall` to `AuthFails` are `onchainAuthSigningKey`, which waits for
the current key, the nonce and the mining, on which other calls do not wait. `outOfTurn` and `authorised` are
history: they say whether the program has ever made a call before it saw what its earlier ones had submitted
executed, or an on-chain change of the key without having waited for the authorisation.

**BatchBuilder.** `txs` is the builder's list, which `build` changes in place: the transfer that pays the fee is
pushed before the fee is known, and nonces are assigned one transaction at a time, or all at once by a `RemoteWallet`
(`wallet` says which it is, for good). A failed build undoes nothing.

**RootstockCalls.** A call prepares one transaction, perhaps with an approval before it. Only the deposit after an
approval brings a nonce of its own; all other nonces are ethers' ("count"). A withdrawal without amounts asks for all
balances at once and waits for every answer; an amount that is the number 0 counts as no amount. An emergency
withdrawal asks for the account id unless it is given or known, and throws if there is none or it is 0.

**Packing.** Bytes and bits are sequences. The code asks for 5 bits of exponent and 35 or 11 of mantissa; the widths
are parameters, so that the numbers fit TLC's integers. `reverseBits` reverses bytes only: the array in which it
reverses bits is dropped, which is what makes reading back work.

**Serialization.** Every field has its place and its width, so the bytes of a transaction are the tuple of what its
fields spell: a number modulo `Word`, a packed amount, or an address, key hash or content hash as it is.
`rescueHashOrders`, which hashes the two orders of a swap, is the pair of them: free of collisions.
`Serializable` collects what the functions throw for.

**Signing.** Each `Get...` operator is the method of that name: it fills in account id, address, timestamps (a missing
or zero `validUntil` becomes `MaxTimestamp`), and yields the transaction with its bytes. The `Sign...` actions add to
`signed` what the rollup key signs and to `shown` what the user signs: the message, a sequence of lines, a line the
tuple of what it says, with the transactions it was made for. The rollup key signs first, and a call may end between
the two signatures: the user refuses, or the token has no symbol (`Worded`). A change of the key is the other way
round: the user authorises it first (`Authorisation`), with or without the hash of a batch (`batchHash`). `ethSigner`
tells the ordinary signer from the two that cannot sign messages (CREATE2 and `No2FA`), whose signatures are zeros and
to whom nothing is shown. `SignBatch` numbers the transactions and signs one after another as far as nothing throws;
if it gets to the end, one message words them all. Nonces are given here, since where
they come from is Submission's subject.

## 4. Runs, bounds and what they show

| Run | Instance | Shows |
|---|---|---|
| `Tx` | two calls in flight on a `Transaction`, each transport, executed or rejected, one revert, requests that fail and subscriptions that are lost; fairness | `StateAgreesWithLedger`: with no reverts, Failed only if rejected, Committed and Verified only if executed. `VerifiedIsFinal`, `VerifyReceiptIsFinal` in spite of the second read. `StateAdvances`: nothing leaves Failed. `ImplementsContract`: every call settles as documented. `EveryCallSettles` |
| `TxReceiptDoc` | two calls, one after the other | violation, see 7 |
| `Op` | two calls in flight on a priority operation, each transport, one revert, a Rootstock transaction mined, reverted or mined without a priority id, a `wait()` that gives up; fairness | `VerifyResolvesFinal`: no call resolves early because another one moved the handle. `AsksWithPriorityId`. `VerifiedIsFinal`, `StateAgreesWithLedger` with both chains, `StateAdvances` step by step, `EveryCallSettles` |
| `Submit` | a transfer, a batch of two, an operation of a `RemoteWallet`, two changes of the key of which one on-chain; three calls, one failure, one authorisation, one operation of another program | `PaysOnce`: a retry never pays twice where the nonce is kept, even if the first attempt succeeded unseen; a batch and a `RemoteWallet` may, and only after an attempt failed that the server had. `NeverRejected` and `KeyChangedOnce` for programs that wait. `TransferFeeIsQuoted` |
| `SubmitKeyFee` | one change of the key, two attempts | violation, see 7 |
| `NFTNonce` | one `syncTransferNFT` with a nonce | violation, see 7 |
| `Batch` | a builder of either wallet with up to three transactions in two tokens, any number of builds one after the other, each failing anywhere | `Numbered`, `FeesAccounted`, `LastPaysForAll` of the batch the user is asked to sign |
| `BatchSigned` | a signed ChangePubKey in the batch | violation, see 7 |
| `Rootstock` | two calls of any kind at once, two owners, another program on the account, two credits, one failure | `ApprovedDepositSucceeds`: a deposit with its own approval is never reverted. `WithdrawalOfAllSucceeds`: a withdrawal of all is reverted only by another one |
| `RootstockUnlocked` | three calls | violation, see 7 |
| `Packing` | exponent of 2 bits, mantissa of 14, base 10; numbers made of the digits 0, 3, 8, 9 and around 16383 * 10^e, up to the largest | `ClosestRoundsDown`, `ClosestRoundsUp`: two exponents, or one, are enough to find the nearest. `PackableIffRepresentable` |
| `Signing` | any two signings, by each signer, out of requests of every kind and those that differ from one in one argument, and out of batches of one or two, any of which may break off (84,815 states) | `SameBytesSameTransaction`: two transactions with the same bytes are the same but for what is cut off their nonces and times. `SameMessageSameEffect`: messages with the same lines go with transactions that have the same nonces at the same places and of which the same deeds and costs are told, which without swaps is all they do; authorisations with the same lines are for the same key and four bytes of the nonce |

Why the bounds are enough. A call on a handle has one pending request, and its continuation reads `state` and its own
answer: with two calls one acts on what the other has changed, before or after it settles, or finds the handle where
the other has left it. One revert suffices for what was seen to be undone once; the proofs of section 6 do without
these bounds, except that agreement of the handle with the ledger is stated with no reverts. In Submission two attempts
at one request and a third call beside them give every order of a failure, a retry and a success of something
else; a failure that hides a success is one failure. The batch of two is the least that takes more than one nonce.
The transfer and the remote operation stand for all of their kind, since requests of one kind have only the account in
common, which the other program moves as well. The two changes of the key are what `KeyChangedOnce` compares. Three
transactions in a batch are one that was there, one that pays the fee of a failed build and one that pays that of the
next. In RootstockCalls a call sends two transactions at most, so that two calls and one foreign transaction give every
order of three nonces. Packing looks at neighbouring exponents, and two bits of exponent have three pairs of them; two
bytes are what it takes for the order of bytes to matter. Signing compares two signings at a time; what it could
confuse differs in one field or in the order of two lines, and the requests contain, for each field, two values, the
missing one, and one that does not fit its width (`Word` is 16, a packed amount has a mantissa of six bits).

Symmetry is used only in runs without liveness properties, among calls, owners or tokens that no definition tells
apart. Deadlock is not checked, since a program stops when its calls have settled.

`NeverRejected`, `KeyChangedOnce` and `StateAdvances` speak of programs that wait for one operation before they make
the next, as the documentation asks them to (`docs/accounts/README.md`, "Wallet has nonce associated with it"); for
the others the models have the interleavings but no such promise is made. The first two also require that nothing
fails, that nobody else uses the account and that no nonce is given (`Undisturbed`): each of these may indeed have
a transaction rejected.

## 5. Fairness

Only `EveryCallSettles` needs fairness, in `FairSpec` of both handles. A call that is suspended and whose answer lets
it go on does go on (weak fairness per call): the event loop drops no continuation, and the polling loops have no
exit but their answers; a subscription that is not lost is called back. The server is assumed to go on including,
committing and finalizing, but neither to revert nor to fail requests. Rootstock is assumed to mine what it was sent,
successfully or not. Without the latter two a call may indeed wait for ever: the SDK has no timeout. A subscription
that is lost is excepted in the property itself: nothing in the code ends that wait, and nothing is assumed to.

## 6. Proofs

All theorems hold for every set of calls, requests or transactions and every value of the bounds; they assume only
the named assumptions on constants that the modules state, and what is said below. No constant is assumed to be finite:
the sets that sums range over are the places of a list, the digits of a number or the transactions of an account, and
finite for that reason. Every invariant and every action property of a passing run is proved, and so is the
refinement; what is left to TLC is at the end of this section.

**TxTracking.** `IInv` of `TxTracking`:

* `PendingInv`: a call that has not settled has no outcome.
* `FinalityInv`: a call that was after the verification and has got past its loop ("reread", "receipt", "block",
  "answered") did so with a final block, and finality is never undone; with it the two properties that follow.
* `VerdictInv`, only with no reverts: past its loop the operation is in a block with a verdict, what a call was
  answered agrees with it, and a call asks for the verification only of a success.

`VerifiedIsFinal` alone is not inductive: from a state in which a call holds an answer that nothing backs, the next
step would break it. `InductiveInvariant` proves `Spec => []IInv`, action by action; `TypeCorrect`,
`VerifiedHandleIsFinal`, `VerifyReceiptFinal` and `HandleAgreesWithLedger` are the properties of the run, and
`KeepsContract` is the refinement: initial states are initial states of `AwaitContract`, every step is one of its
steps or a stutter, for any number of reverts and every transport.

`StateOnlyAdvances` is about a program that awaits each call. The state a call reads at its end is not the one it read
at its beginning, so that the property of one step needs an invariant across steps: `TurnInv` (`TurnsAreTaken`) says
that with one call in flight, what it waits for fits what the handle says, and that nobody waits for a verification
of a handle that is Sent, even with several.

**OpTracking.** Along the same argument, `PendingInv` and `FinalityInv`; `InclusionInv`, with no reverts, that a call
past its loop saw the operation in a block, so that no handle fails; and `MinedInv`: nothing but the mining takes the
handle out of Sent, and the priority id is known from then on. `VerifyIsFinal`, `VerifiedHandleIsFinal`,
`RequestsHavePriorityId` and `HandleAgreesWithLedger` follow. That `awaitVerifyReceipt` resolves without a receipt
only for a final operation rests on `VerifiedIsFinal`, and that on `FinalityInv`. `StateOnlyAdvances` rests on a
`TurnInv` of this module: with one call in flight, what it waits for is the next state of the handle.

**Submission.** `IInv` of `Submission`: a request has at most one live attempt (`OneAttempt`); between its awaits an
attempt is at the stage its object says (`StageInv`); every transaction ever received that is not `Renumbered` has the
nonce its object got first (`NonceKept`); what the server has, it has from a call that has got as far (`FromCalls`);
the server executes a nonce once (`ExecutedOnce`). `RequestPaysOnce` follows: two executed transactions of one request
that keeps its nonce have one nonce, hence are one; of two of a batch or a `RemoteWallet` each came from a call, of
which only one can be other than failed. `TypeCorrect` goes with it, since a transaction is well-typed only because a
call signs after it has a nonce. `TransfersPayTheQuote` adds `FeeInv`: the fee of a transfer is written by nothing but
the server's answer, and before it is signed.

`WaitingIsNeverRejected` and `WaitingChangesKeyOnce` depend on the whole history of a program that waits, which
`TurnInv` sums up: as long as the program is `Undisturbed`, at most one of its calls is live and at most one
transaction or authorisation on its way (`OneAtATime`); what that call has asked for, or that transaction carries, is
the account's present nonce (`CallInOrder`, `TxInOrder`), unless the call is about to find that the key is set; an
object has a nonce only if it was tried, and a try fails only at the comparison of keys (`ObjectsTried`); and a change
of the key that is executed leaves the key set (`KeyPaidOnce`). The two properties are its conclusions, and neither is
inductive without the rest: a rejection is due to a nonce that was asked for several steps before.

**BatchBuilder.** `BuildInv`: from the answer about the fee on, the list as it stands pays for a batch of its own
length and is what was totalled (`Charged`); what is processed so far are its first transactions as they stand,
numbered from the first nonce (`ProcessedInv`). `BatchIsNumbered`, `TotalIsWhatIsPaid` and `LastPaysTheQuote` follow,
for lists of any length. They assume `OneAtATime`, that there is one build: a program that starts a second one while
the first is in flight shares its list with it, and then they need not hold. `TypeCorrect` does without it: `TypeInv`
says, for any number of builds that share the list, that a build which has begun has a list that is not empty, that
the transaction whose fee it waits for is in it, and that a build which is to sign another has not come to its end.

**RootstockCalls.** `IInv` of `RootstockCalls`: the mempool holds the nonces from the next one on, each once
(`MempoolInv`); a call that brings an approval is a deposit, and once the approval is sent the deposit's nonce is
`Covered` (`DraftInv`), as it is when the deposit is in the mempool (`SentInv`): the approval stands right before it
in the mempool, or has just been mined and its allowance is there, or the nonce has gone to another transaction and
the deposit will be refused. Mining can only take the approval first and then whatever has the next nonce, so that no
other transaction can use up or replace the allowance in between. `ApprovedDepositNeverReverts` follows. The proof
needs the assumptions of section 2 about the order of nonces, and none about gas prices or other programs.

`AllIsThere` is `WithdrawalOfAllSucceeds`, from `WithdrawInv`: every amount that a withdrawal of all names, while it
is prepared as well as in the mempool, is pending for its owner still, or another withdrawal has taken from that owner
(`Backed`, `TakenFrom`). If its owners differ, what it takes from each is the one amount it names, and there. If they
do not, the sum may be more than is pending; it is executed only if it is not, so that pending balances stay natural
in either case, which `TypeCorrect` needs. Its `TypeInv` has, besides, that a call that may be sent has numbers for
its amounts and its nonce (`Prepared`), and a withdrawal an owner for each amount (`Formed`).

**Sums.** The models take sums from the community modules, where they are recursive over sets. `SumLemmas` proves what
they need: what a sum over the empty set is, how one element is taken out of it, that it has the type of its terms.
The induction is done by hand, since the library's induction theorems cannot be used: a finite set for which a fact
failed would have a least such subset, from which an element can be taken; numbers likewise.

**Packing.** For any widths, in particular the code's 5 and 35 or 11 bits with base 10, whose numbers TLC does not
reach: `PackingRoundsDown` and `PackingRoundsUp` say that the nearest representable amount below, or above, is found,
though the code looks at two exponents, or at one; `PackableMeansRepresentable` that an amount passes the check if and
only if it has a representation. The argument: bits and bytes read back give the number, in spite of the reversal of
bytes only; a mantissa fits with all exponents from some least one on; and the scale of an exponent is a multiple of
every smaller one, so that what a larger exponent can represent, the least can too if it fits, and the one before it
if it does not. `TypeCorrect` says that what is packed has the width asked for. That there is an exponent at all, that
the number is not too big, is what the code throws for otherwise (`TooBig`).

**Serialization and Signing.** `BytesDetermineTransaction`: two transactions that can be serialized and that have the
same bytes are the same once nonces and timestamps are cut to four bytes, also those of the orders in a swap (`Cut`).
The code cuts them silently, and the theorem says that nothing else is lost. The first byte decides the type; then
field by field, an account or token id is what its bytes spell because it is checked to be below `Word`, and an amount
because packing it and reading it back gave the amount when it was checked. From it, `NoSignatureTwice`, which says so
of whatever the rollup key has signed in any state. The invariant is that everything signed was made by one of the
`Get` operators, which yield transactions with their bytes (`SignedInv`). Both assume that `rescueHashOrders` is free
of collisions.

`MessageDeterminesEffect` is `SameMessageSameEffect`, for batches of any length. A line has a meaning, what it says is
done or paid, to whom and in which token (`Says`); the meaning of a message is the sequence of those of its lines, and
every method that words a transaction words what it does and costs (the lemmas whose names end in `Tells`), except that
nothing is said of what a swap exchanges: `Announced` and `Told` leave it out, and the property promises the whole
`Effect` only where there is no swap. The invariant
`ShownInv` says that whatever the user has signed has one of three forms: the lines of a batch, one transaction after
the other, and its first nonce, from which the others are counted (`Enumerates`); the message of an order; or that of
an authorisation of a key. The forms are told apart by their first words. Equal lines have equal meanings, so that it
does not matter where in a message one transaction ends and the next begins. An amount is worded in whole units of its
token; it can be read back because each unit divides `MaxUnit` (for the code: powers of ten).

Model-checked only:

* `EveryCallSettles` of both handles: liveness under fairness is out of the prover's reach;
* the five violations of section 7, each of which is a behaviour;
* that the operators marked "Mutant:" break the properties.

## 7. Where the code disagrees with its documentation

* `TxReceiptDoc`: `awaitReceipt` of a handle that has left Sent resolves with `undefined`, though its type and the
  documentation promise a receipt.
* `SubmitKeyFee`: `setSigningKey` leaves a fee of 0 in the program's object if its fee request fails; called again,
  it signs with that fee instead of asking.
* `NFTNonce`: the nonce a program gives to `syncTransferNFT` has no effect, since the method resolves it and then calls
  `syncMultiTransfer` without it.
* `BatchSigned`: a ChangePubKey that was signed before it is added to a batch is given the batch's next nonce, under
  a signature for another.
* `RootstockUnlocked`: a deposit with `approveDepositAmountForERC20` approves its own amount over the unlimited
  allowance of a token that was unlocked, which the documentation calls approved forever; the next deposit without
  approval is reverted.

Smaller things the models contain without a property, as nothing says what is meant: the number 0 as an amount of
`withdrawPendingBalance` withdraws all; `withdrawPendingBalances` with a pair given twice is reverted as a whole; the
"closest packable" amount is the closest below, also where one above is closer, and the example in the comment at
`utils.ts:283` (1000000003 => 1000000000) is false for amounts, since a mantissa of 35 bits holds 1000000003; a nonce
in a program's object outlives the call that failed, so that a retry after another operation is rejected (and, for the
same reason, never pays twice); a retried batch, or a retried operation of a `RemoteWallet`, pays twice if the answer
to the first attempt was lost; an account with id 0 is taken for none; the message that authorises a change of the key
does not name its fee; that of a swap names its fee and nonce only (`eth-message-signer.ts:77-91`), and that of a
limit order no amount (102-103), so that of a swap of limit orders no signed message tells how much is exchanged; a
transaction in a batch that does and costs nothing is in no line, and the same message may then go with a batch in
which later transactions have other nonces; a wait over WebSocket whose subscription is lost never ends.

## 8. What is not modelled

* HTTP transport and plain getters: one request, one answer, whose failure the callers' modules have.
* What becomes of two WebSocket requests in flight, which `transport.ts` sends under the same id 1: the library that
  matches answers to them is not in the repository. Nor does unsubscribing change anything a caller sees.
* The paging of the token list: which ids and page lengths the server answers with is not in the repository, and the
  method keeps no state beyond its call. What `TokenSet` resolves is a constant of Signing.
* The crypto loader: two first uses may load the WebAssembly package twice; whether that matters is decided in it.
* The detection of the signature type, decided once from the answers of the user's signer, and cryptography.
* The messages of `toggle2FA` and of registering a factory, which go with no transaction of the rollup; the wording
  and layout of the other messages; and so the texts in which two different lines could look alike.
* A nonce that a program gives for a single operation: it skips a query, and leaves that the program chose it well.
* Two builds of one builder at a time, and a program that adds transactions while a build is in flight: the
  documentation has the methods chained before `build`.
* Generated contract bindings.
