---------------------------- MODULE BatchBuilder ----------------------------
(***************************************************************************)
(* BatchBuilder of src/batch-builder.ts with the wallet half of build,     *)
(* processBatchBuilderTransactions of src/wallet.ts or of                  *)
(* src/remote-wallet.ts: one builder, to which the program adds            *)
(* transactions, and builds of it, which await the fee of the batch, the   *)
(* nonce of the account, what each transaction needs to be signed, and the *)
(* user's signature or the external signer's answer.  Any of these may     *)
(* fail; what the build has written into the shared transactions by then   *)
(* stays.                                                                  *)
(*                                                                         *)
(* pc of a build names what it awaits: "fee", "nonce", "sign" (the         *)
(* transaction it has numbered last) or "message" (the last signature);    *)
(* "idle" before the call and after it has settled.                        *)
(***************************************************************************)
EXTENDS Integers, Sequences, SequencesExt, Functions

CONSTANTS
    Builds,         \* calls of build that may be in flight together
    Tokens,         \* the names under which a program knows its tokens
    NoToken,        \* build() without a fee token
    StartNonce,     \* the nonce given to batchBuilder(), or Committed
    Committed,      \* "committed": ask the server
    MaxTxs,         \* bound on the transactions in the builder
    MaxNonce        \* bound on the account's nonce

ASSUME BuilderAssumption ==
    /\ MaxTxs \in Nat /\ MaxNonce \in Nat
    /\ NoToken \notin Tokens
    /\ Committed \notin Nat
    /\ StartNonce \in Nat \cup {Committed}

VARIABLES
    wallet,         \* "Wallet" or "RemoteWallet", for good
    txs,            \* the transactions of the builder, shared by its builds
    build,          \* per build: [pc, feeToken, asked, first, total, built]
    committed       \* the committed nonce of the account, on the server

vars == <<wallet, txs, build, committed>>

\* The nonce of a transaction that has none, and what an unsigned one is signed for.
None == -1

Nonces == Nat \cup {None}

\* signedFor is the nonce that the signature of an alreadySigned ChangePubKey
\* covers.  feeType, addresses and the rest of the payload are left out.
Tx == [token : Tokens, fee : Nat, nonce : Nonces, signedFor : Nonces]

Transfer(token, fee) ==
    [token |-> token, fee |-> fee, nonce |-> None, signedFor |-> None]

AlreadySigned(tx) == tx.signedFor # None

Pcs == {"idle", "fee", "nonce", "sign", "message"}

BuildStates ==
    [pc : Pcs, feeToken : Tokens \cup {NoToken}, asked : Nat, first : Nat,
     total : [Tokens -> Nat], built : Seq(Tx)]

TypeOK ==
    /\ wallet \in {"Wallet", "RemoteWallet"}
    /\ txs \in Seq(Tx)
    /\ build \in [Builds -> BuildStates]
    /\ committed \in Nat

NotBuilding ==
    [pc |-> "idle", feeToken |-> NoToken, asked |-> 0, first |-> 0,
     total |-> [t \in Tokens |-> 0], built |-> <<>>]

Init ==
    /\ wallet \in {"Wallet", "RemoteWallet"}
    /\ txs = <<>>
    /\ build = [b \in Builds |-> NotBuilding]
    /\ committed = 0

(***************************************************************************)
(* The add methods.  The documentation wants them chained before build, so *)
(* the program adds only while no build is in flight; it may add more      *)
(* after one, and build again.                                             *)
(***************************************************************************)
Quiet == \A b \in Builds : build[b].pc = "idle"

\* addTransfer, addWithdraw and the others that add an unsigned transaction.
Add(token, fee) ==
    /\ Quiet /\ Len(txs) < MaxTxs
    /\ txs' = Append(txs, Transfer(token, fee))
    /\ UNCHANGED <<wallet, build, committed>>

\* addChangePubKey with the result of signSetSigningKey.
AddSigned(token, fee, nonce) ==
    /\ Quiet /\ Len(txs) < MaxTxs
    /\ txs' = Append(txs,
            [token |-> token, fee |-> fee, nonce |-> nonce, signedFor |-> nonce])
    /\ UNCHANGED <<wallet, build, committed>>

(***************************************************************************)
(* build up to its first await.  With a fee token all transactions must be *)
(* unsigned and free; a transfer to self is pushed if the last one is in   *)
(* another token, and the server is asked for the fee of all of them.      *)
(* Without one, and after the fee has come, the fees are totalled.         *)
(***************************************************************************)
FeesIn(seq, token) ==
    SumFunctionOnSet([i \in DOMAIN seq |-> seq[i].fee], {i \in DOMAIN seq : seq[i].token = token})

Totals(seq) == [t \in Tokens |-> FeesIn(seq, t)]

\* Throwing leaves the builder as it is: the action is a stutter.
Build(b) ==
    /\ build[b].pc = "idle" /\ txs # <<>>
    /\ build' = [build EXCEPT ![b] = [NotBuilding EXCEPT !.pc = "nonce", !.total = Totals(txs)]]
    /\ UNCHANGED <<wallet, txs, committed>>

\* Mutant: the transactions are not checked.
BuildWithUnchecked(b, feeToken) ==
    /\ build[b].pc = "idle" /\ txs # <<>>
    /\ txs' = IF Last(txs).token = feeToken THEN txs ELSE Append(txs, Transfer(feeToken, 0))
    /\ Len(txs') <= MaxTxs
    /\ build' = [build EXCEPT ![b] =
            [NotBuilding EXCEPT !.pc = "fee", !.feeToken = feeToken, !.asked = Len(txs')]]
    /\ UNCHANGED <<wallet, committed>>

BuildWith(b, feeToken) ==
    /\ build[b].pc = "idle" /\ txs # <<>>
    /\ \A i \in DOMAIN txs : ~AlreadySigned(txs[i]) /\ txs[i].fee = 0
    /\ txs' = IF Last(txs).token = feeToken THEN txs ELSE Append(txs, Transfer(feeToken, 0))
    /\ Len(txs') <= MaxTxs
    /\ build' = [build EXCEPT ![b] =
            [NotBuilding EXCEPT !.pc = "fee", !.feeToken = feeToken, !.asked = Len(txs')]]
    /\ UNCHANGED <<wallet, committed>>

\* The fee the server asks for a batch of n: any function that grows with n will do.
Quote(n) == 2 * n

\* Mutant: the fees are totalled before the fee of the batch is known.
FeeAnswerLate(b) ==
    /\ build[b].pc = "fee"
    /\ txs' = [txs EXCEPT ![build[b].asked].fee = Quote(build[b].asked)]
    /\ build' = [build EXCEPT ![b] = [@ EXCEPT !.pc = "nonce", !.total = Totals(txs)]]
    /\ UNCHANGED <<wallet, committed>>

\* txWithFeeToken is the last of the transactions the server was asked about.
FeeAnswer(b) ==
    /\ build[b].pc = "fee"
    /\ txs' = [txs EXCEPT ![build[b].asked].fee = Quote(build[b].asked)]
    /\ build' = [build EXCEPT ![b] = [@ EXCEPT !.pc = "nonce", !.total = Totals(txs')]]
    /\ UNCHANGED <<wallet, committed>>

(***************************************************************************)
(* processBatchBuilderTransactions.  The loop runs over the transactions   *)
(* of the builder: it numbers one, awaits what its signature needs, signs  *)
(* it as it is by then, and goes on with the next.                         *)
(***************************************************************************)
Number(i, nonce) == txs' = [txs EXCEPT ![i].nonce = nonce]

FirstNonce == IF StartNonce = Committed THEN committed ELSE StartNonce

\* Mutant: the nonce given to the builder is used as it is.
NonceAnswerUnresolved(b) ==
    /\ wallet = "Wallet"
    /\ build[b].pc = "nonce"
    /\ build' = [build EXCEPT ![b] = [@ EXCEPT !.pc = "sign", !.first = StartNonce]]
    /\ Number(1, StartNonce)
    /\ UNCHANGED <<wallet, committed>>

NonceAnswer(b) ==
    /\ wallet = "Wallet"
    /\ build[b].pc = "nonce"
    /\ build' = [build EXCEPT ![b] = [@ EXCEPT !.pc = "sign", !.first = FirstNonce]]
    /\ Number(1, FirstNonce)
    /\ UNCHANGED <<wallet, committed>>

\* A RemoteWallet numbers all of them at once, and has copies of them signed, also those
\* that have been signed before.
RemoteNonceAnswer(b) ==
    /\ wallet = "RemoteWallet"
    /\ build[b].pc = "nonce"
    /\ txs' = [i \in DOMAIN txs |-> [txs[i] EXCEPT !.nonce = FirstNonce + i - 1]]
    /\ build' = [build EXCEPT ![b] = [@ EXCEPT
            !.pc = "message", !.first = FirstNonce,
            !.built = [i \in DOMAIN txs |-> [txs'[i] EXCEPT !.signedFor = None]]]]
    /\ UNCHANGED <<wallet, committed>>

\* Mutant: a transaction that has a nonce from an earlier build keeps it.
SignNextKeepsNonce(b) ==
    /\ build[b].pc = "sign"
    /\ LET k == Len(build[b].built) + 1
       IN  /\ build' = [build EXCEPT ![b] = [@ EXCEPT
                    !.built = Append(build[b].built, txs[k]),
                    !.pc = IF k < Len(txs) THEN "sign" ELSE "message"]]
           /\ IF k < Len(txs) /\ txs[k + 1].nonce = None
              THEN Number(k + 1, build[b].first + k)
              ELSE UNCHANGED txs
    /\ UNCHANGED <<wallet, committed>>

SignNext(b) ==
    /\ build[b].pc = "sign"
    /\ LET k == Len(build[b].built) + 1
       IN  /\ build' = [build EXCEPT ![b] = [@ EXCEPT
                    !.built = Append(build[b].built, txs[k]),
                    !.pc = IF k < Len(txs) THEN "sign" ELSE "message"]]
           /\ IF k < Len(txs) THEN Number(k + 1, build[b].first + k) ELSE UNCHANGED txs
    /\ UNCHANGED <<wallet, committed>>

\* The user signs, or refuses to; any other request fails; a ChangePubKey turns
\* out to set the key that is set.  Nothing is undone.
Settle(b) ==
    /\ build[b].pc # "idle"
    /\ build' = [build EXCEPT ![b] = NotBuilding]
    /\ UNCHANGED <<wallet, txs, committed>>

\* Operations of the account are executed: those of the batches it submits and
\* those of other programs.
Execute ==
    /\ committed < MaxNonce
    /\ committed' = committed + 1
    /\ UNCHANGED <<wallet, txs, build>>

Next ==
    \/ \E t \in Tokens, fee \in {0, 1} :
        Add(t, fee) \/ \E n \in 0 .. MaxNonce : AddSigned(t, fee, n)
    \/ \E b \in Builds :
        \/ Build(b) \/ \E t \in Tokens : BuildWith(b, t)
        \/ FeeAnswer(b) \/ NonceAnswer(b) \/ RemoteNonceAnswer(b) \/ SignNext(b) \/ Settle(b)
    \/ Execute

Spec == Init /\ [][Next]_vars
-----------------------------------------------------------------------------
(***************************************************************************)
(* Safety, for a program that awaits a build before it starts another.     *)
(* The batch in question is the one that waits for its last signature, a   *)
(* signed ChangePubKey being in a Wallet's by reference.  Earlier builds   *)
(* of the same builder may have failed anywhere or been given another fee  *)
(* token.                                                                  *)
(***************************************************************************)
Asking == {b \in Builds : build[b].pc = "message"}

Batch(b) ==
    [i \in DOMAIN build[b].built |->
        IF wallet = "Wallet" /\ AlreadySigned(txs[i]) THEN txs[i] ELSE build[b].built[i]]

\* The batch holds every transaction of the builder, numbered consecutively from
\* the nonce in the message the user signs, whatever nonces they had before.
Numbered ==
    \A b \in Asking :
        /\ Len(Batch(b)) = Len(txs)
        /\ \A i \in DOMAIN Batch(b) : Batch(b)[i].nonce = build[b].first + i - 1

\* The total fee that build returns is, token by token, what the batch pays.
FeesAccounted == \A b \in Asking : build[b].total = Totals(Batch(b))

\* A build with a fee token yields a batch that pays exactly what the server asks
\* for a batch of its size, all of it in that token and in its last transaction;
\* leftovers of failed builds are part of the batch and of the quote.
LastPaysForAll ==
    \A b \in Asking : build[b].feeToken # NoToken =>
        /\ Last(Batch(b)).token = build[b].feeToken
        /\ Last(Batch(b)).fee = Quote(Len(Batch(b)))
        /\ \A i \in 1 .. Len(Batch(b)) - 1 : Batch(b)[i].fee = 0

(***************************************************************************)
(* Why.  From the answer about the fee on, the transactions of the builder *)
(* pay for a batch of their number and are totalled; the rest of the build *)
(* only numbers them.  What is built so far are the first transactions as  *)
(* they stand.                                                             *)
(***************************************************************************)
Charged(b) ==
    /\ build[b].total = Totals(txs)
    /\ build[b].feeToken # NoToken =>
        /\ Last(txs).token = build[b].feeToken
        /\ Last(txs).fee = Quote(Len(txs))
        /\ \A i \in 1 .. Len(txs) - 1 : txs[i].fee = 0

\* What a build refers to in the builder is there, even if builds overlap: the builder
\* only grows.
Fits(state, length) ==
    /\ state.pc # "idle" => length > 0
    /\ state.pc = "fee" => state.asked \in 1 .. length
    /\ state.pc \in {"fee", "nonce"} => state.built = <<>>
    /\ state.pc = "sign" => Len(state.built) < length

TypeInv == TypeOK /\ \A b \in Builds : Fits(build[b], Len(txs))

Processed(tx) == IF wallet = "Wallet" THEN tx ELSE [tx EXCEPT !.signedFor = None]

ProcessedInv(b) ==
    LET built == build[b].built
        first == build[b].first
    IN  /\ Len(built) <= Len(txs)
        /\ \A i \in DOMAIN built :
            built[i] = Processed(txs[i]) /\ txs[i].nonce = first + i - 1
        /\ build[b].pc = "sign" =>
            /\ wallet = "Wallet" /\ Len(built) < Len(txs)
            /\ txs[Len(built) + 1].nonce = first + Len(built)
        /\ build[b].pc = "message" => Len(built) = Len(txs)

BuildInv ==
    \A b \in Builds :
        /\ build[b].pc # "idle" => txs # <<>>
        /\ build[b].pc = "fee" =>
            /\ build[b].asked = Len(txs) /\ Last(txs).token = build[b].feeToken
            /\ \A i \in DOMAIN txs : txs[i].fee = 0
        /\ build[b].pc \in {"fee", "nonce"} => build[b].built = <<>>
        /\ build[b].pc \in {"nonce", "sign", "message"} => Charged(b)
        /\ build[b].pc \in {"sign", "message"} => ProcessedInv(b)

\* What the flag alreadySigned says of a transaction: it has been signed, so the
\* batch holds it as it was signed.
SignedAsSent ==
    \A b \in Asking : \A i \in DOMAIN Batch(b) :
        AlreadySigned(Batch(b)[i]) => Batch(b)[i].nonce = Batch(b)[i].signedFor
=============================================================================
