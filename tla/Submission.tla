----------------------------- MODULE Submission -----------------------------
(***************************************************************************)
(* The operations of src/wallet.ts that are completed, signed and          *)
(* submitted one at a time: syncTransfer, withdrawFromSyncToRootstock,     *)
(* syncForcedExit, syncSwap, mintNFT, withdrawNFT and setSigningKey.  They *)
(* share one shape, and the object the program passes: a nonce or a fee it *)
(* leaves out is queried from the server and written into that object,     *)
(* where a later attempt with the same object finds it.                    *)
(*                                                                         *)
(* syncMultiTransfer and syncTransferNFT submit several transfers that are *)
(* executed together.  They take the first nonce anew at each attempt, and *)
(* so do the operations of src/remote-wallet.ts, which leave nonce, fee    *)
(* and account id to an external signer whenever it signs.                 *)
(*                                                                         *)
(* A wallet that cannot sign messages authorises the change of its key on  *)
(* Rootstock first, for the one nonce the change is to have.               *)
(*                                                                         *)
(* A request is such an object, a call is one attempt to carry it out.     *)
(* The program calls again when a call has failed.  Calls on different     *)
(* requests may be in flight together.  pc of a call names what it awaits: *)
(* "nonce", "fee", "sign" (account id, signatures), "key" (setSigningKey   *)
(* only), "submit" (the server has not seen the transaction) or "answer"   *)
(* (it has).                                                               *)
(***************************************************************************)
EXTENDS Integers, FiniteSets

CONSTANTS
    Calls,          \* attempts
    Transfers,      \* requests for syncTransfer and the like
    KeyChanges,     \* requests for setSigningKey
    OnchainKeyChanges,  \* those whose ethAuthType is "Onchain"
    Batches,        \* requests for syncMultiTransfer and syncTransferNFT
    NFTTransfers,   \* those for syncTransferNFT
    RemoteRequests, \* requests for any operation of a RemoteWallet
    BatchSize,      \* transactions in a batch
    GivenNonces,    \* nonces a program may give for a batch
    MaxFailures,    \* bound on the calls that fail
    MaxForeign,     \* bound on the operations other programs execute
    MaxAuths        \* bound on the calls of onchainAuthSigningKey

\* Requests whose nonce is taken anew at each attempt.
Renumbered == Batches \cup RemoteRequests

Requests == Transfers \cup KeyChanges \cup Renumbered

ASSUME SubmissionAssumption ==
    /\ Transfers \cap KeyChanges = {} /\ Renumbered \cap (Transfers \cup KeyChanges) = {}
    /\ Batches \cap RemoteRequests = {}
    /\ OnchainKeyChanges \subseteq KeyChanges /\ NFTTransfers \subseteq Batches
    /\ BatchSize \in Nat \ {0} /\ GivenNonces \subseteq Nat
    /\ MaxFailures \in Nat /\ MaxForeign \in Nat /\ MaxAuths \in Nat

VARIABLES
    params,         \* per request, what its object holds: [nonce, fee]
    call,           \* per call: [pc, request, tx]
    account,        \* on the server: [nonce, keySet]
    pool,           \* transactions the server has received and not executed
    executed, rejected,
    failures, foreign,
    auth,           \* the call of onchainAuthSigningKey: [pc, nonce]
    authFacts,      \* nonces for which the key is authorised on Rootstock
    auths,          \* calls of onchainAuthSigningKey so far
    authorised,     \* history: whether the last thing the program did was to wait
                    \* for such an authorisation
    outOfTurn       \* history: whether the program has ever made a call before
                    \* it saw the transactions of its earlier calls executed, or
                    \* an on-chain change of the key without its authorisation

serverVars == <<account, pool, executed, rejected, foreign>>

authVars == <<auth, authFacts, auths>>

turnVars == <<authorised, outOfTurn>>

vars == <<params, call, serverVars, failures, authVars, turnVars>>

None == -1

\* "zero" is a fee of 0, "quoted" what the server asked for.
Fees == {"unset", "zero", "quoted"}

Tx == [request : Requests, nonce : Nat, fee : Fees]

NoTx == [request |-> None, nonce |-> None, fee |-> "unset"]

Pcs == {"idle", "nonce", "fee", "sign", "key", "submit", "answer", "done", "failed"}

Params == [nonce : Nat \cup {None}, fee : Fees]

CallStates == [pc : Pcs, request : Requests \cup {None}, tx : Tx \cup {NoTx}]

\* A nonce goes with the authorisation that is being mined, and only with that.
AuthCalls == [pc : {"idle", "key", "nonce"}, nonce : {None}] \cup [pc : {"mining"}, nonce : Nat]

AuthTypeOK ==
    /\ auth \in AuthCalls
    /\ authFacts \subseteq Nat
    /\ auths \in 0 .. MaxAuths
    /\ authorised \in BOOLEAN
    /\ outOfTurn \in BOOLEAN

TypeOK ==
    /\ params \in [Requests -> Params]
    /\ call \in [Calls -> CallStates]
    /\ account \in [nonce : Nat, keySet : BOOLEAN]
    /\ pool \subseteq Tx /\ executed \subseteq Tx /\ rejected \subseteq Tx
    /\ failures \in 0 .. MaxFailures
    /\ foreign \in 0 .. MaxForeign
    /\ AuthTypeOK

Init ==
    /\ \E given \in [Batches -> GivenNonces \cup {None}] :
            params = [r \in Requests |->
                        [nonce |-> IF r \in Batches THEN given[r] ELSE None,
                         fee |-> "unset"]]
    /\ call = [c \in Calls |-> [pc |-> "idle", request |-> None, tx |-> NoTx]]
    /\ account = [nonce |-> 0, keySet |-> FALSE]
    /\ pool = {} /\ executed = {} /\ rejected = {}
    /\ failures = 0 /\ foreign = 0
    /\ auth = [pc |-> "idle", nonce |-> None]
    /\ authFacts = {}
    /\ auths = 0
    /\ authorised = FALSE
    /\ outOfTurn = FALSE

Goto(c, there) == call' = [call EXCEPT ![c].pc = there]

(***************************************************************************)
(* The program.  It gives neither nonce nor fee itself, but may give the   *)
(* nonce of a batch, whose fees it must give.  It makes one call at a time *)
(* on a request, and calls again only if the last call has failed.         *)
(***************************************************************************)
Free(r) == \A c \in Calls : call[c].request = r => call[c].pc = "failed"

\* Every call is over and every transaction handed out has been executed.
AllSeen ==
    /\ \A c \in Calls : call[c].pc \in {"idle", "done", "failed"}
    /\ pool = {}
    /\ auth.pc = "idle"

\* isOnchainAuthSigningKeySet, for the committed nonce.
OnchainAuthSigningKeySet == account.nonce \in authFacts

InTurn(r) ==
    /\ AllSeen
    /\ r \in OnchainKeyChanges => authorised \/ OnchainAuthSigningKeySet

\* What is next once the object has a nonce.
AfterNonce(r) == IF params[r].fee = "unset" THEN "fee" ELSE "sign"

\* setSigningKey writes a fee of 0 into the object before it asks for the fee.
FeeWhileAsking(r) ==
    IF r \in KeyChanges /\ params[r].fee = "unset" THEN "zero" ELSE params[r].fee

\* Mutant: the nonce is left to others.
CallWithoutNonce(c, r) ==
    /\ call[c].pc = "idle" /\ Free(r)
    /\ call' = [call EXCEPT ![c] = [@ EXCEPT !.pc = AfterNonce(r), !.request = r]]
    /\ params' = [params EXCEPT ![r].fee = FeeWhileAsking(r)]
    /\ outOfTurn' = (outOfTurn \/ ~InTurn(r))
    /\ authorised' = FALSE
    /\ UNCHANGED <<serverVars, failures, authVars>>

Call(c, r) ==
    /\ call[c].pc = "idle" /\ Free(r)
    /\ \/ /\ r \in RemoteRequests
          /\ call' = [call EXCEPT ![c] = [@ EXCEPT !.pc = "sign", !.request = r]]
          /\ UNCHANGED params
       \/ /\ r \notin RemoteRequests /\ (params[r].nonce = None \/ r \in Batches)
          /\ call' = [call EXCEPT ![c] = [@ EXCEPT !.pc = "nonce", !.request = r]]
          /\ UNCHANGED params
       \/ /\ params[r].nonce # None /\ r \notin Renumbered
          /\ call' = [call EXCEPT ![c] = [@ EXCEPT !.pc = AfterNonce(r), !.request = r]]
          /\ params' = [params EXCEPT ![r].fee = FeeWhileAsking(r)]
    /\ outOfTurn' = (outOfTurn \/ ~InTurn(r))
    /\ authorised' = FALSE
    /\ UNCHANGED <<serverVars, failures, authVars>>

\* Mutant: the nonce is that of the finalized state.
NonceAnswerFinalized(c) ==
    /\ call[c].pc = "nonce" /\ call[c].request \notin Batches
    /\ LET r == call[c].request
       IN  /\ \E n \in 0 .. account.nonce :
                params' = [params EXCEPT ![r] = [nonce |-> n, fee |-> FeeWhileAsking(r)]]
           /\ Goto(c, AfterNonce(r))
    /\ UNCHANGED <<serverVars, failures, authVars, turnVars>>

\* getNonce: the committed nonce when the server answers.
NonceAnswer(c) ==
    /\ call[c].pc = "nonce" /\ call[c].request \notin Batches
    /\ LET r == call[c].request
       IN  /\ params' = [params EXCEPT
                ![r] = [nonce |-> account.nonce, fee |-> FeeWhileAsking(r)]]
           /\ Goto(c, AfterNonce(r))
    /\ UNCHANGED <<serverVars, failures, authVars, turnVars>>

\* A batch is numbered from the nonce given for it or, if there is none, from the
\* committed one, which is not kept.  syncTransferNFT does not pass its nonce on.
FirstNonce(r) ==
    IF params[r].nonce # None /\ r \notin NFTTransfers THEN params[r].nonce ELSE account.nonce

BatchNonceAnswer(c) ==
    /\ call[c].pc = "nonce" /\ call[c].request \in Batches
    /\ LET r == call[c].request
       IN  call' = [call EXCEPT ![c] =
                [pc |-> "sign", request |-> r,
                 tx |-> [request |-> r, nonce |-> FirstNonce(r), fee |-> "quoted"]]]
    /\ UNCHANGED <<params, serverVars, failures, authVars, turnVars>>

\* Mutant: a fee of 0 is not replaced.
FeeAnswerKeepsZero(c) ==
    /\ call[c].pc = "fee"
    /\ params' = [params EXCEPT ![call[c].request].fee = "zero"]
    /\ Goto(c, "sign")
    /\ UNCHANGED <<serverVars, failures, authVars, turnVars>>

FeeAnswer(c) ==
    /\ call[c].pc = "fee"
    /\ params' = [params EXCEPT ![call[c].request].fee = "quoted"]
    /\ Goto(c, "sign")
    /\ UNCHANGED <<serverVars, failures, authVars, turnVars>>

\* Mutant: the nonce is taken when the transaction is signed, each time anew.
SignAfresh(c) ==
    /\ call[c].pc = "sign" /\ call[c].request \notin Renumbered
    /\ LET r == call[c].request
       IN  call' = [call EXCEPT ![c] =
                [pc |-> IF r \in KeyChanges THEN "key" ELSE "submit", request |-> r,
                 tx |-> [request |-> r, nonce |-> account.nonce, fee |-> params[r].fee]]]
    /\ UNCHANGED <<params, serverVars, failures, authVars, turnVars>>

\* Mutant: setSigningKey does not ask for the current key.
SignAnyKey(c) ==
    /\ call[c].pc = "sign" /\ call[c].request \notin Renumbered
    /\ LET r == call[c].request
       IN  call' = [call EXCEPT ![c] =
                [pc |-> "submit", request |-> r,
                 tx |-> [request |-> r, nonce |-> params[r].nonce, fee |-> params[r].fee]]]
    /\ UNCHANGED <<params, serverVars, failures, authVars, turnVars>>

\* The transaction is signed with what the object holds.
Sign(c) ==
    /\ call[c].pc = "sign" /\ call[c].request \notin Renumbered
    /\ LET r == call[c].request
       IN  call' = [call EXCEPT ![c] =
                [pc |-> IF r \in KeyChanges THEN "key" ELSE "submit", request |-> r,
                 tx |-> [request |-> r, nonce |-> params[r].nonce, fee |-> params[r].fee]]]
    /\ UNCHANGED <<params, serverVars, failures, authVars, turnVars>>

SignBatch(c) ==
    /\ call[c].pc = "sign" /\ call[c].request \in Batches
    /\ Goto(c, "submit")
    /\ UNCHANGED <<params, serverVars, failures, authVars, turnVars>>

\* callExtSignZKSyncBatch: the external signer completes and signs the transaction.
RemoteSign(c) ==
    /\ call[c].pc = "sign" /\ call[c].request \in RemoteRequests
    /\ LET r == call[c].request
       IN  call' = [call EXCEPT ![c] =
                [pc |-> "submit", request |-> r,
                 tx |-> [request |-> r, nonce |-> account.nonce, fee |-> "quoted"]]]
    /\ UNCHANGED <<params, serverVars, failures, authVars, turnVars>>

\* setSigningKey throws, after all that, if the key is set already.
CheckKey(c) ==
    /\ call[c].pc = "key"
    /\ Goto(c, IF account.keySet THEN "failed" ELSE "submit")
    /\ UNCHANGED <<params, serverVars, failures, authVars, turnVars>>

\* The promise resolves with the handle of the transaction.
Resolve(c) ==
    /\ call[c].pc = "answer"
    /\ Goto(c, "done")
    /\ UNCHANGED <<params, serverVars, failures, authVars, turnVars>>

\* A request fails, the user refuses to sign, or the SDK finds the object unfit (a
\* token that is no NFT, a swap without amounts).  If what fails is the answer to the
\* submission, the server has the transaction all the same.
Fail(c) ==
    /\ call[c].pc \notin {"idle", "done", "failed"}
    /\ failures < MaxFailures
    /\ failures' = failures + 1
    /\ Goto(c, "failed")
    /\ UNCHANGED <<params, serverVars, authVars, turnVars>>

(***************************************************************************)
(* onchainAuthSigningKey: it reads the current key, throws if that is the  *)
(* wallet's own, reads the committed nonce and sends the authorisation for *)
(* it.  The program waits until Rootstock has mined it.                    *)
(***************************************************************************)
AuthCall ==
    /\ auth.pc = "idle" /\ auths < MaxAuths
    /\ auth' = [pc |-> "key", nonce |-> None]
    /\ auths' = auths + 1
    /\ outOfTurn' = (outOfTurn \/ ~AllSeen)
    /\ authorised' = FALSE
    /\ UNCHANGED <<params, call, serverVars, failures, authFacts>>

AuthKeyAnswer ==
    /\ auth.pc = "key"
    /\ auth' = [auth EXCEPT !.pc = IF account.keySet THEN "idle" ELSE "nonce"]
    /\ UNCHANGED <<params, call, serverVars, failures, authFacts, auths, turnVars>>

AuthNonceAnswer ==
    /\ auth.pc = "nonce"
    /\ auth' = [pc |-> "mining", nonce |-> account.nonce]
    /\ UNCHANGED <<params, call, serverVars, failures, authFacts, auths, turnVars>>

AuthMined ==
    /\ auth.pc = "mining"
    /\ auth' = [pc |-> "idle", nonce |-> None]
    /\ authFacts' = authFacts \cup {auth.nonce}
    /\ authorised' = TRUE
    /\ UNCHANGED <<params, call, serverVars, failures, auths, outOfTurn>>

\* A request fails, or the Rootstock transaction is reverted.
AuthFails ==
    /\ auth.pc # "idle"
    /\ failures < MaxFailures
    /\ failures' = failures + 1
    /\ auth' = [pc |-> "idle", nonce |-> None]
    /\ UNCHANGED <<params, call, serverVars, authFacts, auths, turnVars>>

Authorise == AuthCall \/ AuthKeyAnswer \/ AuthNonceAnswer \/ AuthMined \/ AuthFails

(***************************************************************************)
(* The server executes the transaction whose nonce is the account's        *)
(* current one, and rejects those that come too late and a change of the   *)
(* key that was to be authorised on Rootstock and is not.  A transaction   *)
(* it has received twice is one transaction: its hash is the same.         *)
(***************************************************************************)
Receive(c) ==
    /\ call[c].pc = "submit"
    /\ pool' = pool \cup ({call[c].tx} \ (executed \cup rejected))
    /\ Goto(c, "answer")
    /\ UNCHANGED <<params, account, executed, rejected, foreign, failures, authVars, turnVars>>

Size(r) == IF r \in Batches THEN BatchSize ELSE 1

Unauthorised(tx) == tx.request \in OnchainKeyChanges /\ tx.nonce \notin authFacts

Execute(tx) ==
    /\ tx \in pool /\ tx.nonce = account.nonce /\ ~Unauthorised(tx)
    /\ pool' = pool \ {tx}
    /\ executed' = executed \cup {tx}
    /\ account' = [nonce |-> account.nonce + Size(tx.request),
                   keySet |-> account.keySet \/ tx.request \in KeyChanges]
    /\ UNCHANGED <<params, call, rejected, foreign, failures, authVars, turnVars>>

Reject(tx) ==
    /\ tx \in pool
    /\ tx.nonce < account.nonce \/ (tx.nonce = account.nonce /\ Unauthorised(tx))
    /\ pool' = pool \ {tx}
    /\ rejected' = rejected \cup {tx}
    /\ UNCHANGED <<params, call, account, executed, foreign, failures, authVars, turnVars>>

\* Another program of the same account has an operation executed.
ExecuteForeign ==
    /\ foreign < MaxForeign
    /\ foreign' = foreign + 1
    /\ account' = [account EXCEPT !.nonce = @ + 1]
    /\ UNCHANGED <<params, call, pool, executed, rejected, failures, authVars, turnVars>>

Next ==
    \/ \E c \in Calls, r \in Requests : Call(c, r)
    \/ \E c \in Calls :
        \/ NonceAnswer(c) \/ BatchNonceAnswer(c) \/ FeeAnswer(c)
        \/ Sign(c) \/ SignBatch(c) \/ RemoteSign(c) \/ CheckKey(c)
        \/ Receive(c) \/ Resolve(c) \/ Fail(c)
    \/ \E tx \in pool : Execute(tx) \/ Reject(tx)
    \/ ExecuteForeign
    \/ Authorise

Spec == Init /\ [][Next]_vars
-----------------------------------------------------------------------------
(***************************************************************************)
(* Safety.                                                                 *)
(***************************************************************************)

\* A program may call again with the same object after any failure, even one that
\* hid a success: the request is executed once at most, because the nonce of the
\* first attempt stays in the object.  Only a batch or an operation of a RemoteWallet,
\* which keep no nonce, may be carried out again, and only if an attempt failed that
\* the server had received.
PaysOnce ==
    \A t, u \in executed : t.request = u.request /\ t # u =>
        /\ t.request \in Renumbered
        /\ \E c \in Calls : call[c].pc = "failed" /\ call[c].tx \in {t, u}

\* Why.  A request has at most one call that is not over, the nonce of its object is
\* written at most once, and every transaction made from it has that nonce; and the
\* server executes a nonce once.  What the server has received came from a call.
Received == pool \cup executed \cup rejected

OneAttempt ==
    \A c, d \in Calls : c # d /\ call[c].request = call[d].request =>
        \E e \in {c, d} : call[e].pc \in {"idle", "failed"}

StageInv ==
    \A c \in Calls : LET r == call[c].request IN
        /\ call[c].pc \notin {"idle", "done", "failed"} => r \in Requests
        /\ call[c].pc = "nonce" => r \notin RemoteRequests
        /\ call[c].pc \in {"fee", "key"} => r \notin Renumbered
        /\ r \notin Renumbered =>
            /\ call[c].pc = "nonce" => params[r].nonce = None
            /\ call[c].pc \in {"fee", "sign"} => params[r].nonce # None
        /\ call[c].pc \in {"key", "submit"} \/ (call[c].pc = "sign" /\ r \in Batches) =>
            /\ call[c].tx \in Tx /\ call[c].tx.request = r
            /\ r \notin Renumbered => call[c].tx.nonce = params[r].nonce

NonceKept ==
    \A tx \in Received : tx.request \notin Renumbered => tx.nonce = params[tx.request].nonce

FromCalls ==
    \A tx \in Received : \E c \in Calls :
        /\ call[c].pc \in {"answer", "done", "failed"}
        /\ call[c].request = tx.request /\ call[c].tx = tx

ExecutedOnce ==
    /\ \A t \in executed : t.nonce < account.nonce
    /\ \A t, u \in executed : t.nonce = u.nonce => t = u

IInv == OneAttempt /\ StageInv /\ NonceKept /\ FromCalls /\ ExecutedOnce

\* What a program does that waits: it gives no nonces, it makes no call out of turn,
\* nothing fails on the way and nobody else uses the account.
Undisturbed ==
    /\ ~outOfTurn /\ failures = 0 /\ foreign = 0
    /\ \A r \in Batches : params[r].nonce = None

\* The transactions of a program that sees each executed before it makes the next
\* call are never rejected: no nonce is taken twice, and the key it authorised on
\* Rootstock is authorised for the nonce that setSigningKey then reads.
NeverRejected == Undisturbed => rejected = {}

\* A program that waits pays for the change of its key once, however many objects it
\* passes to setSigningKey and however each is authorised.
KeyChangedOnce ==
    Undisturbed => \A t, u \in executed : {t.request, u.request} \subseteq KeyChanges => t = u

\* Why.  One attempt at a time, authorisations included, and none before the server
\* has executed the transaction of the one before: so the committed nonce stands still
\* between the answer that gave it and the execution, and so does what is authorised
\* for it.  Only a setSigningKey that finds the key set may hold an older nonce, and
\* that one ends in the check of the key.
Live == {c \in Calls : call[c].pc \notin {"idle", "done", "failed"}}

OneAtATime ==
    /\ \A c, d \in Live : c = d
    /\ \A t, u \in pool : t = u
    /\ \A c \in Live : call[c].pc # "answer" => pool = {}
    /\ auth.pc # "idle" \/ authorised => Live = {} /\ pool = {}
    /\ auth.pc = "mining" => auth.nonce = account.nonce
    /\ authorised => OnchainAuthSigningKeySet

CallInOrder(c) ==
    LET r == call[c].request
        Stale == r \in KeyChanges /\ account.keySet
    IN  /\ call[c].pc # "answer" /\ r \in OnchainKeyChanges => OnchainAuthSigningKeySet
        /\ call[c].pc \in {"fee", "sign"} /\ r \notin Renumbered =>
             params[r].nonce = account.nonce \/ Stale
        /\ call[c].pc = "sign" /\ r \in Batches => call[c].tx.nonce = account.nonce
        /\ call[c].pc = "key" => r \in KeyChanges /\ (call[c].tx.nonce = account.nonce \/ Stale)
        /\ call[c].pc = "submit" => call[c].tx.nonce = account.nonce /\ ~Stale

TxInOrder(tx) ==
    /\ tx.nonce = account.nonce /\ ~Unauthorised(tx)
    /\ tx.request \in KeyChanges => ~account.keySet

\* An object has its nonce from an attempt, and no attempt fails but at the key.
ObjectsTried ==
    /\ \A r \in Transfers \cup KeyChanges : params[r].nonce # None =>
         \E c \in Calls : call[c].pc # "idle" /\ call[c].request = r
    /\ \A c \in Calls : call[c].pc = "failed" =>
         call[c].request \in KeyChanges /\ account.keySet

KeyPaidOnce ==
    /\ \A t \in executed : t.request \in KeyChanges => account.keySet
    /\ \A t, u \in executed : {t.request, u.request} \subseteq KeyChanges => t = u

Orderly ==
    /\ OneAtATime /\ ObjectsTried /\ KeyPaidOnce
    /\ \A c \in Live : CallInOrder(c)
    /\ \A tx \in pool : TxInOrder(tx)
    /\ rejected = {}

TurnInv == Undisturbed => Orderly

\* A fee the program leaves out of a transfer is the fee the server asks for, also
\* in a transaction that took several attempts.
TransferFeeIsQuoted ==
    \A tx \in Received : tx.request \in Transfers => tx.fee = "quoted"

\* Why.  The fee of a transfer is set by nothing but the answer of the server, and
\* before the transfer is signed.
FeeInv ==
    /\ \A r \in Transfers : params[r].fee # "zero"
    /\ \A c \in Calls :
        /\ call[c].pc = "sign" /\ call[c].request \in Transfers
            => params[call[c].request].fee = "quoted"
        /\ call[c].tx \in Tx /\ call[c].tx.request \in Transfers => call[c].tx.fee = "quoted"
    /\ TransferFeeIsQuoted

\* The nonce a program gives for a batch is the nonce of its first transaction.
GivenNonceIsUsed ==
    \A tx \in Received :
        tx.request \in Batches /\ params[tx.request].nonce # None
            => tx.nonce = params[tx.request].nonce

\* The documentation says so of every operation: a fee that is not set is requested
\* from the server.
FeeIsQuoted == \A tx \in Received : tx.fee = "quoted"
=============================================================================
