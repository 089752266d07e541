----------------------------- MODULE TxTracking -----------------------------
(***************************************************************************)
(* The Transaction handle of src/operations.ts: what awaitReceipt and      *)
(* awaitVerifyReceipt do to its state, and what they give their callers,   *)
(* when a program has several of these calls in flight on one handle.      *)
(***************************************************************************)
EXTENDS HandleCalls

vars == <<ledgerVars, notifyVars, handleVars>>

States == {"Sent", "Committed", "Verified", "Failed"}

Methods == {"awaitReceipt", "awaitVerifyReceipt"}

TypeOK ==
    /\ LedgerTypeOK
    /\ HandleTypeOK(States, Methods, {})

Init == LedgerInit /\ HandleInit

(***************************************************************************)
(* Both methods run awaitReceipt up to its first request.  On a handle     *)
(* that has left Sent, awaitReceipt is over at once without a receipt, and *)
(* awaitVerifyReceipt goes on to ask for the verification.                 *)
(***************************************************************************)
\* Mutant: without throwErrorIfFailedState.
CallForgetsFailure(c, m) ==
    /\ Invoke(c, m)
    /\ IF state = "Sent"
       THEN Notify(c, "COMMIT")
       ELSE IF m = "awaitReceipt"
            THEN Settle(c, "undefined", NoReceipt)
            ELSE Notify(c, "VERIFY")
    /\ UNCHANGED <<ledgerVars, state>>

\* Mutant: awaitVerifyReceipt does not wait for awaitReceipt.
CallVerifiesAtOnce(c, m) ==
    /\ Invoke(c, m)
    /\ CASE state = "Failed" -> Settle(c, "failed", NoReceipt)
         [] m = "awaitVerifyReceipt" /\ state # "Failed" -> Notify(c, "VERIFY")
         [] state = "Sent" /\ m = "awaitReceipt" -> Notify(c, "COMMIT")
         [] OTHER -> Settle(c, "undefined", NoReceipt)
    /\ UNCHANGED <<ledgerVars, state>>

Call(c, m) ==
    /\ Invoke(c, m)
    /\ CASE state = "Failed" -> Settle(c, "failed", NoReceipt)
         [] state = "Sent"   -> Notify(c, "COMMIT")
         [] OTHER ->
              IF m = "awaitReceipt"
              THEN Settle(c, "undefined", NoReceipt)
              ELSE Notify(c, "VERIFY")
    /\ UNCHANGED <<ledgerVars, state>>

(***************************************************************************)
(* awaitReceipt goes on with the receipt of the commit.  It does not look  *)
(* at state again: another call may have moved it meanwhile.               *)
(***************************************************************************)
\* Mutant: the receipt is not examined.
ResumeCommitUnchecked(c) ==
    /\ pc[c] = "answered"
    /\ action[c] = "COMMIT"
    /\ state' = "Committed"
    /\ IF method[c] = "awaitReceipt"
       THEN Settle(c, "receipt", answer[c])
       ELSE Notify(c, "VERIFY")
    /\ UNCHANGED <<ledgerVars, method, overlap>>

ResumeCommit(c) ==
    /\ pc[c] = "answered"
    /\ action[c] = "COMMIT"
    /\ IF ~answer[c].success
       THEN /\ state' = "Failed"
            /\ Settle(c, "failed", answer[c])
       ELSE /\ state' = "Committed"
            /\ IF method[c] = "awaitReceipt"
               THEN Settle(c, "receipt", answer[c])
               ELSE Notify(c, "VERIFY")
    /\ UNCHANGED <<ledgerVars, method, overlap>>

\* Mutant: the server's word for the state.
ResumeVerifyFinalized(c) ==
    /\ pc[c] = "answered"
    /\ action[c] = "VERIFY"
    /\ state' = TxStatus
    /\ Settle(c, "receipt", answer[c])
    /\ UNCHANGED <<ledgerVars, method, overlap>>

\* awaitVerifyReceipt goes on with the receipt of the verification.
ResumeVerify(c) ==
    /\ pc[c] = "answered"
    /\ action[c] = "VERIFY"
    /\ state' = "Verified"
    /\ Settle(c, "receipt", answer[c])
    /\ UNCHANGED <<ledgerVars, method, overlap>>

Poll(c) ==
    /\ PollLoop(c) \/ GetTxReceipt(c) \/ GetTxReceiptBlock(c)
    /\ UNCHANGED <<ledgerVars, handleVars>>

Server ==
    /\ ServerStep
    /\ UNCHANGED <<notifyVars, handleVars>>

Next ==
    \/ Server
    \/ \E c \in Calls, m \in Methods : Call(c, m)
    \/ \E c \in Calls : Poll(c) \/ ResumeCommit(c) \/ ResumeVerify(c) \/ RequestFails(c)

Spec == Init /\ [][Next]_vars

(***************************************************************************)
(* The event loop never drops a continuation and the polling loops have no *)
(* exit but the answer they wait for, so a call that can step does; the    *)
(* server is assumed to go on building, committing and finalizing blocks.  *)
(***************************************************************************)
Fairness ==
    /\ \A c \in Calls : WF_vars(Poll(c) \/ ResumeCommit(c) \/ ResumeVerify(c))
    /\ WF_vars((Include \/ Seal \/ Finalize) /\ UNCHANGED <<notifyVars, handleVars>>)

FairSpec == Spec /\ Fairness
-----------------------------------------------------------------------------
(***************************************************************************)
(* Safety.                                                                 *)
(***************************************************************************)

\* A handle says Verified only if the block of its transaction is final on
\* Rootstock, whatever the order in which concurrent calls resumed and even if
\* blocks were reverted on the way.
VerifiedIsFinal == state = "Verified" => BlockFinalized

\* An awaitVerifyReceipt that resolves does so only once the block is final, and
\* the receipt it gives says so, although it is read after the loop that saw it.
VerifyReceiptIsFinal ==
    \A c \in Calls :
        method[c] = "awaitVerifyReceipt" /\ outcome[c] = "receipt"
            => BlockFinalized /\ receiptOf[c].verified

\* As long as no block is reverted, the handle fails only for a transaction the
\* rollup rejected, and is Committed or Verified only for one it executed.
StateAgreesWithLedger ==
    reverts = 0 =>
        /\ state = "Failed" => Rejected
        /\ state \in {"Committed", "Verified"} => Included /\ ledger.success

(***************************************************************************)
(* Why they hold.  A call that has seen what it waits for still has up to  *)
(* four more steps to make, in which other calls run and the server goes   *)
(* on.  What it has seen must not be undone meanwhile: finality never is,  *)
(* and without reverts neither are inclusion and the verdict.              *)
(***************************************************************************)
SeenPcs == {"reread", "receipt", "block", "answered"}

PendingInv == \A c \in Calls : pc[c] # "done" => outcome[c] = "pending"

FinalityInv ==
    /\ \A c \in Calls : action[c] = "VERIFY" =>
        /\ pc[c] \in SeenPcs => BlockFinalized
        /\ pc[c] = "answered" => answer[c].verified
    /\ VerifiedIsFinal
    /\ VerifyReceiptIsFinal

VerdictInv ==
    /\ \A c \in Calls :
        /\ pc[c] \in SeenPcs => Included
        /\ pc[c] = "block" => Rejected
        /\ pc[c] = "answered" => answer[c].success = ledger.success
        /\ pc[c] \in PollPcs \cup {"answered"} /\ action[c] = "VERIFY"
              => Included /\ ledger.success
    /\ StateAgreesWithLedger

IInv == PendingInv /\ FinalityInv /\ (reverts = 0 => VerdictInv)

\* Nobody waits for a verification while the handle is Sent; and with one call in
\* flight at a time, what that call waits for fits what the handle says.
TurnInv ==
    /\ \A c \in Calls :
        pc[c] \in PollPcs \cup {"answered"} /\ action[c] = "VERIFY" => state # "Sent"
    /\ ~overlap =>
        /\ \A c, d \in InFlight : c = d
        /\ \A c \in Calls : pc[c] \in PollPcs \cup {"answered"} =>
             state \in IF action[c] = "COMMIT" THEN {"Sent"} ELSE {"Committed", "Verified"}

(***************************************************************************)
(* Action properties.                                                      *)
(***************************************************************************)

\* A program that awaits each call before the next sees state only advance.
\* With calls in flight together a late answer to an awaitReceipt may take a
\* Verified handle back to Committed, but with no reverts nothing leaves Failed.
StateAdvances ==
    [][state' # state =>
         \/ <<state, state'>> \in {<<"Sent", "Committed">>, <<"Sent", "Failed">>,
                                   <<"Committed", "Verified">>}
         \/ overlap /\ <<state, state'>> = <<"Verified", "Committed">>
         \/ overlap /\ reverts > 0]_vars

(***************************************************************************)
(* Liveness.                                                               *)
(***************************************************************************)

\* Every call settles: no answer of the server leaves one polling for good.  Only
\* a call over WebSocket whose subscription is lost stays pending.
EveryCallSettles ==
    \A c \in Calls : pc[c] # "idle" ~> \/ pc[c] = "done"
                                       \/ provider = "WS" /\ pc[c] = "lost"

\* What the documentation shows and the type Promise<TransactionReceipt> says of
\* awaitReceipt: a call that resolves gives the receipt of the commit, at least
\* to a program that awaits each call before the next.
AwaitReceiptGivesReceipt ==
    \A c \in Calls : ~overlap /\ method[c] = "awaitReceipt" => outcome[c] # "undefined"

(***************************************************************************)
(* Refinement: every call settles as AwaitContract says.                   *)
(***************************************************************************)
Promise(c) ==
    IF pc[c] = "idle" THEN "none" ELSE outcome[c]

Contract ==
    INSTANCE AwaitContract WITH promise <- [c \in Calls |-> Promise(c)]

\* The handle keeps the documented promise to each of its callers: it never
\* resolves before the commit or the verification the call was made for, and
\* blames the rollup only for what the rollup rejected.
ImplementsContract == Contract!Spec
=============================================================================
