--------------------------- MODULE AwaitContract ----------------------------
(***************************************************************************)
(* What docs/utils/README.md ("Awaiting for operation completion")         *)
(* promises the caller of awaitReceipt and awaitVerifyReceipt, without     *)
(* handles, providers or polling: how each promise may settle, given where *)
(* the transaction stands on the rollup.                                   *)
(***************************************************************************)
EXTENDS RollupLedger

CONSTANT Calls

VARIABLES
    method,         \* the method of each call
    promise         \* "none" before the call, "pending", or how it settled

contractVars == <<ledgerVars, method, promise>>

Methods == {"awaitReceipt", "awaitVerifyReceipt"}

Init ==
    /\ LedgerInit
    /\ method = [c \in Calls |-> "awaitReceipt"]
    /\ promise = [c \in Calls |-> "none"]

(***************************************************************************)
(* A receipt is the word of the rollup that it has executed the            *)
(* transaction, and of Rootstock that the block is final if that is what   *)
(* the call waited for.  Only awaitReceipt may resolve without a receipt:  *)
(* then somebody has been told already.  The handle's own error means that *)
(* the rollup has rejected the transaction, and no other failure says      *)
(* anything about it.  A reverted block takes a verdict back: after one,   *)
(* what a caller learns of execution may be of an earlier attempt, but     *)
(* finality stays the word of Rootstock.                                   *)
(***************************************************************************)
MayBeExecuted == (Included /\ ledger.success) \/ reverts > 0

MayBeRejected == Rejected \/ reverts > 0

MaySettle(m, how) ==
    \/ how = "receipt" /\ MayBeExecuted /\ (m = "awaitVerifyReceipt" => BlockFinalized)
    \/ how = "undefined" /\ m = "awaitReceipt" /\ MayBeExecuted
    \/ how = "failed" /\ MayBeRejected
    \/ how = "requestError"

Outcomes == {"receipt", "undefined", "failed", "requestError"}

\* A call that finds the handle settled may settle at once.
Invoke(c) ==
    /\ promise[c] = "none"
    /\ \E m \in Methods :
        /\ method' = [method EXCEPT ![c] = m]
        /\ \E how \in {"pending", "undefined", "failed"} :
            /\ how = "pending" \/ MaySettle(m, how)
            /\ promise' = [promise EXCEPT ![c] = how]
    /\ UNCHANGED ledgerVars

Settle(c) ==
    /\ promise[c] = "pending"
    /\ \E how \in Outcomes :
        /\ MaySettle(method[c], how)
        /\ promise' = [promise EXCEPT ![c] = how]
    /\ UNCHANGED <<ledgerVars, method>>

Next ==
    \/ ServerStep /\ UNCHANGED <<method, promise>>
    \/ \E c \in Calls : Invoke(c) \/ Settle(c)

Spec == Init /\ [][Next]_contractVars
=============================================================================
