---------------------------- MODULE RollupLedger ----------------------------
(***************************************************************************)
(* The rollup server as one operation sees it through the API.  The server *)
(* is not part of the SDK: this module is read off the answers that        *)
(* src/rest-provider.ts and src/provider.ts distinguish, and off the       *)
(* comment that the status of a transaction may change between two queries *)
(* (notifyAnyTransaction).                                                 *)
(*                                                                         *)
(* An operation waits in the mempool (block "none"), is put in a block     *)
(* that is still open, and the block is then committed and finalized on    *)
(* Rootstock.  Executing it in the block either succeeds or rejects it.    *)
(* A block that is not final may be reverted, which the client can observe *)
(* as an operation that was in a block and is not any more; MaxReverts     *)
(* bounds how often.                                                       *)
(***************************************************************************)
EXTENDS Integers

CONSTANTS
    MaxReverts,     \* bound on the blocks reverted under the operation
    Verdicts        \* what execution may say: TRUE succeeds, FALSE rejects

ASSUME LedgerAssumption ==
    /\ MaxReverts \in Nat
    /\ Verdicts \subseteq BOOLEAN

VARIABLES
    ledger,         \* [block, success]: where the operation stands
    reverts         \* number of blocks reverted so far

ledgerVars == <<ledger, reverts>>

BlockStates == {"none", "open", "committed", "finalized"}

LedgerTypeOK ==
    /\ ledger \in [block : BlockStates, success : BOOLEAN]
    /\ reverts \in 0 .. MaxReverts

LedgerInit ==
    /\ ledger = [block |-> "none", success |-> FALSE]
    /\ reverts = 0

(***************************************************************************)
(* Server steps.                                                           *)
(***************************************************************************)
Include ==
    /\ ledger.block = "none"
    /\ \E v \in Verdicts : ledger' = [block |-> "open", success |-> v]
    /\ UNCHANGED reverts

Seal ==
    /\ ledger.block = "open"
    /\ ledger' = [ledger EXCEPT !.block = "committed"]
    /\ UNCHANGED reverts

Finalize ==
    /\ ledger.block = "committed"
    /\ ledger' = [ledger EXCEPT !.block = "finalized"]
    /\ UNCHANGED reverts

Revert ==
    /\ reverts < MaxReverts
    /\ ledger.block \in {"open", "committed"}
    /\ ledger' = [block |-> "none", success |-> FALSE]
    /\ reverts' = reverts + 1

ServerStep == Include \/ Seal \/ Finalize \/ Revert

(***************************************************************************)
(* What the answers say.  rollupBlock is set exactly when Included.        *)
(* txStatus reports "rejected" whatever the block's state, which is why    *)
(* the REST client asks blockByPosition as well; that query finds no block *)
(* until the block is committed.                                           *)
(***************************************************************************)
Included == ledger.block # "none"

Rejected == Included /\ ~ledger.success

TxStatus ==
    CASE ~Included                       -> "queued"
      [] Rejected                        -> "rejected"
      [] ledger.block = "finalized"
         /\ ledger.success               -> "finalized"
      [] OTHER                           -> "committed"

BlockCommitted == ledger.block \in {"committed", "finalized"}

BlockFinalized == ledger.block = "finalized"

Receipt == [executed : BOOLEAN, success : BOOLEAN,
            committed : BOOLEAN, verified : BOOLEAN]

NoReceipt == [executed |-> FALSE, success |-> FALSE,
              committed |-> FALSE, verified |-> FALSE]

\* The answer of the JSON-RPC methods tx_info and ethop_info.
ServerReceipt ==
    [executed |-> Included, success |-> Included /\ ledger.success,
     committed |-> BlockCommitted, verified |-> BlockFinalized]
=============================================================================
