--------------------------- MODULE ProviderNotify ---------------------------
(***************************************************************************)
(* How the providers wait: notifyTransaction, notifyPriorityOp and         *)
(* notifyAnyTransaction of src/rest-provider.ts, and their counterparts of *)
(* src/provider.ts, which poll over HTTP and subscribe over WebSocket.     *)
(*                                                                         *)
(* JavaScript runs to completion between two awaits, so an action is what  *)
(* happens from one server answer to the next request.  Several calls poll *)
(* independently; each request of each call may be answered at any later   *)
(* time, with what the ledger says when the server answers.                *)
(*                                                                         *)
(* pc[c] names the request call c is suspended on:                         *)
(*   "status"    txStatus in the loop of notifyAnyTransaction              *)
(*   "position"  blockByPosition in that loop                              *)
(*   "reread"    the txStatus the loop returns with                        *)
(*   "receipt"   txStatus in getTxReceipt or getPriorityOpStatus           *)
(*   "block"     blockByPosition in getTxReceipt                           *)
(*   "info"      tx_info or ethop_info, the only request of the HTTP loop  *)
(*   "subscribe" tx_subscribe or ethop_subscribe over WebSocket            *)
(*   "event"     none: the server is to call back with the receipt         *)
(*   "lost"      none, for good: the subscription is not there any more    *)
(*   "answered"  none: answer[c] is on its way to the handle that called   *)
(* The remaining values belong to the handles that EXTEND this module.     *)
(***************************************************************************)
EXTENDS RollupLedger

CONSTANTS
    Calls,          \* the method invocations a program makes on one handle
    ProviderTypes   \* the providers a handle may be made with

ASSUME ProviderAssumption == ProviderTypes \subseteq {"Rest", "HTTP", "WS"}

VARIABLES
    provider,       \* the provider the handle was made with
    pc,             \* where each call is suspended
    action,         \* the action each call asks to be notified of
    answer          \* the receipt each call was answered with

notifyVars == <<provider, pc, action, answer>>

Actions == {"COMMIT", "VERIFY"}

PollPcs == {"status", "position", "reread", "receipt", "block", "info",
            "subscribe", "event"}

NotifyTypeOK(handlePcs) ==
    /\ provider \in ProviderTypes
    /\ pc \in [Calls -> PollPcs \cup {"answered", "lost"} \cup handlePcs]
    /\ action \in [Calls -> Actions]
    /\ answer \in [Calls -> Receipt]

NotifyInit ==
    /\ provider \in ProviderTypes
    /\ pc = [c \in Calls |-> "idle"]
    /\ action = [c \in Calls |-> "COMMIT"]
    /\ answer = [c \in Calls |-> NoReceipt]

(***************************************************************************)
(* The request with which a provider starts to wait.                       *)
(***************************************************************************)
FirstRequest ==
    CASE provider = "Rest" -> "status"
      [] provider = "HTTP" -> "info"
      [] OTHER             -> "subscribe"

Goto(c, there) ==
    /\ pc' = [pc EXCEPT ![c] = there]
    /\ UNCHANGED <<provider, action, answer>>

Answer(c, receipt) ==
    /\ pc' = [pc EXCEPT ![c] = "answered"]
    /\ answer' = [answer EXCEPT ![c] = receipt]
    /\ UNCHANGED <<provider, action>>

(***************************************************************************)
(* The REST loop.  A poll that does not find the action done sleeps and    *)
(* polls again: it leaves the call where it is.                            *)
(***************************************************************************)
CommitDone(c) == action[c] = "COMMIT" /\ Included

\* Mutant: any block will do.
VerifyDoneInAnyBlock(c) == action[c] = "VERIFY" /\ Included

VerifyDone(c) == action[c] = "VERIFY" /\ TxStatus = "finalized"

\* Mutant: the loop waits for "finalized", which a rejected transaction never is.
PollStatusOnly(c) ==
    /\ pc[c] = "status"
    /\ CommitDone(c) \/ VerifyDone(c)
    /\ Goto(c, "reread")

PollStatus(c) ==
    /\ pc[c] = "status"
    /\ IF action[c] = "VERIFY" /\ TxStatus = "rejected"
       THEN Goto(c, "position")
       ELSE (CommitDone(c) \/ VerifyDone(c)) /\ Goto(c, "reread")

PollPosition(c) ==
    /\ pc[c] = "position"
    /\ Goto(c, IF BlockFinalized THEN "reread" ELSE "status")

Reread(c) ==
    /\ pc[c] = "reread"
    /\ Goto(c, "receipt")

(***************************************************************************)
(* getTxReceipt: only a rejected transaction needs the second query, whose *)
(* answer says how far the block is.                                       *)
(***************************************************************************)
GetTxReceipt(c) ==
    /\ pc[c] = "receipt"
    /\ CASE TxStatus = "queued"   -> Answer(c, NoReceipt)
         [] TxStatus = "rejected" -> Goto(c, "block")
         [] OTHER ->
              Answer(c, [executed |-> TRUE, success |-> TRUE, committed |-> TRUE,
                         verified |-> TxStatus = "finalized"])

GetTxReceiptBlock(c) ==
    /\ pc[c] = "block"
    /\ Answer(c, [executed |-> TRUE, success |-> FALSE,
                  committed |-> BlockCommitted, verified |-> BlockFinalized])

\* A priority operation is never rejected, and its receipt has no success field.
GetPriorityOpStatus(c) ==
    /\ pc[c] = "receipt"
    /\ Answer(c, IF Included
                 THEN [executed |-> TRUE, success |-> FALSE, committed |-> TRUE,
                       verified |-> TxStatus = "finalized"]
                 ELSE NoReceipt)

(***************************************************************************)
(* The HTTP loop returns the receipt that ended it, without a second read. *)
(***************************************************************************)
PollInfo(c) ==
    /\ pc[c] = "info"
    /\ IF action[c] = "COMMIT" THEN BlockCommitted ELSE BlockFinalized
    /\ Answer(c, ServerReceipt)

(***************************************************************************)
(* Over WebSocket the call waits for the server to acknowledge the         *)
(* subscription, which registers its callback, and then for the event.  A  *)
(* repeated event would only resolve the promise again.  The promise has   *)
(* no reject path: a failed request or a closed socket leaves it pending.  *)
(***************************************************************************)
Subscribe(c) ==
    /\ pc[c] = "subscribe"
    /\ Goto(c, "event")

\* Mutant: the event of the commit ends a wait for the verification.
SubscriptionEventOnCommit(c) ==
    /\ pc[c] = "event"
    /\ BlockCommitted
    /\ Answer(c, ServerReceipt)

SubscriptionEvent(c) ==
    /\ pc[c] = "event"
    /\ IF action[c] = "COMMIT" THEN BlockCommitted ELSE BlockFinalized
    /\ Answer(c, ServerReceipt)

SubscriptionLost(c) ==
    /\ pc[c] \in {"subscribe", "event"}
    /\ Goto(c, "lost")

PollLoop(c) ==
    \/ PollStatus(c) \/ PollPosition(c) \/ Reread(c) \/ PollInfo(c)
    \/ Subscribe(c) \/ SubscriptionEvent(c)
=============================================================================
