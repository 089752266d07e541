----------------------------- MODULE OpTracking -----------------------------
(***************************************************************************)
(* The RootstockOperation handle of src/operations.ts: a priority          *)
(* operation (deposit, emergency withdrawal) is first mined on Rootstock,  *)
(* which gives it its priority id, and then executed by the rollup.        *)
(*                                                                         *)
(* awaitReceipt runs awaitRootstockTxCommit, and awaitVerifyReceipt runs   *)
(* awaitReceipt.  The continuation of the outer method follows that of the *)
(* inner one in the same turn of the event loop, before another answer is  *)
(* delivered, so each action below runs through all of them.               *)
(***************************************************************************)
EXTENDS HandleCalls

CONSTANT
    L1Outcomes      \* what may become of the Rootstock transaction: "mined";
                    \* "reverted"; "unlogged", mined with no priority id in its logs

ASSUME L1Assumption == L1Outcomes \subseteq {"mined", "reverted", "unlogged"}

VARIABLES
    l1,             \* the Rootstock transaction: "pending" or one of L1Outcomes
    priorityOpId    \* whether the handle knows its priority id

opVars == <<l1, priorityOpId>>

vars == <<ledgerVars, notifyVars, handleVars, opVars>>

States == {"Sent", "Mined", "Committed", "Verified", "Failed"}

Methods == {"awaitRootstockTxCommit", "awaitReceipt", "awaitVerifyReceipt"}

TypeOK ==
    /\ LedgerTypeOK
    /\ HandleTypeOK(States, Methods, {"mining"})
    /\ l1 \in L1Outcomes \cup {"pending"}
    /\ priorityOpId \in BOOLEAN

Init ==
    /\ LedgerInit
    /\ HandleInit
    /\ l1 = "pending"
    /\ priorityOpId = FALSE

(***************************************************************************)
(* The methods up to their first request.  awaitRootstockTxCommit returns  *)
(* at once unless the handle is Sent, without asking whether it Failed;    *)
(* the other two throw the error of a Failed handle.                       *)
(***************************************************************************)
AwaitMining(c) ==
    /\ pc' = [pc EXCEPT ![c] = "mining"]
    /\ UNCHANGED <<provider, action, answer, outcome, receiptOf>>

\* Mutant: awaitVerifyReceipt expects Mined where it must expect Committed.
CallVerifiesMined(c, m) ==
    /\ Invoke(c, m)
    /\ CASE state = "Sent" -> AwaitMining(c)
         [] state = "Failed" /\ m # "awaitRootstockTxCommit" ->
              Settle(c, "failed", NoReceipt)
         [] state = "Mined" /\ m # "awaitRootstockTxCommit" ->
              Notify(c, "COMMIT")
         [] OTHER -> Settle(c, "undefined", NoReceipt)
    /\ UNCHANGED <<ledgerVars, state, opVars>>

\* Mutant: awaitRootstockTxCommit without its early return.
CallMinesAgain(c, m) ==
    /\ Invoke(c, m)
    /\ AwaitMining(c)
    /\ UNCHANGED <<ledgerVars, state, opVars>>

Call(c, m) ==
    /\ Invoke(c, m)
    /\ CASE state = "Sent" -> AwaitMining(c)
         [] state # "Sent" /\ m = "awaitRootstockTxCommit" ->
              Settle(c, "undefined", NoReceipt)
         [] state = "Failed" /\ m # "awaitRootstockTxCommit" ->
              Settle(c, "failed", NoReceipt)
         [] state = "Mined" /\ m # "awaitRootstockTxCommit" ->
              Notify(c, "COMMIT")
         [] state = "Committed" /\ m = "awaitVerifyReceipt" ->
              Notify(c, "VERIFY")
         [] OTHER -> Settle(c, "undefined", NoReceipt)
    /\ UNCHANGED <<ledgerVars, state, opVars>>

(***************************************************************************)
(* ethTx.wait() resolves.  Whatever state another call has reached, the    *)
(* handle becomes Mined, and a method that wants more asks for the commit. *)
(* wait() throws for a reverted transaction, and the code for one whose    *)
(* logs hold no priority id: the handle stays as it was.                   *)
(***************************************************************************)
\* Mutant: logs without a priority id are not an error.
ResumeMinedUnlogged(c) ==
    /\ pc[c] = "mining"
    /\ l1 \in {"mined", "unlogged"}
    /\ priorityOpId' = (l1 = "mined")
    /\ state' = "Mined"
    /\ IF method[c] = "awaitRootstockTxCommit"
       THEN Settle(c, "receipt", NoReceipt)
       ELSE Notify(c, "COMMIT")
    /\ UNCHANGED <<ledgerVars, method, overlap, l1>>

\* Mutant: a reverted transaction counts as mined.
ResumeMinedReverted(c) ==
    /\ pc[c] = "mining"
    /\ l1 \in {"mined", "reverted"}
    /\ priorityOpId' = TRUE
    /\ state' = "Mined"
    /\ IF method[c] = "awaitRootstockTxCommit"
       THEN Settle(c, "receipt", NoReceipt)
       ELSE Notify(c, "COMMIT")
    /\ UNCHANGED <<ledgerVars, method, overlap, l1>>

ResumeMined(c) ==
    /\ pc[c] = "mining"
    /\ l1 = "mined"
    /\ priorityOpId' = TRUE
    /\ state' = "Mined"
    /\ IF method[c] = "awaitRootstockTxCommit"
       THEN Settle(c, "receipt", NoReceipt)
       ELSE Notify(c, "COMMIT")
    /\ UNCHANGED <<ledgerVars, method, overlap, l1>>

\* Mutant: nothing is thrown for logs without a priority id.
MiningFailsReverted(c) ==
    /\ pc[c] = "mining"
    /\ l1 = "reverted"
    /\ Settle(c, "requestError", NoReceipt)
    /\ UNCHANGED <<ledgerVars, state, method, overlap, opVars>>

MiningFails(c) ==
    /\ pc[c] = "mining"
    /\ l1 \in {"reverted", "unlogged"}
    /\ Settle(c, "requestError", NoReceipt)
    /\ UNCHANGED <<ledgerVars, state, method, overlap, opVars>>

\* wait() rejects for another reason: a request to the Rootstock node fails, the
\* transaction is replaced.  It may do so whatever becomes of the transaction.
WaitFails(c) ==
    /\ pc[c] = "mining"
    /\ Settle(c, "requestError", NoReceipt)
    /\ UNCHANGED <<ledgerVars, state, method, overlap, opVars>>

\* awaitReceipt goes on with the receipt of the commit.
ResumeCommit(c) ==
    /\ pc[c] = "answered"
    /\ action[c] = "COMMIT"
    /\ IF ~answer[c].executed
       THEN /\ state' = "Failed"
            /\ Settle(c, "failed", answer[c])
       ELSE /\ state' = "Committed"
            /\ IF method[c] = "awaitReceipt"
               THEN Settle(c, "receipt", answer[c])
               ELSE Notify(c, "VERIFY")
    /\ UNCHANGED <<ledgerVars, method, overlap, opVars>>

\* Mutant: the server's word for the state.
ResumeVerifyFinalized(c) ==
    /\ pc[c] = "answered"
    /\ action[c] = "VERIFY"
    /\ state' = TxStatus
    /\ Settle(c, "receipt", answer[c])
    /\ UNCHANGED <<ledgerVars, method, overlap, opVars>>

\* awaitVerifyReceipt goes on with the receipt of the verification.
ResumeVerify(c) ==
    /\ pc[c] = "answered"
    /\ action[c] = "VERIFY"
    /\ state' = "Verified"
    /\ Settle(c, "receipt", answer[c])
    /\ UNCHANGED <<ledgerVars, method, overlap, opVars>>

Poll(c) ==
    /\ PollLoop(c) \/ GetPriorityOpStatus(c)
    /\ UNCHANGED <<ledgerVars, handleVars, opVars>>

\* The Rootstock network mines the transaction, successfully or not.
Mine ==
    /\ l1 = "pending"
    /\ l1' \in L1Outcomes
    /\ UNCHANGED <<ledgerVars, notifyVars, handleVars, priorityOpId>>

\* The rollup executes the operation only after Rootstock has mined it.
Server ==
    /\ l1 = "mined"
    /\ ServerStep
    /\ UNCHANGED <<notifyVars, handleVars, opVars>>

Resume(c) == ResumeMined(c) \/ MiningFails(c) \/ ResumeCommit(c) \/ ResumeVerify(c)

Next ==
    \/ Mine \/ Server
    \/ \E c \in Calls, m \in Methods : Call(c, m)
    \/ \E c \in Calls :
        Poll(c) \/ Resume(c) \/ WaitFails(c) \/ (RequestFails(c) /\ UNCHANGED opVars)

Spec == Init /\ [][Next]_vars

(***************************************************************************)
(* As in TxTracking, with Rootstock assumed to mine what was sent to it.   *)
(***************************************************************************)
Fairness ==
    /\ \A c \in Calls : WF_vars(Poll(c) \/ Resume(c))
    /\ WF_vars(Mine)
    /\ WF_vars(l1 = "mined" /\ (Include \/ Seal \/ Finalize)
               /\ UNCHANGED <<notifyVars, handleVars, opVars>>)

FairSpec == Spec /\ Fairness
-----------------------------------------------------------------------------
(***************************************************************************)
(* Safety.                                                                 *)
(***************************************************************************)

\* What the handle says of its operation is so: Mined on Rootstock, and with no
\* reverts Committed in a rollup block; and it never says Failed of an operation
\* the rollup cannot reject.
StateAgreesWithLedger ==
    /\ state # "Sent" => l1 = "mined"
    /\ reverts = 0 =>
        /\ state # "Failed"
        /\ state \in {"Committed", "Verified"} => Included

\* An awaitVerifyReceipt that resolves, with a receipt or without one, does so
\* only when the operation is final: a call that another one has made redundant,
\* or whose handle another one has taken back to Mined, does not return early.
VerifyResolvesFinal ==
    \A c \in Calls :
        method[c] = "awaitVerifyReceipt" /\ outcome[c] \in {"receipt", "undefined"}
            => BlockFinalized

\* A Verified handle stands for a final operation, reverts or not.
VerifiedIsFinal == state = "Verified" => BlockFinalized

\* Nobody asks the server about an operation whose priority id the handle does
\* not know: that request would dereference an undefined priorityOpId.
AsksWithPriorityId ==
    \A c \in Calls : pc[c] \in PollPcs \cup {"answered"} => priorityOpId

(***************************************************************************)
(* Why.  Nothing but the mining of the Rootstock transaction takes the     *)
(* handle out of Sent or gives it the priority id.  A call that is past    *)
(* its loop has seen what it waited for: finality is not undone, and       *)
(* without reverts neither is inclusion.                                   *)
(***************************************************************************)
SeenPcs == {"reread", "receipt", "answered"}

PendingInv == \A c \in Calls : pc[c] # "done" => outcome[c] = "pending"

MinedInv ==
    /\ priorityOpId => l1 = "mined"
    /\ state # "Sent" => priorityOpId
    /\ AsksWithPriorityId

FinalityInv ==
    /\ \A c \in Calls : action[c] = "VERIFY" /\ pc[c] \in SeenPcs => BlockFinalized
    /\ VerifiedIsFinal
    /\ VerifyResolvesFinal

InclusionInv ==
    /\ \A c \in Calls :
        /\ pc[c] \in SeenPcs => Included
        /\ pc[c] = "answered" => answer[c].executed
    /\ state # "Failed"
    /\ state \in {"Committed", "Verified"} => Included

IInv == PendingInv /\ MinedInv /\ FinalityInv /\ (reverts = 0 => InclusionInv)

\* Nobody waits for the server while the handle is Sent; and with one call in flight
\* at a time, what that call waits for is what comes next for the handle.
TurnInv ==
    /\ priorityOpId => state # "Sent"
    /\ ~overlap =>
        /\ \A c, d \in InFlight : c = d
        /\ \A c \in Calls :
            /\ pc[c] = "mining" => state = "Sent"
            /\ pc[c] \in PollPcs \cup {"answered"} =>
                 state = IF action[c] = "COMMIT" THEN "Mined" ELSE "Committed"

(***************************************************************************)
(* Action property.                                                        *)
(***************************************************************************)
Order == <<"Sent", "Mined", "Committed", "Verified">>

\* A program that awaits each call before the next sees state advance one step
\* at a time, and Failed only after Mined.  With several calls in flight a late
\* answer may take it back, but never to Sent.
StateAdvances ==
    [][state' # state =>
         \/ \E i \in 1 .. 3 : state = Order[i] /\ state' = Order[i + 1]
         \/ state = "Mined" /\ state' = "Failed"
         \/ overlap /\ state # "Sent" /\ state' # "Sent"]_vars

(***************************************************************************)
(* Liveness.                                                               *)
(***************************************************************************)

\* Every call settles, whatever became of the Rootstock transaction, unless its
\* subscription over WebSocket is lost.
EveryCallSettles ==
    \A c \in Calls : pc[c] # "idle" ~> \/ pc[c] = "done"
                                       \/ provider = "WS" /\ pc[c] = "lost"
=============================================================================
