-------------------------- MODULE TxTracking_proofs --------------------------
(***************************************************************************)
(* Proofs about TxTracking, for every set of calls, every kind of provider *)
(* and every bound on reverts.                                             *)
(***************************************************************************)
EXTENDS TxTracking, TLAPS

(***************************************************************************)
(* Type correctness.                                                       *)
(***************************************************************************)
LEMMA LedgerStepType == LedgerTypeOK /\ ServerStep => LedgerTypeOK'
<1> SUFFICES ASSUME LedgerTypeOK, ServerStep PROVE LedgerTypeOK'
  OBVIOUS
<1> USE LedgerAssumption DEF LedgerTypeOK, BlockStates
<1>1. CASE Include
  BY <1>1 DEF Include
<1>2. CASE Seal
  BY <1>2 DEF Seal
<1>3. CASE Finalize
  BY <1>3 DEF Finalize
<1>4. CASE Revert
  BY <1>4 DEF Revert
<1>5. QED BY <1>1, <1>2, <1>3, <1>4 DEF ServerStep

\* A call begins with a request of a polling loop.
LEMMA FirstRequestType == FirstRequest \in PollPcs
  BY DEF FirstRequest, PollPcs

\* The answers of the server are receipts.
LEMMA ReceiptTypes ==
    /\ NoReceipt \in Receipt
    /\ LedgerTypeOK => ServerReceipt \in Receipt
  BY DEF NoReceipt, Receipt, ServerReceipt, LedgerTypeOK, Included, BlockCommitted,
         BlockFinalized

\* The two ways in which a provider moves a call keep the types of its variables.
LEMMA MoveTypes ==
    ASSUME HandleTypeOK(States, Methods, {}), NEW c \in Calls,
           UNCHANGED <<state, method, overlap>>
    PROVE  /\ \A there \in PollPcs \cup {"lost"} :
                Goto(c, there) /\ UNCHANGED <<outcome, receiptOf>>
                   => HandleTypeOK(States, Methods, {})'
           /\ \A receipt \in Receipt :
                Answer(c, receipt) /\ UNCHANGED <<outcome, receiptOf>>
                   => HandleTypeOK(States, Methods, {})'
  BY DEF HandleTypeOK, NotifyTypeOK, Goto, Answer

\* The state, the promises and the polling loops of a handle keep their types,
\* so in particular state is always one of the four the class declares.
THEOREM TypeCorrect == Spec => []TypeOK
<1>1. Init => TypeOK
  <2>1. Init => LedgerTypeOK
    BY LedgerAssumption DEF Init, LedgerInit, LedgerTypeOK, BlockStates
  <2>2. Init => HandleTypeOK(States, Methods, {})
    <3>1. Init => NotifyTypeOK({"idle", "done"} \cup {})
      BY ReceiptTypes DEF Init, HandleInit, NotifyInit, NotifyTypeOK, Actions
    <3>2. Init => /\ state \in States /\ method \in [Calls -> Methods]
                  /\ outcome \in [Calls -> Outcomes] /\ receiptOf \in [Calls -> Receipt]
      BY ReceiptTypes DEF Init, HandleInit, States, Methods, Outcomes
    <3>3. Init => overlap \in BOOLEAN
      BY DEF Init, HandleInit
    <3>4. QED BY <3>1, <3>2, <3>3 DEF HandleTypeOK
  <2>3. QED BY <2>1, <2>2 DEF TypeOK
<1>2. TypeOK /\ [Next]_vars => TypeOK'
  <2> SUFFICES ASSUME TypeOK, [Next]_vars PROVE TypeOK'
    OBVIOUS
  <2>1. CASE Server
    BY <2>1, LedgerStepType
       DEF Server, TypeOK, HandleTypeOK, NotifyTypeOK, notifyVars, handleVars
  <2>2. ASSUME NEW c \in Calls, NEW m \in Methods, Call(c, m) PROVE TypeOK'
    <3> USE <2>2, FirstRequestType, ReceiptTypes
        DEF TypeOK, LedgerTypeOK, HandleTypeOK, NotifyTypeOK, Actions, Outcomes, Invoke,
            ledgerVars
    <3>1. ASSUME NEW how \in Outcomes, NEW r \in Receipt, Settle(c, how, r) PROVE TypeOK'
      BY <3>1 DEF Settle, Call
    <3>2. ASSUME NEW act \in Actions, Notify(c, act) PROVE TypeOK'
      BY <3>2 DEF Notify, Call
    <3>3. QED BY <3>1, <3>2 DEF Call
  <2>3. ASSUME NEW c \in Calls, Poll(c) PROVE TypeOK'
    <3>1. LedgerTypeOK' /\ UNCHANGED <<state, method, outcome, receiptOf, overlap>>
      BY <2>3 DEF Poll, TypeOK, LedgerTypeOK, ledgerVars, handleVars
    <3>2. \/ \E there \in PollPcs : Goto(c, there)
          \/ \E receipt \in Receipt : Answer(c, receipt)
      <4>1. CASE PollLoop(c)
        BY <4>1, ReceiptTypes
           DEF TypeOK, PollLoop, PollStatus, PollPosition, Reread, PollInfo, Subscribe,
               SubscriptionEvent, PollPcs
      <4>2. CASE GetTxReceipt(c)
        <5>1. \/ Answer(c, NoReceipt)
              \/ Goto(c, "block")
              \/ Answer(c, [executed |-> TRUE, success |-> TRUE, committed |-> TRUE,
                            verified |-> TxStatus = "finalized"])
          BY <4>2 DEF GetTxReceipt
        <5>2. [executed |-> TRUE, success |-> TRUE, committed |-> TRUE,
               verified |-> TxStatus = "finalized"] \in Receipt
          BY DEF Receipt
        <5>3. QED BY <5>1, <5>2, ReceiptTypes DEF PollPcs
      <4>3. CASE GetTxReceiptBlock(c)
        <5>1. [executed |-> TRUE, success |-> FALSE, committed |-> BlockCommitted,
               verified |-> BlockFinalized] \in Receipt
          BY DEF Receipt, BlockCommitted, BlockFinalized
        <5>2. QED BY <4>3, <5>1 DEF GetTxReceiptBlock
      <4>4. QED BY <2>3, <4>1, <4>2, <4>3 DEF Poll
    <3>3. HandleTypeOK(States, Methods, {})'
      BY <3>1, <3>2, MoveTypes DEF TypeOK
    <3>4. QED BY <3>1, <3>3 DEF TypeOK
  <2>4. ASSUME NEW c \in Calls, ResumeCommit(c) PROVE TypeOK'
    <3> USE <2>4, FirstRequestType
        DEF TypeOK, LedgerTypeOK, HandleTypeOK, NotifyTypeOK, Actions, Outcomes, States,
            ledgerVars, ResumeCommit
    <3>1. ASSUME NEW how \in Outcomes, Settle(c, how, answer[c]) PROVE TypeOK'
      BY <3>1 DEF Settle
    <3>2. CASE Notify(c, "VERIFY")
      BY <3>2 DEF Notify
    <3>3. QED BY <3>1, <3>2
  <2>5. ASSUME NEW c \in Calls, ResumeVerify(c) PROVE TypeOK'
    BY <2>5 DEF ResumeVerify, Settle, TypeOK, LedgerTypeOK, HandleTypeOK, NotifyTypeOK,
                Outcomes, States, ledgerVars
  <2>6. ASSUME NEW c \in Calls, RequestFails(c) PROVE TypeOK'
    <3> USE DEF RequestFails, TypeOK, LedgerTypeOK, ledgerVars
    <3>1. CASE Settle(c, "requestError", NoReceipt)
      BY <2>6, <3>1, ReceiptTypes DEF Settle, HandleTypeOK, NotifyTypeOK, Outcomes
    <3>2. CASE SubscriptionLost(c) /\ UNCHANGED <<outcome, receiptOf>>
      BY <2>6, <3>2, MoveTypes DEF SubscriptionLost
    <3>3. QED BY <2>6, <3>1, <3>2
  <2>7. CASE UNCHANGED vars
    BY <2>7 DEF vars, TypeOK, LedgerTypeOK, HandleTypeOK, NotifyTypeOK, ledgerVars,
                notifyVars, handleVars
  <2>8. QED BY <2>1, <2>2, <2>3, <2>4, <2>5, <2>6, <2>7 DEF Next
<1>3. QED BY <1>1, <1>2, PTL DEF Spec
-----------------------------------------------------------------------------
(***************************************************************************)
(* The inductive invariant, one step per conjunct and action.              *)
(***************************************************************************)

\* Finality is never undone, and without reverts neither is a verdict.
LEMMA LedgerMonotonic ==
    ASSUME LedgerTypeOK, ServerStep
    PROVE  /\ BlockFinalized => UNCHANGED ledger
           /\ reverts' = 0 => reverts = 0
           /\ reverts' = 0 /\ Included =>
                Included' /\ ledger'.success = ledger.success
<1> USE DEF LedgerTypeOK, BlockStates, BlockFinalized, Included
<1>1. CASE Include
  BY <1>1 DEF Include
<1>2. CASE Seal
  BY <1>2 DEF Seal
<1>3. CASE Finalize
  BY <1>3 DEF Finalize
<1>4. CASE Revert
  BY <1>4, LedgerAssumption DEF Revert
<1>5. QED BY <1>1, <1>2, <1>3, <1>4 DEF ServerStep

\* PendingInv is inductive.
LEMMA PendingStep == TypeOK /\ PendingInv /\ [Next]_vars => PendingInv'
<1> SUFFICES ASSUME TypeOK, PendingInv, [Next]_vars PROVE PendingInv'
  OBVIOUS
<1> USE DEF TypeOK, HandleTypeOK, NotifyTypeOK, PendingInv
<1>1. CASE Server \/ UNCHANGED vars
  BY <1>1 DEF Server, vars, notifyVars, handleVars
<1>2. ASSUME NEW c \in Calls, NEW m \in Methods, Call(c, m) PROVE PendingInv'
  BY <1>2, FirstRequestType DEF Call, Invoke, Settle, Notify, PollPcs
<1>3. ASSUME NEW c \in Calls, Poll(c) PROVE PendingInv'
  <2>1. pc[c] # "done" /\ UNCHANGED outcome
    BY <1>3 DEF Poll, PollLoop, PollStatus, PollPosition, Reread, PollInfo, Subscribe,
                SubscriptionEvent, GetTxReceipt,
                GetTxReceiptBlock, handleVars
  <2>2. \E there : pc' = [pc EXCEPT ![c] = there]
    BY <1>3 DEF Poll, PollLoop, PollStatus, PollPosition, Reread, PollInfo, Subscribe,
                SubscriptionEvent, GetTxReceipt,
                GetTxReceiptBlock, Goto, Answer
  <2>3. QED BY <2>1, <2>2
<1>4. ASSUME NEW c \in Calls, ResumeCommit(c) PROVE PendingInv'
  BY <1>4 DEF ResumeCommit, Settle, Notify
<1>5. ASSUME NEW c \in Calls, ResumeVerify(c) PROVE PendingInv'
  BY <1>5 DEF ResumeVerify, Settle
<1>6. ASSUME NEW c \in Calls, RequestFails(c) PROVE PendingInv'
  BY <1>6 DEF RequestFails, Settle, SubscriptionLost, Goto
<1>7. QED BY <1>1, <1>2, <1>3, <1>4, <1>5, <1>6 DEF Next

\* FinalityInv is inductive.
LEMMA FinalityStep ==
    TypeOK /\ PendingInv /\ FinalityInv /\ [Next]_vars => FinalityInv'
<1> SUFFICES ASSUME TypeOK, PendingInv, FinalityInv, [Next]_vars PROVE FinalityInv'
  OBVIOUS
<1> USE DEF FinalityInv, VerifiedIsFinal, VerifyReceiptIsFinal
<1>1. CASE Server
  <2>1. UNCHANGED <<notifyVars, handleVars>> /\ (BlockFinalized => BlockFinalized')
    BY <1>1, LedgerMonotonic DEF Server, TypeOK, BlockFinalized
  <2>2. QED BY <2>1 DEF notifyVars, handleVars
<1>2. CASE UNCHANGED vars
  BY <1>2 DEF vars, ledgerVars, notifyVars, handleVars, BlockFinalized
<1>3. SUFFICES ASSUME UNCHANGED ledger, ~Server, ~UNCHANGED vars PROVE FinalityInv'
  BY <1>1, <1>2 DEF Next, Call, Poll, ResumeCommit, ResumeVerify, RequestFails, ledgerVars
<1> USE DEF BlockFinalized
<1>4. ASSUME NEW c \in Calls, NEW m \in Methods, Call(c, m) PROVE FinalityInv'
  <2> USE DEF TypeOK, HandleTypeOK, NotifyTypeOK
  <2>1. pc[c] = "idle" /\ outcome[c] = "pending" /\ UNCHANGED state
    BY <1>4 DEF Call, Invoke, PendingInv
  <2>2. FirstRequest \notin SeenPcs
    BY DEF FirstRequest, SeenPcs
  <2>3. CASE \E how \in {"failed", "undefined"} : Settle(c, how, NoReceipt)
    BY <1>3, <1>4, <2>1, <2>3 DEF Call, Invoke, Settle, SeenPcs
  <2>4. CASE \E act \in Actions : Notify(c, act)
    BY <1>3, <1>4, <2>1, <2>2, <2>4 DEF Call, Invoke, Notify, SeenPcs
  <2>5. QED BY <1>4, <2>3, <2>4 DEF Call, Actions
<1>5. ASSUME NEW c \in Calls, Poll(c) PROVE FinalityInv'
  <2> USE DEF TypeOK, HandleTypeOK, NotifyTypeOK, SeenPcs
  <2>1. UNCHANGED <<handleVars, action>>
    BY <1>5 DEF Poll, PollLoop, PollStatus, PollPosition, Reread, PollInfo, Subscribe,
                SubscriptionEvent, GetTxReceipt,
                GetTxReceiptBlock, Goto, Answer
  <2>2. CASE PollLoop(c)
    <3>1. CASE PollStatus(c) \/ PollPosition(c) \/ Reread(c)
      BY <1>3, <2>1, <3>1
         DEF PollStatus, PollPosition, Reread, Goto, CommitDone, VerifyDone, TxStatus,
             handleVars, Included, Actions
    <3>2. CASE PollInfo(c) \/ SubscriptionEvent(c)
      <4>1. /\ Answer(c, ServerReceipt)
            /\ action[c] = "VERIFY" => BlockFinalized
        BY <3>2 DEF PollInfo, SubscriptionEvent
      <4>2. QED BY <1>3, <2>1, <4>1 DEF Answer, ServerReceipt, handleVars
    <3>3. CASE Subscribe(c)
      BY <1>3, <2>1, <3>3 DEF Subscribe, Goto, handleVars
    <3>4. QED BY <2>2, <3>1, <3>2, <3>3 DEF PollLoop
  <2>3. CASE GetTxReceipt(c)
    BY <1>3, <2>1, <2>3
       DEF GetTxReceipt, Goto, Answer, TxStatus, Included, Rejected, handleVars, LedgerTypeOK
  <2>4. CASE GetTxReceiptBlock(c)
    BY <1>3, <2>1, <2>4 DEF GetTxReceiptBlock, Answer, handleVars
  <2>5. QED BY <1>5, <2>2, <2>3, <2>4 DEF Poll
<1>6. ASSUME NEW c \in Calls, ResumeCommit(c) PROVE FinalityInv'
  <2> USE DEF TypeOK, HandleTypeOK, NotifyTypeOK, SeenPcs
  <2>1. FirstRequest \notin SeenPcs
    BY DEF FirstRequest, SeenPcs
  <2>2. QED BY <1>3, <1>6, <2>1 DEF ResumeCommit, Settle, Notify
<1>7. ASSUME NEW c \in Calls, ResumeVerify(c) PROVE FinalityInv'
  BY <1>3, <1>7
     DEF ResumeVerify, Settle, TypeOK, HandleTypeOK, NotifyTypeOK, SeenPcs
<1>8. ASSUME NEW c \in Calls, RequestFails(c) PROVE FinalityInv'
  BY <1>3, <1>8
     DEF RequestFails, Settle, SubscriptionLost, Goto, TypeOK, HandleTypeOK,
         NotifyTypeOK, SeenPcs
<1>9. QED BY <1>3, <1>4, <1>5, <1>6, <1>7, <1>8 DEF Next

\* VerdictInv is inductive.
LEMMA VerdictStep ==
    ASSUME reverts' = 0, TypeOK, reverts = 0 => VerdictInv, [Next]_vars
    PROVE  VerdictInv'
<1>0. reverts = 0 /\ VerdictInv
  <2>1. CASE Server
    BY <2>1, LedgerMonotonic DEF Server, TypeOK
  <2>2. CASE UNCHANGED ledgerVars
    BY <2>2 DEF ledgerVars
  <2>3. QED BY <2>1, <2>2 DEF Next, Call, Poll, ResumeCommit, ResumeVerify, RequestFails, vars
<1> USE <1>0 DEF VerdictInv, StateAgreesWithLedger
<1>1. CASE Server
  <2>1. /\ UNCHANGED <<notifyVars, handleVars>>
        /\ Included => Included' /\ ledger'.success = ledger.success
    BY <1>1, LedgerMonotonic DEF Server, TypeOK
  <2>2. QED BY <2>1 DEF notifyVars, handleVars, Rejected, SeenPcs
<1>2. CASE UNCHANGED vars
  BY <1>2 DEF vars, ledgerVars, notifyVars, handleVars, Included, Rejected
<1>3. SUFFICES ASSUME UNCHANGED ledgerVars, ~Server, ~UNCHANGED vars PROVE VerdictInv'
  BY <1>1, <1>2 DEF Next, Call, Poll, ResumeCommit, ResumeVerify, RequestFails
<1> USE DEF Included, Rejected, ledgerVars
<1>4. ASSUME NEW c \in Calls, NEW m \in Methods, Call(c, m) PROVE VerdictInv'
  <2> USE DEF TypeOK, HandleTypeOK, NotifyTypeOK, SeenPcs
  <2>1. FirstRequest \in PollPcs \ SeenPcs
    BY DEF FirstRequest, SeenPcs, PollPcs
  <2>2. CASE \E how \in {"failed", "undefined"} : Settle(c, how, NoReceipt)
    BY <1>3, <1>4, <2>2 DEF Call, Settle, PollPcs
  <2>3. CASE Notify(c, "COMMIT")
    BY <1>3, <1>4, <2>1, <2>3 DEF Call, Notify
  <2>4. CASE Notify(c, "VERIFY") /\ state \notin {"Failed", "Sent"}
    BY <1>3, <1>4, <2>1, <2>4 DEF Call, Notify, States
  <2>5. QED BY <1>4, <2>2, <2>3, <2>4 DEF Call
<1>5. ASSUME NEW c \in Calls, Poll(c) PROVE VerdictInv'
  <2> USE DEF TypeOK, HandleTypeOK, NotifyTypeOK, SeenPcs, PollPcs
  <2>1. UNCHANGED <<handleVars, action>>
    BY <1>5 DEF Poll, PollLoop, PollStatus, PollPosition, Reread, PollInfo, Subscribe,
                SubscriptionEvent, GetTxReceipt,
                GetTxReceiptBlock, Goto, Answer
  <2>2. CASE PollLoop(c)
    <3>1. CASE PollStatus(c) \/ PollPosition(c) \/ Reread(c)
      BY <1>3, <2>1, <3>1
         DEF PollStatus, PollPosition, Reread, Goto, CommitDone, VerifyDone, TxStatus,
             BlockFinalized, handleVars
    <3>2. CASE PollInfo(c) \/ SubscriptionEvent(c)
      BY <1>3, <2>1, <3>2
         DEF PollInfo, SubscriptionEvent, Answer, ServerReceipt, BlockCommitted,
             BlockFinalized, handleVars, LedgerTypeOK
    <3>3. CASE Subscribe(c)
      BY <1>3, <2>1, <3>3 DEF Subscribe, Goto, handleVars
    <3>4. QED BY <2>2, <3>1, <3>2, <3>3 DEF PollLoop
  <2>3. CASE GetTxReceipt(c)
    <3>1. pc[c] = "receipt" /\ Included
      BY <2>3 DEF GetTxReceipt
    <3>2. CASE ledger.success
      <4>1. Answer(c, [executed |-> TRUE, success |-> TRUE, committed |-> TRUE,
                       verified |-> TxStatus = "finalized"])
        BY <2>3, <3>1, <3>2 DEF GetTxReceipt, TxStatus
      <4>2. QED BY <1>3, <2>1, <3>1, <3>2, <4>1 DEF Answer, handleVars, LedgerTypeOK
    <3>3. CASE ~ledger.success
      <4>1. Goto(c, "block")
        BY <2>3, <3>1, <3>3 DEF GetTxReceipt, TxStatus
      <4>2. QED BY <1>3, <2>1, <3>1, <3>3, <4>1 DEF Goto, handleVars
    <3>4. QED BY <3>2, <3>3
  <2>4. CASE GetTxReceiptBlock(c)
    BY <1>3, <2>1, <2>4 DEF GetTxReceiptBlock, Answer, handleVars, LedgerTypeOK
  <2>5. QED BY <1>5, <2>2, <2>3, <2>4 DEF Poll
<1>6. ASSUME NEW c \in Calls, ResumeCommit(c) PROVE VerdictInv'
  <2> USE DEF TypeOK, HandleTypeOK, NotifyTypeOK, SeenPcs
  <2>1. FirstRequest \in PollPcs \ SeenPcs
    BY DEF FirstRequest, SeenPcs, PollPcs
  <2>2. QED BY <1>3, <1>6, <2>1 DEF ResumeCommit, Settle, Notify, PollPcs
<1>7. ASSUME NEW c \in Calls, ResumeVerify(c) PROVE VerdictInv'
  BY <1>3, <1>7
     DEF ResumeVerify, Settle, TypeOK, HandleTypeOK, NotifyTypeOK, SeenPcs, PollPcs
<1>8. ASSUME NEW c \in Calls, RequestFails(c) PROVE VerdictInv'
  BY <1>3, <1>8
     DEF RequestFails, Settle, SubscriptionLost, Goto, TypeOK, HandleTypeOK,
         NotifyTypeOK, SeenPcs, PollPcs
<1>9. QED BY <1>3, <1>4, <1>5, <1>6, <1>7, <1>8 DEF Next

\* What a call has seen of the operation is not undone before it resumes.
THEOREM InductiveInvariant == Spec => []IInv
<1>1. Init => IInv
  BY DEF Init, HandleInit, NotifyInit, LedgerInit, IInv, PendingInv, FinalityInv,
         VerdictInv, VerifiedIsFinal, VerifyReceiptIsFinal, StateAgreesWithLedger, SeenPcs,
         PollPcs
<1>2. TypeOK /\ IInv /\ [Next]_vars => IInv'
  BY PendingStep, FinalityStep, VerdictStep DEF IInv
<1>3. QED BY <1>1, <1>2, TypeCorrect, PTL DEF Spec

\* A handle that says Verified stands for a transaction whose block is final on
\* Rootstock, in every interleaving of any number of calls, over both kinds of
\* provider and whatever blocks are reverted.
THEOREM VerifiedHandleIsFinal == Spec => []VerifiedIsFinal
<1>1. IInv => VerifiedIsFinal
  BY DEF IInv, FinalityInv
<1>2. QED BY <1>1, InductiveInvariant, PTL

\* Every receipt that awaitVerifyReceipt resolves with is that of a final block
\* and says so, although it is read after the poll that ended the wait.
THEOREM VerifyReceiptFinal == Spec => []VerifyReceiptIsFinal
<1>1. IInv => VerifyReceiptIsFinal
  BY DEF IInv, FinalityInv
<1>2. QED BY <1>1, InductiveInvariant, PTL

\* With no reverts a handle is Failed only for a rejected transaction and
\* Committed or Verified only for an executed one.
THEOREM HandleAgreesWithLedger == Spec => []StateAgreesWithLedger
<1>1. IInv => StateAgreesWithLedger
  BY DEF IInv, VerdictInv, StateAgreesWithLedger
<1>2. QED BY <1>1, InductiveInvariant, PTL
-----------------------------------------------------------------------------
(***************************************************************************)
(* Refinement.  A call that settles takes a Settle step of the contract,   *)
(* or Invoke if it settles as it is made; a poll, and a resumption that    *)
(* goes on waiting, is invisible.                                          *)
(***************************************************************************)
Promises == [c \in Calls |-> Promise(c)]

\* The server does what it does in the contract, and settles no promise.
LEMMA ServerSimulation ==
    TypeOK /\ Server => Contract!ServerStep /\ UNCHANGED <<method, Promises>>
<1> SUFFICES ASSUME TypeOK, Server
             PROVE  Contract!ServerStep /\ UNCHANGED <<method, Promises>>
  OBVIOUS
<1>1. UNCHANGED <<method, Promises>>
  BY DEF Server, notifyVars, handleVars, Promises, Promise
<1>2. Contract!ServerStep
  BY DEF Server, ServerStep, Include, Seal, Finalize, Revert, Contract!ServerStep,
         Contract!Include, Contract!Seal, Contract!Finalize, Contract!Revert
<1>3. QED BY <1>1, <1>2

\* How a settled or a suspended call shows in the contract.
LEMMA PromiseUpdate ==
    ASSUME TypeOK, NEW c \in Calls, NEW there, there # "idle",
           pc' = [pc EXCEPT ![c] = there]
    PROVE  /\ \A how : outcome' = [outcome EXCEPT ![c] = how]
                 => Promises' = [Promises EXCEPT ![c] = how]
           /\ outcome' = outcome => Promises' = [Promises EXCEPT ![c] = outcome[c]]
  BY DEF TypeOK, HandleTypeOK, NotifyTypeOK, Promises, Promise

\* A call of the program is one of the contract.
LEMMA CallSimulation ==
    ASSUME TypeOK, IInv, NEW c \in Calls, NEW m \in Methods, Call(c, m)
    PROVE  Contract!Invoke(c)
<1>1. /\ pc[c] = "idle" /\ outcome[c] = "pending" /\ UNCHANGED ledgerVars
      /\ method' = [method EXCEPT ![c] = m] /\ m \in Contract!Methods
  BY DEF Call, Invoke, IInv, PendingInv, Methods, Contract!Methods
<1>2. Promises[c] = "none"
  BY <1>1 DEF Promises, Promise
<1>3. \E how \in {"pending", "undefined", "failed"} :
        /\ how = "pending" \/ Contract!MaySettle(m, how)
        /\ Promises' = [Promises EXCEPT ![c] = how]
  <2> USE DEF Contract!MaySettle, Contract!MayBeExecuted, Contract!MayBeRejected,
              Contract!Included, Contract!Rejected,
              Included, Rejected
  <2>0. reverts \in Nat /\ (reverts = 0 => VerdictInv)
    BY LedgerAssumption DEF IInv, TypeOK, LedgerTypeOK
  <2>1. CASE state = "Failed"
    <3>1. Rejected \/ reverts > 0
      BY <2>0, <2>1 DEF VerdictInv, StateAgreesWithLedger
    <3>2. Promises' = [Promises EXCEPT ![c] = "failed"]
      BY <2>1, PromiseUpdate DEF Call, Settle
    <3>3. QED BY <3>1, <3>2
  <2>2. CASE /\ state \notin {"Failed", "Sent"}
             /\ m = "awaitReceipt"
    <3>1. (Included /\ ledger.success) \/ reverts > 0
      BY <2>0, <2>2 DEF VerdictInv, StateAgreesWithLedger, TypeOK, HandleTypeOK, States
    <3>2. Promises' = [Promises EXCEPT ![c] = "undefined"]
      BY <2>2, PromiseUpdate DEF Call, Settle
    <3>3. QED BY <2>2, <3>1, <3>2
  <2>3. CASE \E act \in Actions : Notify(c, act)
    <3>1. Promises' = [Promises EXCEPT ![c] = "pending"]
      BY <1>1, <2>3, PromiseUpdate, FirstRequestType DEF Notify, PollPcs
    <3>2. QED BY <3>1
  <2>4. QED BY <2>1, <2>2, <2>3 DEF Call, Actions
<1>4. QED BY <1>1, <1>2, <1>3 DEF Contract!Invoke, Promises, ledgerVars, Contract!ledgerVars

\* A step that settles a pending call.
LEMMA SettleSimulation ==
    ASSUME TypeOK, IInv, UNCHANGED <<ledgerVars, method>>, NEW c \in Calls,
           pc[c] \notin {"idle", "done"}, NEW how \in Contract!Outcomes, NEW receipt,
           Settle(c, how, receipt), Contract!MaySettle(method[c], how)
    PROVE  Contract!Settle(c)
<1>1. Promises[c] = "pending"
  BY DEF IInv, PendingInv, Promises, Promise
<1>2. Promises' = [Promises EXCEPT ![c] = how]
  BY PromiseUpdate DEF Settle
<1>3. QED BY <1>1, <1>2 DEF Contract!Settle, Promises, ledgerVars, Contract!ledgerVars

\* A call that stays suspended is not seen to step.
LEMMA SuspendedSimulation ==
    ASSUME TypeOK, NEW c \in Calls, pc[c] # "idle", NEW there, there # "idle",
           pc' = [pc EXCEPT ![c] = there], UNCHANGED outcome
    PROVE  UNCHANGED Promises
  BY DEF TypeOK, HandleTypeOK, NotifyTypeOK, Promises, Promise

\* The handle keeps the promise of the documentation to each of any number of
\* concurrent callers: an awaitVerifyReceipt that resolves finds the transaction
\* final and, unless a block was reverted, an awaitReceipt that resolves finds it
\* executed and the error of the handle means the rollup has rejected it.
THEOREM KeepsContract == Spec => ImplementsContract
<1>1. Init => Contract!Init
  BY DEF Init, LedgerInit, HandleInit, NotifyInit, Contract!Init, Contract!LedgerInit,
         Promise
<1>2. TypeOK /\ IInv /\ [Next]_vars => [Contract!Next]_(Contract!contractVars)
  <2> SUFFICES ASSUME TypeOK, IInv, [Next]_vars
               PROVE  [Contract!Next]_(Contract!contractVars)
    OBVIOUS
  <2> DEFINE Stutter == UNCHANGED <<ledgerVars, method, Promises>>
  <2>0. Stutter => UNCHANGED Contract!contractVars
    BY DEF Contract!contractVars, Promises, ledgerVars, Contract!ledgerVars
  <2>1. CASE Server
    <3>1. Contract!ServerStep /\ UNCHANGED <<method, Promises>>
      BY <2>1, ServerSimulation
    <3>2. QED BY <3>1 DEF Contract!Next, Promises
  <2>2. ASSUME NEW c \in Calls, NEW m \in Methods, Call(c, m) PROVE Contract!Next
    BY <2>2, CallSimulation DEF Contract!Next
  <2>3. ASSUME NEW c \in Calls, Poll(c) PROVE Stutter
    <3>1. UNCHANGED <<ledgerVars, handleVars>> /\ pc[c] # "idle"
      BY <2>3 DEF Poll, PollLoop, PollStatus, PollPosition, Reread, PollInfo, Subscribe,
                  SubscriptionEvent, GetTxReceipt, GetTxReceiptBlock
    <3>2. \E there : there # "idle" /\ pc' = [pc EXCEPT ![c] = there]
      BY <2>3 DEF Poll, PollLoop, PollStatus, PollPosition, Reread, PollInfo, Subscribe,
                  SubscriptionEvent, GetTxReceipt, GetTxReceiptBlock, Goto, Answer
    <3>3. QED BY <3>1, <3>2, SuspendedSimulation DEF handleVars
  <2>4. ASSUME NEW c \in Calls, ResumeCommit(c)
        PROVE  Contract!Next \/ Stutter
    <3>1. /\ pc[c] = "answered" /\ UNCHANGED <<ledgerVars, method>>
          /\ (Included /\ answer[c].success = ledger.success) \/ reverts > 0
      BY <2>4, LedgerAssumption
         DEF ResumeCommit, IInv, VerdictInv, SeenPcs, TypeOK, LedgerTypeOK
    <3>2. CASE Settle(c, "failed", answer[c]) /\ ~answer[c].success
      <4>1. Contract!MaySettle(method[c], "failed") /\ "failed" \in Contract!Outcomes
        BY <3>1, <3>2 DEF Contract!MaySettle, Contract!MayBeRejected, Contract!Rejected, Contract!Included,
                          Contract!Outcomes, Included
      <4>2. QED BY <3>1, <3>2, <4>1, SettleSimulation DEF Contract!Next
    <3>3. CASE Settle(c, "receipt", answer[c]) /\ answer[c].success
               /\ method[c] = "awaitReceipt"
      <4>1. Contract!MaySettle(method[c], "receipt") /\ "receipt" \in Contract!Outcomes
        BY <3>1, <3>3 DEF Contract!MaySettle, Contract!MayBeExecuted, Contract!Included,
                          Contract!Outcomes, Included
      <4>2. QED BY <3>1, <3>3, <4>1, SettleSimulation DEF Contract!Next
    <3>4. CASE Notify(c, "VERIFY")
      BY <3>1, <3>4, SuspendedSimulation, FirstRequestType DEF Notify, PollPcs
    <3>5. QED BY <2>4, <3>2, <3>3, <3>4 DEF ResumeCommit
  <2>5. ASSUME NEW c \in Calls, ResumeVerify(c) PROVE Contract!Next
    <3>1. /\ pc[c] = "answered" /\ UNCHANGED <<ledgerVars, method>>
          /\ (Included /\ ledger.success) \/ reverts > 0
          /\ BlockFinalized
      BY <2>5, LedgerAssumption
         DEF ResumeVerify, IInv, VerdictInv, FinalityInv, SeenPcs, TypeOK, LedgerTypeOK
    <3>2. Contract!MaySettle(method[c], "receipt") /\ "receipt" \in Contract!Outcomes
      BY <3>1 DEF Contract!MaySettle, Contract!MayBeExecuted, Contract!Included,
                  Contract!BlockFinalized, Contract!Outcomes, Included, BlockFinalized
    <3>3. QED BY <2>5, <3>1, <3>2, SettleSimulation DEF ResumeVerify, Contract!Next
  <2>6. ASSUME NEW c \in Calls, RequestFails(c)
        PROVE  Contract!Next \/ Stutter
    <3>1. Contract!MaySettle(method[c], "requestError") /\ "requestError" \in Contract!Outcomes
      BY DEF Contract!MaySettle, Contract!Outcomes
    <3>2. CASE Settle(c, "requestError", NoReceipt)
      BY <2>6, <3>1, <3>2, SettleSimulation DEF RequestFails, PollPcs, SubscriptionLost,
         Goto, Settle, Contract!Next
    <3>3. CASE SubscriptionLost(c) /\ UNCHANGED outcome
      BY <2>6, <3>3, SuspendedSimulation DEF RequestFails, SubscriptionLost, Goto
    <3>4. QED BY <2>6, <3>2, <3>3 DEF RequestFails
  <2>7. CASE UNCHANGED vars
    <3>1. Stutter
      BY <2>7 DEF vars, notifyVars, handleVars, Promises, Promise
    <3>2. QED BY <2>0, <3>1
  <2>8. QED BY <2>0, <2>1, <2>2, <2>3, <2>4, <2>5, <2>6, <2>7 DEF Next
<1>3. QED BY <1>1, <1>2, TypeCorrect, InductiveInvariant, PTL
          DEF Spec, ImplementsContract, Contract!Spec

-----------------------------------------------------------------------------
(***************************************************************************)
(* The action property: how the handle's state moves.                      *)
(***************************************************************************)

\* What the call that steps has to show for the invariant.  A program that awaits
\* each call has no other one in flight.
LEMMA TurnMoves ==
    ASSUME TypeOK, TurnInv, NEW c \in Calls, NEW there, pc' = [pc EXCEPT ![c] = there],
           \A d \in Calls : d # c => action'[d] = action[d],
           state # "Sent" => state' # "Sent",
           there \in PollPcs \cup {"answered"} /\ action'[c] = "VERIFY" => state' # "Sent",
           ~overlap' =>
              /\ ~overlap
              /\ c \in InFlight \/ InFlight = {}
              /\ there \in PollPcs \cup {"answered"} =>
                   state' \in IF action'[c] = "COMMIT" THEN {"Sent"}
                                                      ELSE {"Committed", "Verified"}
    PROVE  TurnInv'
<1>1. pc'[c] = there /\ \A d \in Calls : d # c => pc'[d] = pc[d]
  BY DEF TypeOK, HandleTypeOK, NotifyTypeOK
<1>2. \A d \in Calls :
        pc'[d] \in PollPcs \cup {"answered"} /\ action'[d] = "VERIFY" => state' # "Sent"
  BY <1>1 DEF TurnInv
<1>3. ASSUME ~overlap'
      PROVE  /\ \A d, e \in InFlight' : d = e
             /\ \A d \in Calls : pc'[d] \in PollPcs \cup {"answered"} =>
                  state' \in IF action'[d] = "COMMIT" THEN {"Sent"}
                                                     ELSE {"Committed", "Verified"}
  <2>1. \A d \in Calls : d # c => d \notin InFlight
    BY <1>3 DEF TurnInv
  <2>2. \A d \in Calls : d # c => pc'[d] \in {"idle", "done"}
    BY <1>1, <2>1 DEF InFlight
  <2>3. \A d \in Calls : d # c => pc'[d] \notin PollPcs \cup {"answered"}
    BY <2>2 DEF PollPcs
  <2> QED
    BY <1>1, <1>3, <2>2, <2>3 DEF InFlight
<1> QED
  BY <1>2, <1>3 DEF TurnInv

\* Every step keeps to the turn of the calls.
LEMMA TurnStep ==
    ASSUME TypeOK, TurnInv, [Next]_vars
    PROVE  TurnInv'
<1>1. CASE Server \/ UNCHANGED vars
  BY <1>1 DEF Server, vars, notifyVars, handleVars, TurnInv, InFlight
<1>2. ASSUME NEW c \in Calls, NEW m \in Methods, Call(c, m) PROVE TurnInv'
  <2>1. overlap' = (overlap \/ InFlight # {}) /\ UNCHANGED state
    BY <1>2 DEF Call, Invoke
  <2>2. CASE \E how \in Outcomes : Settle(c, how, NoReceipt)
    BY <2>1, <2>2, TurnMoves DEF Settle, PollPcs
  <2>3. CASE \/ state = "Sent" /\ Notify(c, "COMMIT")
             \/ state \in {"Committed", "Verified"} /\ Notify(c, "VERIFY")
    <3>1. /\ action'[c] = (IF state = "Sent" THEN "COMMIT" ELSE "VERIFY")
          /\ \A d \in Calls : d # c => action'[d] = action[d]
      BY <2>3 DEF Notify, TypeOK, HandleTypeOK, NotifyTypeOK
    <3> QED
      BY <2>1, <2>3, <3>1, TurnMoves DEF Notify
  <2> QED
    BY <1>2, <2>2, <2>3 DEF Call, Outcomes, States, TypeOK, HandleTypeOK
<1>3. ASSUME NEW c \in Calls, Poll(c) PROVE TurnInv'
  <2>1. /\ pc[c] \in PollPcs
        /\ UNCHANGED <<state, overlap, action>>
        /\ \E there : pc' = [pc EXCEPT ![c] = there]
    BY <1>3 DEF Poll, PollLoop, PollStatus, PollPosition, Reread, PollInfo, Subscribe,
                SubscriptionEvent, GetTxReceipt, GetTxReceiptBlock, Goto, Answer, PollPcs,
                handleVars
  <2>2. c \in InFlight
    BY <2>1 DEF InFlight, PollPcs
  <2> QED
    BY <2>1, <2>2, TurnMoves DEF TurnInv
<1>4. ASSUME NEW c \in Calls, ResumeCommit(c) PROVE TurnInv'
  <2>1. /\ pc[c] = "answered" /\ UNCHANGED overlap /\ state' # "Sent"
        /\ c \in InFlight
    BY <1>4 DEF ResumeCommit, InFlight
  <2>2. CASE \E how \in Outcomes : Settle(c, how, answer[c])
    BY <2>1, <2>2, TurnMoves DEF Settle, PollPcs
  <2>3. CASE state' = "Committed" /\ Notify(c, "VERIFY")
    <3>1. action'[c] = "VERIFY" /\ \A d \in Calls : d # c => action'[d] = action[d]
      BY <2>3 DEF Notify, TypeOK, HandleTypeOK, NotifyTypeOK
    <3> QED
      BY <2>1, <2>3, <3>1, TurnMoves DEF Notify
  <2> QED
    BY <1>4, <2>2, <2>3 DEF ResumeCommit, Outcomes
<1>5. ASSUME NEW c \in Calls, ResumeVerify(c) PROVE TurnInv'
  BY <1>5, TurnMoves DEF ResumeVerify, Settle, InFlight, PollPcs
<1>6. ASSUME NEW c \in Calls, RequestFails(c) PROVE TurnInv'
  <2>1. pc[c] \in PollPcs /\ UNCHANGED <<state, overlap, action>>
    BY <1>6 DEF RequestFails, SubscriptionLost, PollPcs, Goto, Settle
  <2>2. c \in InFlight
    BY <2>1 DEF InFlight, PollPcs
  <2>3. \E there \in {"done", "lost"} : pc' = [pc EXCEPT ![c] = there]
    BY <1>6 DEF RequestFails, SubscriptionLost, Goto, Settle
  <2> QED
    BY <2>1, <2>2, <2>3, TurnMoves DEF PollPcs
<1> QED
  BY <1>1, <1>2, <1>3, <1>4, <1>5, <1>6 DEF Next

\* One call at a time, each waits for what fits the handle.
THEOREM TurnsAreTaken == Spec => []TurnInv
<1>1. Init => TurnInv
  BY DEF Init, HandleInit, NotifyInit, TurnInv, InFlight, PollPcs
<1> QED
  BY <1>1, TurnStep, TypeCorrect, PTL DEF Spec

\* A program that awaits each call sees the state advance only, reverts or not; with
\* calls in flight together and no reverts, nothing leaves Failed and a Verified handle
\* can only fall back to Committed.
THEOREM StateOnlyAdvances == Spec => StateAdvances
<1> DEFINE Advances ==
      state' # state =>
         \/ <<state, state'>> \in {<<"Sent", "Committed">>, <<"Sent", "Failed">>,
                                   <<"Committed", "Verified">>}
         \/ overlap /\ <<state, state'>> = <<"Verified", "Committed">>
         \/ overlap /\ reverts > 0
<1>1. ASSUME TypeOK, IInv, TurnInv, [Next]_vars PROVE [Advances]_vars
  <2> SUFFICES ASSUME state' # state PROVE Advances
    OBVIOUS
  <2>1. PICK c \in Calls : ResumeCommit(c) \/ ResumeVerify(c)
    <3>1. /\ ~Server /\ ~UNCHANGED vars
          /\ \A c \in Calls : ~Poll(c) /\ ~RequestFails(c)
          /\ \A c \in Calls, m \in Methods : ~Call(c, m)
      BY DEF Server, Poll, RequestFails, Call, vars, handleVars
    <3> QED
      BY <1>1, <3>1 DEF Next
  <2>2. pc[c] = "answered" /\ state \in States /\ action[c] \in Actions
    BY <1>1, <2>1 DEF ResumeCommit, ResumeVerify, TypeOK, HandleTypeOK, NotifyTypeOK
  <2>3. CASE ~overlap
    <3>1. state \in IF action[c] = "COMMIT" THEN {"Sent"} ELSE {"Committed", "Verified"}
      BY <1>1, <2>2, <2>3 DEF TurnInv
    <3> QED
      BY <2>1, <3>1 DEF ResumeCommit, ResumeVerify
  <2>4. CASE overlap /\ reverts = 0
    <3>1. VerdictInv
      BY <1>1, <2>4 DEF IInv
    <3>2. answer[c].success = ledger.success
      BY <2>2, <3>1 DEF VerdictInv
    <3>3. /\ state = "Failed" => ~ledger.success
          /\ state \in {"Committed", "Verified"} => ledger.success
      BY <2>4, <3>1 DEF VerdictInv, StateAgreesWithLedger, Rejected
    <3>4. CASE ResumeCommit(c)
      <4>1. state' = IF ledger.success THEN "Committed" ELSE "Failed"
        BY <3>2, <3>4 DEF ResumeCommit
      <4> QED
        BY <2>2, <2>4, <3>3, <4>1 DEF States
    <3>5. CASE ResumeVerify(c)
      <4>1. state' = "Verified" /\ action[c] = "VERIFY"
        BY <3>5 DEF ResumeVerify
      <4>2. state # "Sent" /\ ledger.success
        BY <1>1, <2>2, <3>1, <4>1 DEF TurnInv, VerdictInv
      <4> QED
        BY <2>2, <3>3, <4>1, <4>2 DEF States
    <3> QED
      BY <2>1, <3>4, <3>5
  <2>5. reverts = 0 \/ reverts > 0
    BY <1>1, LedgerAssumption DEF TypeOK, LedgerTypeOK
  <2> QED
    BY <2>3, <2>4, <2>5
<1> QED
  BY <1>1, TypeCorrect, InductiveInvariant, TurnsAreTaken, PTL DEF Spec, StateAdvances
=============================================================================
