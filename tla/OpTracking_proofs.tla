-------------------------- MODULE OpTracking_proofs --------------------------
(***************************************************************************)
(* Proofs about OpTracking, for every set of calls, every kind of provider *)
(* and Rootstock outcome, and every bound on reverts.                      *)
(***************************************************************************)
EXTENDS OpTracking, TLAPS

(***************************************************************************)
(* What the parts of a step do.                                            *)
(***************************************************************************)

\* Finality is never undone, and without reverts neither is inclusion.
LEMMA ServerSteps ==
    ASSUME LedgerTypeOK, ServerStep
    PROVE  /\ LedgerTypeOK'
           /\ BlockFinalized => BlockFinalized'
           /\ reverts' = 0 => reverts = 0 /\ (Included => Included')
<1> USE LedgerAssumption DEF LedgerTypeOK, BlockStates, BlockFinalized, Included
<1>1. CASE Include
  BY <1>1 DEF Include
<1>2. CASE Seal
  BY <1>2 DEF Seal
<1>3. CASE Finalize
  BY <1>3 DEF Finalize
<1>4. CASE Revert
  BY <1>4 DEF Revert
<1> QED
  BY <1>1, <1>2, <1>3, <1>4 DEF ServerStep

\* A call on the rollup begins with a request that has not seen anything yet.
LEMMA FirstRequests == FirstRequest \in PollPcs \ SeenPcs
BY DEF FirstRequest, PollPcs, SeenPcs

\* The answers of the server are receipts.
LEMMA ReceiptTypes ==
    /\ NoReceipt \in Receipt
    /\ LedgerTypeOK => ServerReceipt \in Receipt
BY DEF NoReceipt, Receipt, ServerReceipt, LedgerTypeOK, Included, BlockCommitted,
       BlockFinalized

\* A poll moves one call on, and what it waited for is so when it leaves its loop.
LEMMA Polls ==
    ASSUME TypeOK, NEW c \in Calls, Poll(c)
    PROVE  /\ pc[c] \in PollPcs
           /\ UNCHANGED <<ledgerVars, handleVars, opVars, action, provider>>
           /\ \/ \E there \in PollPcs :
                    /\ Goto(c, there)
                    /\ there \in SeenPcs /\ pc[c] \notin SeenPcs =>
                        /\ Included
                        /\ action[c] = "VERIFY" => BlockFinalized
              \/ \E receipt \in Receipt :
                    /\ Answer(c, receipt)
                    /\ pc[c] \notin SeenPcs =>
                        /\ Included
                        /\ action[c] = "VERIFY" => BlockFinalized
                    /\ Included => receipt.executed
<1> USE DEF TypeOK, HandleTypeOK, NotifyTypeOK
<1>1. CASE PollStatus(c) \/ PollPosition(c) \/ Reread(c)
  BY <1>1 DEF PollStatus, PollPosition, Reread, Goto, CommitDone, VerifyDone, TxStatus,
              PollPcs, SeenPcs, Included, BlockFinalized, Actions, Poll
<1>2. CASE PollInfo(c) \/ SubscriptionEvent(c)
  <2>1. /\ Answer(c, ServerReceipt) /\ ServerReceipt \in Receipt
        /\ pc[c] \in PollPcs
        /\ IF action[c] = "COMMIT" THEN BlockCommitted ELSE BlockFinalized
    BY <1>2, ReceiptTypes DEF PollInfo, SubscriptionEvent, PollPcs
  <2>2. Included /\ (action[c] = "VERIFY" => BlockFinalized)
    BY <2>1 DEF BlockCommitted, BlockFinalized, Included
  <2>3. ServerReceipt.executed
    BY <2>2 DEF ServerReceipt
  <2> QED
    BY <2>1, <2>2, <2>3 DEF Answer, Poll
<1>3. CASE Subscribe(c)
  BY <1>3 DEF Subscribe, Goto, PollPcs, SeenPcs, Poll
<1>4. CASE GetPriorityOpStatus(c)
  <2> DEFINE executed == [executed |-> TRUE, success |-> FALSE, committed |-> TRUE,
                          verified |-> TxStatus = "finalized"]
  <2>1. executed \in Receipt /\ executed.executed
    BY DEF Receipt
  <2>2. Answer(c, IF Included THEN executed ELSE NoReceipt)
    BY <1>4 DEF GetPriorityOpStatus
  <2>3. pc[c] \in PollPcs \cap SeenPcs
    BY <1>4 DEF GetPriorityOpStatus, PollPcs, SeenPcs
  <2> HIDE DEF executed
  <2>4. CASE Included
    BY <2>1, <2>2, <2>3, <2>4 DEF Answer, Poll
  <2>5. CASE ~Included
    BY <2>2, <2>3, <2>5, ReceiptTypes DEF Answer, Poll
  <2> QED
    BY <2>4, <2>5
<1> QED
  BY <1>1, <1>2, <1>3, <1>4 DEF Poll, PollLoop

\* How a method begins: it waits for Rootstock or the server, or settles at once.
LEMMA Begins ==
    ASSUME TypeOK, NEW c \in Calls, NEW m \in Methods, Call(c, m)
    PROVE  /\ pc[c] = "idle"
           /\ method' = [method EXCEPT ![c] = m]
           /\ overlap' \in BOOLEAN
           /\ UNCHANGED <<ledgerVars, state, opVars>>
           /\ \/ AwaitMining(c)
              \/ Settle(c, "failed", NoReceipt)
              \/ /\ Settle(c, "undefined", NoReceipt)
                 /\ m = "awaitVerifyReceipt" => state = "Verified"
              \/ /\ state # "Sent"
                 /\ \E act \in Actions : Notify(c, act)
BY DEF Call, Invoke, TypeOK, HandleTypeOK, States, Actions

\* How a method goes on from an answer.
LEMMA Continues ==
    ASSUME TypeOK, NEW c \in Calls, ResumeCommit(c)
    PROVE  \/ ~answer[c].executed /\ state' = "Failed" /\ Settle(c, "failed", answer[c])
           \/ /\ answer[c].executed /\ state' = "Committed"
              /\ \/ method[c] = "awaitReceipt" /\ Settle(c, "receipt", answer[c])
                 \/ Notify(c, "VERIFY")
BY DEF ResumeCommit

-----------------------------------------------------------------------------
(***************************************************************************)
(* Type correctness.                                                       *)
(***************************************************************************)

\* The handle is in one of the five states the class declares, and every call where
\* the methods can be.
THEOREM TypeCorrect == Spec => []TypeOK
<1>1. Init => TypeOK
  <2>1. Init => LedgerTypeOK
    BY LedgerAssumption DEF Init, LedgerInit, LedgerTypeOK, BlockStates
  <2>2. Init => NotifyTypeOK({"idle", "done"} \cup {"mining"})
    BY ReceiptTypes DEF Init, HandleInit, NotifyInit, NotifyTypeOK, Actions
  <2>3. Init => /\ state \in States /\ method \in [Calls -> Methods]
                /\ outcome \in [Calls -> Outcomes] /\ receiptOf \in [Calls -> Receipt]
    BY ReceiptTypes DEF Init, HandleInit, States, Methods, Outcomes
  <2>4. Init => /\ overlap \in BOOLEAN
                /\ l1 \in L1Outcomes \cup {"pending"} /\ priorityOpId \in BOOLEAN
    BY DEF Init, HandleInit
  <2> QED
    BY <2>1, <2>2, <2>3, <2>4 DEF TypeOK, HandleTypeOK
<1>2. TypeOK /\ [Next]_vars => TypeOK'
  <2> SUFFICES ASSUME TypeOK, [Next]_vars PROVE TypeOK'
    OBVIOUS
  <2>1. CASE Server
    BY <2>1, ServerSteps
       DEF Server, TypeOK, HandleTypeOK, NotifyTypeOK, notifyVars, handleVars, opVars
  <2>2. CASE Mine
    BY <2>2 DEF Mine, TypeOK, LedgerTypeOK, HandleTypeOK, NotifyTypeOK, ledgerVars,
                notifyVars, handleVars
  <2>3. ASSUME NEW c \in Calls, NEW m \in Methods, Call(c, m) PROVE TypeOK'
    <3>1. UNCHANGED <<ledgerVars, state, opVars>> /\ overlap' \in BOOLEAN
      BY <2>3, Begins
    <3>2. method' \in [Calls -> Methods]
      BY <2>3, Begins DEF TypeOK, HandleTypeOK
    <3> USE <3>1, <3>2, FirstRequests, ReceiptTypes
        DEF TypeOK, LedgerTypeOK, HandleTypeOK, NotifyTypeOK, Actions, Outcomes,
            ledgerVars, opVars
    <3>3. CASE AwaitMining(c)
      BY <3>3 DEF AwaitMining
    <3>4. ASSUME NEW how \in Outcomes, Settle(c, how, NoReceipt) PROVE TypeOK'
      BY <3>4 DEF Settle
    <3>5. ASSUME NEW act \in Actions, Notify(c, act) PROVE TypeOK'
      BY <3>5 DEF Notify
    <3> HIDE DEF TypeOK
    <3> QED
      BY <2>3, <3>3, <3>4, <3>5, Begins
  <2>4. ASSUME NEW c \in Calls, Poll(c) PROVE TypeOK'
    <3>1. /\ UNCHANGED <<ledgerVars, handleVars, opVars>>
          /\ \/ \E there \in PollPcs : Goto(c, there)
             \/ \E receipt \in Receipt : Answer(c, receipt)
      BY <2>4, Polls
    <3> USE DEF TypeOK, LedgerTypeOK, HandleTypeOK, NotifyTypeOK, ledgerVars, handleVars,
                opVars
    <3>2. ASSUME NEW there \in PollPcs, Goto(c, there) PROVE TypeOK'
      BY <3>1, <3>2 DEF Goto
    <3>3. ASSUME NEW receipt \in Receipt, Answer(c, receipt) PROVE TypeOK'
      BY <3>1, <3>3 DEF Answer
    <3> QED
      BY <3>1, <3>2, <3>3
  <2> USE FirstRequests, ReceiptTypes
      DEF TypeOK, LedgerTypeOK, HandleTypeOK, NotifyTypeOK, Actions, Outcomes, States,
          ledgerVars, handleVars, opVars
  <2>5. ASSUME NEW c \in Calls, ResumeMined(c) \/ MiningFails(c) \/ WaitFails(c) PROVE TypeOK'
    <3>1. ASSUME NEW how \in Outcomes, Settle(c, how, NoReceipt) PROVE TypeOK'
      BY <2>5, <3>1 DEF ResumeMined, MiningFails, WaitFails, Settle
    <3>2. CASE Notify(c, "COMMIT") /\ ResumeMined(c)
      BY <3>2 DEF ResumeMined, Notify
    <3> QED
      BY <2>5, <3>1, <3>2 DEF ResumeMined, MiningFails, WaitFails
  <2>6. ASSUME NEW c \in Calls, ResumeCommit(c) PROVE TypeOK'
    <3>1. ASSUME NEW how \in Outcomes, Settle(c, how, answer[c]) PROVE TypeOK'
      BY <2>6, <3>1 DEF ResumeCommit, Settle
    <3>2. CASE Notify(c, "VERIFY")
      BY <2>6, <3>2 DEF ResumeCommit, Notify
    <3> QED
      BY <2>6, <3>1, <3>2, Continues
  <2>7. ASSUME NEW c \in Calls, ResumeVerify(c) PROVE TypeOK'
    BY <2>7 DEF ResumeVerify, Settle
  <2>8. ASSUME NEW c \in Calls, RequestFails(c), UNCHANGED opVars PROVE TypeOK'
    BY <2>8 DEF RequestFails, Settle, SubscriptionLost, Goto
  <2>9. CASE UNCHANGED vars
    BY <2>9 DEF vars, notifyVars
  <2> QED
    BY <2>1, <2>2, <2>3, <2>4, <2>5, <2>6, <2>7, <2>8, <2>9 DEF Next, Resume
<1> QED
  BY <1>1, <1>2, PTL DEF Spec

-----------------------------------------------------------------------------
(***************************************************************************)
(* The inductive invariant: one lemma for each kind of step.               *)
(***************************************************************************)

\* Nothing has been called or mined.
LEMMA Initially == Init => IInv
<1> SUFFICES ASSUME Init PROVE IInv
  OBVIOUS
<1> USE DEF Init, HandleInit, NotifyInit
<1>1. PendingInv
  BY DEF PendingInv
<1>2. MinedInv
  BY DEF MinedInv, AsksWithPriorityId, PollPcs
<1>3. FinalityInv
  BY DEF FinalityInv, VerifiedIsFinal, VerifyResolvesFinal, SeenPcs
<1>4. InclusionInv
  BY DEF InclusionInv, SeenPcs
<1> QED
  BY <1>1, <1>2, <1>3, <1>4 DEF IInv

\* The networks move on, the handle stays: mining and finality are for good.
LEMMA NetworksKeep ==
    ASSUME TypeOK, IInv, Server \/ Mine
    PROVE  IInv'
<1>1. /\ UNCHANGED <<notifyVars, handleVars, priorityOpId>>
      /\ l1 = "mined" => l1' = "mined"
      /\ BlockFinalized => BlockFinalized'
      /\ reverts' = 0 => reverts = 0 /\ (Included => Included')
  <2>1. CASE Server
    BY <2>1, ServerSteps DEF Server, TypeOK, opVars
  <2>2. CASE Mine
    BY <2>2 DEF Mine, ledgerVars, BlockFinalized, Included
  <2> QED
    BY <2>1, <2>2
<1> USE <1>1 DEF notifyVars, handleVars
<1>2. PendingInv'
  BY DEF IInv, PendingInv
<1>3. MinedInv'
  BY DEF IInv, MinedInv, AsksWithPriorityId
<1>4. FinalityInv'
  BY DEF IInv, FinalityInv, VerifiedIsFinal, VerifyResolvesFinal
<1>5. reverts' = 0 => InclusionInv'
  BY DEF IInv, InclusionInv
<1> QED
  BY <1>2, <1>3, <1>4, <1>5 DEF IInv

\* A method that begins asks the server only with a priority id, and one that
\* verifies returns at once only if the operation is Verified.
LEMMA CallKeeps ==
    ASSUME TypeOK, IInv, NEW c \in Calls, NEW m \in Methods, Call(c, m)
    PROVE  IInv'
<1>1. /\ pc[c] = "idle"
      /\ method' = [method EXCEPT ![c] = m]
      /\ UNCHANGED <<ledgerVars, state, opVars>>
  BY Begins
<1>2. \/ AwaitMining(c)
      \/ Settle(c, "failed", NoReceipt)
      \/ /\ Settle(c, "undefined", NoReceipt)
         /\ m = "awaitVerifyReceipt" => state = "Verified"
      \/ state # "Sent" /\ \E act \in Actions : Notify(c, act)
  BY Begins
<1>3. /\ pc \in [Calls -> PollPcs \cup {"answered", "lost", "idle", "done", "mining"}]
      /\ method \in [Calls -> Methods] /\ outcome \in [Calls -> Outcomes]
      /\ action \in [Calls -> Actions]
  BY DEF TypeOK, HandleTypeOK, NotifyTypeOK
<1> USE <1>1, <1>2, <1>3, FirstRequests
    DEF AwaitMining, Settle, Notify, ledgerVars, opVars, BlockFinalized, Included
<1>4. PendingInv'
  BY DEF IInv, PendingInv
<1>5. MinedInv'
  BY DEF IInv, MinedInv, AsksWithPriorityId, PollPcs
<1>6. FinalityInv'
  BY DEF IInv, PendingInv, FinalityInv, VerifiedIsFinal, VerifyResolvesFinal, SeenPcs
<1>7. reverts' = 0 => InclusionInv'
  BY DEF IInv, InclusionInv, SeenPcs
<1> QED
  BY <1>4, <1>5, <1>6, <1>7 DEF IInv

\* A poll leaves its loop only when what it waits for is so.
LEMMA PollKeeps ==
    ASSUME TypeOK, IInv, NEW c \in Calls, Poll(c)
    PROVE  IInv'
<1>1. /\ pc[c] \in PollPcs
      /\ UNCHANGED <<ledgerVars, handleVars, opVars, action, provider>>
  BY Polls
<1>2. \/ \E there \in PollPcs :
            /\ Goto(c, there)
            /\ there \in SeenPcs /\ pc[c] \notin SeenPcs =>
                 Included /\ (action[c] = "VERIFY" => BlockFinalized)
      \/ \E receipt \in Receipt :
            /\ Answer(c, receipt)
            /\ pc[c] \notin SeenPcs => Included /\ (action[c] = "VERIFY" => BlockFinalized)
            /\ Included => receipt.executed
  BY Polls
<1>3. pc \in [Calls -> PollPcs \cup {"answered", "lost", "idle", "done", "mining"}]
      /\ answer \in [Calls -> Receipt]
  BY DEF TypeOK, HandleTypeOK, NotifyTypeOK
<1>4. "done" \notin PollPcs /\ "answered" \notin PollPcs
  BY DEF PollPcs
<1>5. BlockFinalized' = BlockFinalized /\ Included' = Included
  BY <1>1 DEF ledgerVars, BlockFinalized, Included
<1> USE <1>1, <1>2, <1>3, <1>4, <1>5
    DEF Goto, Answer, ledgerVars, handleVars, opVars
<1>6. PendingInv'
  BY DEF IInv, PendingInv
<1>7. MinedInv'
  BY DEF IInv, MinedInv, AsksWithPriorityId
<1>8. FinalityInv'
  BY DEF IInv, FinalityInv, VerifiedIsFinal, VerifyResolvesFinal
<1>9. reverts' = 0 => InclusionInv'
  BY DEF IInv, InclusionInv, SeenPcs
<1> QED
  BY <1>6, <1>7, <1>8, <1>9 DEF IInv

\* Rootstock's answer: the handle is Mined only if the transaction is.
LEMMA MiningKeeps ==
    ASSUME TypeOK, IInv, NEW c \in Calls, ResumeMined(c) \/ MiningFails(c) \/ WaitFails(c)
    PROVE  IInv'
<1>1. /\ pc \in [Calls -> PollPcs \cup {"answered", "lost", "idle", "done", "mining"}]
      /\ outcome \in [Calls -> Outcomes] /\ action \in [Calls -> Actions]
  BY DEF TypeOK, HandleTypeOK, NotifyTypeOK
<1>2. UNCHANGED <<ledgerVars, method>> /\ pc[c] = "mining"
  BY DEF ResumeMined, MiningFails, WaitFails
<1> USE <1>1, <1>2, FirstRequests
    DEF ResumeMined, MiningFails, WaitFails, Settle, Notify, ledgerVars, opVars, BlockFinalized,
        Included
<1>3. PendingInv'
  BY DEF IInv, PendingInv
<1>4. MinedInv'
  BY DEF IInv, MinedInv, AsksWithPriorityId, PollPcs
<1>5. FinalityInv'
  BY DEF IInv, PendingInv, FinalityInv, VerifiedIsFinal, VerifyResolvesFinal, SeenPcs
<1>6. reverts' = 0 => InclusionInv'
  BY DEF IInv, InclusionInv, SeenPcs
<1> QED
  BY <1>3, <1>4, <1>5, <1>6 DEF IInv

\* The answers of the server: an awaitVerifyReceipt resolves only with the second.
LEMMA AnswersKeep ==
    ASSUME TypeOK, IInv, NEW c \in Calls, ResumeCommit(c) \/ ResumeVerify(c)
    PROVE  IInv'
<1>1. /\ pc \in [Calls -> PollPcs \cup {"answered", "lost", "idle", "done", "mining"}]
      /\ outcome \in [Calls -> Outcomes] /\ action \in [Calls -> Actions]
  BY DEF TypeOK, HandleTypeOK, NotifyTypeOK
<1>2. UNCHANGED <<ledgerVars, method, opVars>> /\ pc[c] = "answered"
  BY DEF ResumeCommit, ResumeVerify
<1>3. BlockFinalized => Included
  BY DEF BlockFinalized, Included
<1>4. BlockFinalized' = BlockFinalized /\ Included' = Included
  BY <1>2 DEF ledgerVars, BlockFinalized, Included
<1> USE <1>1, <1>2, <1>3, <1>4, FirstRequests
    DEF ResumeCommit, ResumeVerify, Settle, Notify, ledgerVars, opVars
<1>5. PendingInv'
  BY DEF IInv, PendingInv
<1>6. MinedInv'
  BY DEF IInv, MinedInv, AsksWithPriorityId, PollPcs
<1>7. FinalityInv'
  BY DEF IInv, PendingInv, FinalityInv, VerifiedIsFinal, VerifyResolvesFinal, SeenPcs
<1>8. reverts' = 0 => InclusionInv'
  BY DEF IInv, InclusionInv, SeenPcs
<1> QED
  BY <1>5, <1>6, <1>7, <1>8 DEF IInv

\* A request that fails settles its own call and changes nothing else.
LEMMA FailuresKeep ==
    ASSUME TypeOK, IInv, NEW c \in Calls, RequestFails(c), UNCHANGED opVars
    PROVE  IInv'
<1>1. /\ pc \in [Calls -> PollPcs \cup {"answered", "lost", "idle", "done", "mining"}]
      /\ outcome \in [Calls -> Outcomes]
  BY DEF TypeOK, HandleTypeOK, NotifyTypeOK
<1> USE <1>1
    DEF RequestFails, SubscriptionLost, Goto, Settle, ledgerVars, opVars, BlockFinalized,
        Included
<1>2. PendingInv'
  BY DEF IInv, PendingInv, PollPcs
<1>3. MinedInv'
  BY DEF IInv, MinedInv, AsksWithPriorityId, PollPcs
<1>4. FinalityInv'
  BY DEF IInv, FinalityInv, VerifiedIsFinal, VerifyResolvesFinal, SeenPcs
<1>5. reverts' = 0 => InclusionInv'
  BY DEF IInv, InclusionInv, SeenPcs
<1> QED
  BY <1>2, <1>3, <1>4, <1>5 DEF IInv

\* The four parts hold together in every reachable state: what a call has seen, what
\* the handle says and what the two networks hold.
THEOREM InductiveInvariant == Spec => []IInv
<1>1. ASSUME TypeOK, IInv, [Next]_vars PROVE IInv'
  <2>1. CASE UNCHANGED vars
    BY <1>1, <2>1
       DEF vars, ledgerVars, notifyVars, handleVars, opVars, IInv, PendingInv, MinedInv,
           AsksWithPriorityId, FinalityInv, VerifiedIsFinal, VerifyResolvesFinal,
           InclusionInv, BlockFinalized, Included
  <2>2. CASE Next
    BY <1>1, <2>2, NetworksKeep, CallKeeps, PollKeeps, MiningKeeps, AnswersKeep,
       FailuresKeep
       DEF Next, Resume
  <2> QED
    BY <1>1, <2>1, <2>2
<1> QED
  BY <1>1, Initially, TypeCorrect, PTL DEF Spec

-----------------------------------------------------------------------------
(***************************************************************************)
(* What a program may rely on.                                             *)
(***************************************************************************)

\* awaitVerifyReceipt resolves only when the operation is final, however its calls
\* interleave, over every provider and in spite of reverted blocks.
THEOREM VerifyIsFinal == Spec => []VerifyResolvesFinal
BY InductiveInvariant, PTL DEF IInv, FinalityInv

\* A handle that says Verified stands for a final operation.
THEOREM VerifiedHandleIsFinal == Spec => []VerifiedIsFinal
BY InductiveInvariant, PTL DEF IInv, FinalityInv

\* The server is never asked about an operation whose priority id is not known.
THEOREM RequestsHavePriorityId == Spec => []AsksWithPriorityId
BY InductiveInvariant, PTL DEF IInv, MinedInv

\* What the handle says agrees with Rootstock always, and with the rollup as long as it
\* has reverted no block.
THEOREM HandleAgreesWithLedger == Spec => []StateAgreesWithLedger
<1>1. IInv => StateAgreesWithLedger
  BY DEF IInv, MinedInv, InclusionInv, StateAgreesWithLedger
<1> QED
  BY <1>1, InductiveInvariant, PTL

-----------------------------------------------------------------------------
(***************************************************************************)
(* The action property: how the handle's state moves.                      *)
(***************************************************************************)

\* A program that awaits each call has none in flight but the one that steps.
LEMMA Alone ==
    ASSUME TypeOK, TurnInv, ~overlap, NEW c \in Calls, c \in InFlight \/ InFlight = {},
           NEW there, pc' = [pc EXCEPT ![c] = there]
    PROVE  /\ pc'[c] = there
           /\ \A d \in Calls : d # c => pc'[d] \in {"idle", "done"}
           /\ \A d, e \in InFlight' : d = e
<1>1. pc'[c] = there /\ \A d \in Calls : d # c => pc'[d] = pc[d]
  BY DEF TypeOK, HandleTypeOK, NotifyTypeOK
<1>2. \A d \in Calls : d # c => d \notin InFlight
  BY DEF TurnInv
<1>3. \A d \in Calls : d # c => pc'[d] \in {"idle", "done"}
  BY <1>1, <1>2 DEF InFlight
<1> QED
  BY <1>1, <1>3 DEF InFlight

\* What the call that steps has to show for the invariant.
LEMMA TurnMoves ==
    ASSUME TypeOK, TurnInv, NEW c \in Calls, NEW there, pc' = [pc EXCEPT ![c] = there],
           priorityOpId' => state' # "Sent",
           ~overlap' =>
              /\ ~overlap
              /\ c \in InFlight \/ InFlight = {}
              /\ there = "mining" => state' = "Sent"
              /\ there \in PollPcs \cup {"answered"} =>
                   state' = IF action'[c] = "COMMIT" THEN "Mined" ELSE "Committed"
    PROVE  TurnInv'
<1> SUFFICES ASSUME ~overlap'
             PROVE  /\ \A d, e \in InFlight' : d = e
                    /\ \A d \in Calls :
                        /\ pc'[d] = "mining" => state' = "Sent"
                        /\ pc'[d] \in PollPcs \cup {"answered"} =>
                             state' = IF action'[d] = "COMMIT" THEN "Mined" ELSE "Committed"
  BY DEF TurnInv
<1>1. \A d \in Calls : d # c => pc'[d] \in {"idle", "done"}
  BY Alone
<1>2. \A d \in Calls : d # c => pc'[d] \notin PollPcs \cup {"answered", "mining"}
  BY <1>1 DEF PollPcs
<1>3. pc'[c] = there /\ \A d, e \in InFlight' : d = e
  BY Alone
<1>4. ASSUME NEW d \in Calls
      PROVE  /\ pc'[d] = "mining" => state' = "Sent"
             /\ pc'[d] \in PollPcs \cup {"answered"} =>
                  state' = IF action'[d] = "COMMIT" THEN "Mined" ELSE "Committed"
  <2>1. CASE d = c
    BY <1>3, <2>1
  <2>2. CASE d # c
    BY <1>2, <2>2
  <2> QED
    BY <2>1, <2>2
<1> QED
  BY <1>3, <1>4

\* The networks leave the handle alone; so does a step that stutters.
LEMMA TurnStays ==
    ASSUME TurnInv, UNCHANGED <<state, pc, action, overlap, priorityOpId>>
    PROVE  TurnInv'
BY DEF TurnInv, InFlight

\* Every step keeps to the turn of the calls.
LEMMA TurnStep ==
    ASSUME TypeOK, IInv, TurnInv, [Next]_vars
    PROVE  TurnInv'
<1>1. CASE Server \/ Mine \/ UNCHANGED vars
  BY <1>1, TurnStays DEF Server, Mine, vars, notifyVars, handleVars, opVars
<1>2. ASSUME NEW c \in Calls, NEW m \in Methods, Call(c, m) PROVE TurnInv'
  <2>1. /\ overlap' = (overlap \/ InFlight # {})
        /\ UNCHANGED <<state, priorityOpId>>
    BY <1>2 DEF Call, Invoke, opVars
  <2>2. CASE AwaitMining(c) /\ state = "Sent"
    BY <2>1, <2>2, TurnMoves DEF AwaitMining, PollPcs, TurnInv
  <2>3. CASE \E how \in Outcomes : Settle(c, how, NoReceipt)
    BY <2>1, <2>3, TurnMoves DEF Settle, PollPcs, TurnInv
  <2>4. CASE \/ state = "Mined" /\ Notify(c, "COMMIT")
             \/ state = "Committed" /\ Notify(c, "VERIFY")
    <3>1. FirstRequest # "mining" /\ action'[c] = (IF state = "Mined" THEN "COMMIT" ELSE "VERIFY")
      BY <2>4, FirstRequests DEF Notify, PollPcs, TypeOK, HandleTypeOK, NotifyTypeOK
    <3> QED
      BY <2>1, <2>4, <3>1, TurnMoves DEF Notify, TurnInv
  <2> QED
    BY <1>2, <2>2, <2>3, <2>4 DEF Call, Outcomes
<1>3. ASSUME NEW c \in Calls, Poll(c) PROVE TurnInv'
  <2>1. /\ pc[c] \in PollPcs
        /\ UNCHANGED <<state, overlap, priorityOpId, action>>
        /\ \E there \in PollPcs \cup {"answered"} : pc' = [pc EXCEPT ![c] = there]
    BY <1>3, Polls DEF handleVars, opVars, Goto, Answer
  <2>2. c \in InFlight
    BY <2>1 DEF InFlight, PollPcs
  <2>3. "mining" \notin PollPcs \cup {"answered"}
    BY DEF PollPcs
  <2> QED
    BY <2>1, <2>2, <2>3, TurnMoves DEF TurnInv
<1>4. ASSUME NEW c \in Calls, ResumeMined(c) PROVE TurnInv'
  <2>1. pc[c] = "mining" /\ state' = "Mined" /\ UNCHANGED overlap
    BY <1>4 DEF ResumeMined
  <2>2. c \in InFlight
    BY <2>1 DEF InFlight
  <2>3. CASE Settle(c, "receipt", NoReceipt)
    BY <2>1, <2>2, <2>3, TurnMoves DEF Settle, PollPcs
  <2>4. CASE Notify(c, "COMMIT")
    <3>1. FirstRequest # "mining" /\ action'[c] = "COMMIT"
      BY <2>4, FirstRequests DEF Notify, PollPcs, TypeOK, HandleTypeOK, NotifyTypeOK
    <3> QED
      BY <2>1, <2>2, <2>4, <3>1, TurnMoves DEF Notify
  <2> QED
    BY <1>4, <2>3, <2>4 DEF ResumeMined
<1>5. ASSUME NEW c \in Calls, MiningFails(c) \/ WaitFails(c) PROVE TurnInv'
  BY <1>5, TurnMoves DEF MiningFails, WaitFails, Settle, opVars, InFlight, PollPcs, TurnInv
<1>6. ASSUME NEW c \in Calls, ResumeCommit(c) PROVE TurnInv'
  <2>1. pc[c] = "answered" /\ state' # "Sent" /\ UNCHANGED <<overlap, priorityOpId>>
    BY <1>6 DEF ResumeCommit, opVars
  <2>2. c \in InFlight
    BY <2>1 DEF InFlight
  <2>3. CASE \E how \in Outcomes : Settle(c, how, answer[c])
    BY <2>1, <2>2, <2>3, TurnMoves DEF Settle, PollPcs
  <2>4. CASE state' = "Committed" /\ Notify(c, "VERIFY")
    <3>1. FirstRequest # "mining" /\ action'[c] = "VERIFY"
      BY <2>4, FirstRequests DEF Notify, PollPcs, TypeOK, HandleTypeOK, NotifyTypeOK
    <3> QED
      BY <2>1, <2>2, <2>4, <3>1, TurnMoves DEF Notify
  <2> QED
    BY <1>6, <2>3, <2>4, Continues DEF Outcomes
<1>7. ASSUME NEW c \in Calls, ResumeVerify(c) PROVE TurnInv'
  BY <1>7, TurnMoves DEF ResumeVerify, Settle, opVars, InFlight, PollPcs
<1>8. ASSUME NEW c \in Calls, RequestFails(c), UNCHANGED opVars PROVE TurnInv'
  <2>1. pc[c] \in PollPcs /\ UNCHANGED <<state, overlap, priorityOpId>>
    BY <1>8 DEF RequestFails, SubscriptionLost, PollPcs, opVars
  <2>2. c \in InFlight
    BY <2>1 DEF InFlight, PollPcs
  <2>3. \E there \in {"done", "lost"} : pc' = [pc EXCEPT ![c] = there]
    BY <1>8 DEF RequestFails, SubscriptionLost, Goto, Settle
  <2>4. priorityOpId' => state' # "Sent"
    BY <2>1 DEF TurnInv
  <2> QED
    BY <2>1, <2>2, <2>3, <2>4, TurnMoves DEF PollPcs
<1> QED
  BY <1>1, <1>2, <1>3, <1>4, <1>5, <1>6, <1>7, <1>8 DEF Next, Resume

\* One call at a time, each waits for what comes next for the handle.
THEOREM TurnsAreTaken == Spec => []TurnInv
<1>1. Init => TurnInv
  BY DEF Init, HandleInit, NotifyInit, TurnInv, InFlight, PollPcs
<1> QED
  BY <1>1, TurnStep, TypeCorrect, InductiveInvariant, PTL DEF Spec

\* A program that awaits each call sees the state advance one step at a time; one with
\* several calls in flight may see it go back, but never to Sent.
THEOREM StateOnlyAdvances == Spec => StateAdvances
<1> DEFINE Advances ==
      state' # state =>
         \/ \E i \in 1 .. 3 : state = Order[i] /\ state' = Order[i + 1]
         \/ state = "Mined" /\ state' = "Failed"
         \/ overlap /\ state # "Sent" /\ state' # "Sent"
<1>1. ASSUME TypeOK, IInv, TurnInv, [Next]_vars PROVE [Advances]_vars
  <2> SUFFICES ASSUME state' # state PROVE Advances
    OBVIOUS
  <2>1. PICK c \in Calls : ResumeMined(c) \/ ResumeCommit(c) \/ ResumeVerify(c)
    <3>1. /\ ~Server /\ ~Mine /\ ~UNCHANGED vars
          /\ \A c \in Calls : ~Poll(c) /\ ~MiningFails(c) /\ ~WaitFails(c) /\ ~RequestFails(c)
          /\ \A c \in Calls, m \in Methods : ~Call(c, m)
      BY DEF Server, Mine, Poll, MiningFails, WaitFails, RequestFails, Call, vars, handleVars
    <3> QED
      BY <1>1, <3>1 DEF Next, Resume
  <2>2. CASE state = "Sent"
    <3>1. ~priorityOpId
      BY <1>1, <2>2 DEF TurnInv
    <3>2. pc[c] # "answered"
      BY <1>1, <3>1 DEF IInv, MinedInv, AsksWithPriorityId
    <3>3. state' = "Mined"
      BY <2>1, <3>2 DEF ResumeMined, ResumeCommit, ResumeVerify
    <3> QED
      BY <2>2, <3>3 DEF Order
  <2>3. CASE state # "Sent" /\ overlap
    BY <2>1, <2>3 DEF ResumeMined, ResumeCommit, ResumeVerify
  <2>4. CASE state # "Sent" /\ ~overlap
    <3>1. /\ pc[c] # "mining"
          /\ pc[c] = "answered" =>
               state = IF action[c] = "COMMIT" THEN "Mined" ELSE "Committed"
      BY <1>1, <2>4 DEF TurnInv
    <3>2. CASE ResumeCommit(c)
      <4>1. state = "Mined" /\ state' \in {"Committed", "Failed"}
        BY <3>1, <3>2 DEF ResumeCommit
      <4> QED
        BY <4>1 DEF Order
    <3>3. CASE ResumeVerify(c)
      <4>1. state = "Committed" /\ state' = "Verified"
        BY <3>1, <3>3 DEF ResumeVerify
      <4> QED
        BY <4>1 DEF Order
    <3> QED
      BY <2>1, <3>1, <3>2, <3>3 DEF ResumeMined
  <2> QED
    BY <2>2, <2>3, <2>4
<1> QED
  BY <1>1, TypeCorrect, InductiveInvariant, TurnsAreTaken, PTL DEF Spec, StateAdvances
=============================================================================
