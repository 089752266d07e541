------------------------ MODULE RootstockCalls_proofs -----------------------
(***************************************************************************)
(* A deposit that brings its own approval is never reverted, and a         *)
(* withdrawal of all is reverted by another one at most, for any number of *)
(* calls, owners, credits, failures and transactions of other programs.    *)
(***************************************************************************)
EXTENDS RootstockCalls, SumLemmas, SequenceTheorems, TLAPS

\* The records of the specification have the fields they are declared with, which is
\* all that the first theorem needs to know of their types.
ChainShape ==
    chain \in [nonce : {chain.nonce}, allowance : {chain.allowance}, pending : {chain.pending}]

DraftShape(tx) ==
    tx \in [nonce : {tx.nonce}, kind : {tx.kind}, amounts : {tx.amounts}, owners : {tx.owners},
            caller : {tx.caller}]

CallShape(record) ==
    /\ record \in [pc : {record.pc}, tx : {record.tx}, approve : {record.approve}, all : {record.all}]
    /\ DraftShape(record.tx)

Shape ==
    /\ ChainShape
    /\ call = [c \in Callers |-> call[c]]
    /\ \A c \in Callers : CallShape(call[c])

Inv == Shape /\ IInv

-----------------------------------------------------------------------------
\* What a step does that replaces the record of one call.
LEMMA CallReplaced ==
    ASSUME Shape, NEW c \in Callers, NEW record, CallShape(record),
           call' = [call EXCEPT ![c] = record]
    PROVE  /\ call'[c] = record
           /\ \A d \in Callers \ {c} : call'[d] = call[d]
           /\ call' = [d \in Callers |-> call'[d]]
           /\ \A d \in Callers : CallShape(call'[d])
  BY DEF Shape

\* Goto replaces the record by one that differs in pc.
LEMMA GotoReplaces ==
    ASSUME Shape, NEW c \in Callers, NEW there, Goto(c, there)
    PROVE  /\ call' = [call EXCEPT ![c] = [call[c] EXCEPT !.pc = there]]
           /\ CallShape([call[c] EXCEPT !.pc = there])
           /\ [call[c] EXCEPT !.pc = there].pc = there
           /\ [call[c] EXCEPT !.pc = there].tx = call[c].tx
           /\ [call[c] EXCEPT !.pc = there].approve = call[c].approve
  BY DEF Shape, Goto, CallShape

\* A step of a call that leaves the network alone.
LEMMA CallStep ==
    ASSUME Inv, UNCHANGED accountVars, NEW c \in Callers, NEW record, CallShape(record),
           call' = [call EXCEPT ![c] = record],
           record.pc # "idle",
           call[c].pc = "idle" \/ record.approve = call[c].approve,
           DraftOK(c)'
    PROVE  Inv'
  <1>1. /\ call'[c] = record
        /\ \A d \in Callers \ {c} : call'[d] = call[d]
        /\ Shape'
    BY CallReplaced DEF Inv, Shape, ChainShape, accountVars
  <1>2. MempoolInv'
    BY DEF Inv, IInv, MempoolInv, accountVars, PendingCount
  <1>3. \A n, a : Covered(n, a)' <=> Covered(n, a)
    BY DEF Covered, accountVars
  <1>4. DraftInv'
    BY <1>1, <1>3 DEF Inv, IInv, DraftInv, DraftOK
  <1>5. \A t \in mempool' \cup {m.tx : m \in mined'} : t.kind # "other" =>
            /\ t.caller \in Callers
            /\ call'[t.caller].pc # "idle"
            /\ call'[t.caller].approve = call[t.caller].approve
    BY <1>1 DEF Inv, IInv, SentInv, accountVars
  <1>6. SentInv'
    BY <1>3, <1>5 DEF Inv, IInv, SentInv, accountVars
  <1>7. ApprovedDepositSucceeds'
    BY <1>5 DEF Inv, IInv, ApprovedDepositSucceeds, accountVars
  <1> QED
    BY <1>1, <1>2, <1>4, <1>6, <1>7 DEF Inv, IInv
-----------------------------------------------------------------------------
(***************************************************************************)
(* The mempool.                                                            *)
(***************************************************************************)

\* The count of transactions is a natural number.
LEMMA CountIsNat ==
    ASSUME MempoolInv
    PROVE  PendingCount \in Nat
  BY FS_CardinalityType DEF MempoolInv, PendingCount

\* A transaction accepted takes the next nonce and uncovers none.
LEMMA Added ==
    ASSUME MempoolInv, NEW tx, tx.nonce = PendingCount,
           mempool' = mempool \cup {tx}, chain' = chain
    PROVE  /\ MempoolInv'
           /\ PendingCount' = PendingCount + 1
           /\ \A n, a : Covered(n, a) => Covered(n, a)'
  <1>1. PendingCount \in Nat
    BY CountIsNat
  <1>2. tx \notin mempool
    BY <1>1 DEF MempoolInv
  <1>3. IsFiniteSet(mempool') /\ Cardinality(mempool') = Cardinality(mempool) + 1
    BY <1>2, FS_AddElement DEF MempoolInv
  <1>4. PendingCount' = PendingCount + 1
    BY <1>3, FS_CardinalityType DEF MempoolInv, PendingCount
  <1>5. \A n, a : Covered(n, a) => Covered(n, a)'
    BY DEF Covered
  <1>6. \A t \in mempool' : t.nonce \in chain'.nonce .. PendingCount' - 1
    BY <1>1, <1>4, FS_CardinalityType DEF MempoolInv, PendingCount
  <1>7. \A t, u \in mempool' : t.nonce = u.nonce => t = u
    BY <1>1 DEF MempoolInv
  <1> QED
    BY <1>3, <1>4, <1>5, <1>6, <1>7 DEF MempoolInv

\* Mining takes the first transaction out of the mempool and uncovers no nonce.
LEMMA Mined ==
    ASSUME Shape, MempoolInv, NEW tx \in mempool, Mine(tx)
    PROVE  /\ ChainShape'
           /\ MempoolInv'
           /\ \A n \in Nat : \A a : a[1] \in Nat /\ Covered(n, a) => Covered(n, a)'
  <1>1. /\ chain'.nonce = chain.nonce + 1
        /\ ChainShape'
        /\ tx.kind = "approve" => chain'.allowance = tx.amounts[1]
    BY DEF Mine, Shape, ChainShape, Succeeds, Allowance
  <1>2. IsFiniteSet(mempool') /\ Cardinality(mempool') = Cardinality(mempool) - 1
    BY FS_RemoveElement DEF MempoolInv, Mine
  <1>3. PendingCount' = PendingCount
    BY <1>1, <1>2, FS_CardinalityType DEF MempoolInv, PendingCount
  <1>4. \A t \in mempool' : t \in mempool /\ t.nonce # chain.nonce
    BY DEF Mine, MempoolInv
  <1>5. MempoolInv'
    BY <1>1, <1>2, <1>3, <1>4, CountIsNat DEF MempoolInv
  <1>6. ASSUME NEW n \in Nat, NEW a, a[1] \in Nat, Covered(n, a)
        PROVE  Covered(n, a)'
    <2>1. CASE chain.nonce >= n
      BY <1>1, <2>1 DEF Covered, MempoolInv
    <2>2. CASE chain.nonce < n
      <3>1. PICK t \in mempool : t.kind = "approve" /\ t.nonce = n - 1 /\ t.amounts = a
        BY <1>6, <2>2 DEF Covered, MempoolInv
      <3>2. CASE t = tx
        BY <1>1, <1>6, <3>1, <3>2 DEF Covered, Mine
      <3>3. CASE t # tx
        BY <3>1, <3>3 DEF Covered, Mine
      <3> QED
        BY <3>2, <3>3
    <2> QED
      BY <2>1, <2>2 DEF MempoolInv
  <1> QED
    BY <1>1, <1>5, <1>6

\* A step in which a call sends a transaction.
LEMMA SendStep ==
    ASSUME Inv, NEW c \in Callers, NEW tx, NEW record, CallShape(record),
           tx.nonce = PendingCount, tx.caller = c,
           mempool' = mempool \cup {tx}, UNCHANGED <<chain, mined>>,
           call' = [call EXCEPT ![c] = record],
           call[c].pc # "idle", record.pc # "idle", record.approve = call[c].approve,
           tx.kind = "depositERC20" /\ call[c].approve
                => tx.amounts[1] \in Nat /\ Covered(tx.nonce, tx.amounts),
           DraftOK(c)'
    PROVE  Inv'
  <1>1. /\ call'[c] = record
        /\ \A d \in Callers \ {c} : call'[d] = call[d]
        /\ Shape'
    BY CallReplaced DEF Inv, Shape, ChainShape
  <1>2. /\ MempoolInv'
        /\ \A n, a : Covered(n, a) => Covered(n, a)'
    BY Added DEF Inv, IInv
  <1>3. DraftInv'
    BY <1>1, <1>2 DEF Inv, IInv, DraftInv, DraftOK
  <1>4. \A d \in Callers :
            call[d].pc # "idle" => call'[d].pc # "idle" /\ call'[d].approve = call[d].approve
    BY <1>1
  <1>5. SentInv'
    BY <1>2, <1>4 DEF Inv, IInv, SentInv
  <1>6. ApprovedDepositSucceeds'
    BY <1>4 DEF Inv, IInv, SentInv, ApprovedDepositSucceeds
  <1> QED
    BY <1>1, <1>2, <1>3, <1>5, <1>6 DEF Inv, IInv
-----------------------------------------------------------------------------
(***************************************************************************)
(* The actions.                                                            *)
(***************************************************************************)

\* Every method begins with a draft that promises nothing yet.
LEMMA StartKeeps ==
    ASSUME Inv, NEW c \in Callers, NEW pc, NEW kind, NEW amounts, NEW owners,
           NEW approve \in BOOLEAN, NEW all \in BOOLEAN,
           pc \in {"approvalCount", "balance", "account", "count"},
           approve => pc = "approvalCount" /\ kind = "depositERC20" /\ amounts[1] \in Nat,
           pc = "approvalCount" => approve,
           Start(c, pc, kind, amounts, owners, approve, all)
    PROVE  Inv'
  <1> DEFINE tx == [NoDraft(c) EXCEPT !.kind = kind, !.amounts = amounts, !.owners = owners]
             record == [pc |-> pc, approve |-> approve, all |-> all, tx |-> tx]
  <1>1. NoDraft(c) \in [nonce : {None}, kind : {"other", kind}, amounts : {<<>>, amounts},
                        owners : {<<>>, owners}, caller : {c}]
    BY DEF NoDraft
  <1>2. call' = [call EXCEPT ![c] = record] /\ call[c].pc = "idle" /\ UNCHANGED accountVars
    BY DEF Start
  <1>3. /\ DraftShape(tx)
        /\ tx.kind = kind /\ tx.amounts = amounts /\ tx.caller = c
    BY <1>1 DEF DraftShape
  <1> HIDE DEF tx
  <1>4. CallShape(record)
    BY <1>3 DEF CallShape
  <1>5. call'[c] = record
    BY <1>2, <1>4, CallReplaced DEF Inv
  <1>6. DraftOK(c)'
    BY <1>3, <1>5 DEF DraftOK
  <1> HIDE DEF record
  <1>7. record.pc # "idle"
    BY DEF record
  <1> QED
    BY <1>2, <1>4, <1>6, <1>7, CallStep

\* A call that goes elsewhere with what it has, but not to a place where it needs more.
LEMMA GotoKeeps ==
    ASSUME Inv, NEW c \in Callers, call[c].pc # "idle", Goto(c, "failed"), UNCHANGED accountVars
    PROVE  Inv'
  <1> DEFINE record == [call[c] EXCEPT !.pc = "failed"]
  <1>1. /\ call' = [call EXCEPT ![c] = record]
        /\ CallShape(record)
        /\ record.pc = "failed"
        /\ record.tx = call[c].tx
        /\ record.approve = call[c].approve
    BY GotoReplaces DEF Inv
  <1> HIDE DEF record
  <1>2. call'[c] = record
    BY <1>1, CallReplaced DEF Inv
  <1>3. DraftOK(c)'
    BY <1>1, <1>2 DEF Inv, IInv, DraftInv, DraftOK
  <1> QED
    BY <1>1, <1>3, CallStep

\* Only emergency withdrawals, which bring no approval, wait for the account's id.
LEMMA AccountAnswerKeeps ==
    ASSUME Inv, NEW c \in Callers, NEW id, AccountAnswer(c, id)
    PROVE  Inv'
  <1>1. PICK there \in {"failed", "count"} : Goto(c, there)
    BY DEF AccountAnswer
  <1>2. call[c].pc = "account" /\ UNCHANGED accountVars /\ DraftOK(c)
    BY DEF AccountAnswer, Inv, IInv, DraftInv
  <1> DEFINE record == [call[c] EXCEPT !.pc = there]
  <1>3. /\ call' = [call EXCEPT ![c] = record]
        /\ CallShape(record)
        /\ record.pc = there
        /\ record.tx = call[c].tx
        /\ record.approve = call[c].approve
    BY <1>1, GotoReplaces DEF Inv
  <1> HIDE DEF record
  <1>4. call'[c] = record
    BY <1>3, CallReplaced DEF Inv
  <1>5. DraftOK(c)'
    BY <1>2, <1>3, <1>4 DEF DraftOK
  <1> QED
    BY <1>2, <1>3, <1>5, CallStep

\* Only withdrawals, which bring no approval, wait for balances.
LEMMA BalanceAnswerKeeps ==
    ASSUME Inv, NEW c \in Callers, NEW i, BalanceAnswer(c, i)
    PROVE  Inv'
  <1> DEFINE amounts == [call[c].tx.amounts EXCEPT ![i] = chain.pending[call[c].tx.owners[i]]]
             pc == IF \E j \in DOMAIN amounts : amounts[j] = None THEN "balance" ELSE "count"
             record == [call[c] EXCEPT !.tx.amounts = amounts, !.pc = pc]
  <1>1. /\ call' = [call EXCEPT ![c] = record]
        /\ call[c].pc = "balance" /\ UNCHANGED accountVars
    BY DEF BalanceAnswer
  <1>2. pc \in {"balance", "count"}
    OBVIOUS
  <1> HIDE DEF amounts, pc
  <1>3. CallShape(call[c])
    BY DEF Inv, Shape
  <1>4. /\ CallShape(record)
        /\ record.pc = pc
        /\ record.tx.caller = call[c].tx.caller
        /\ record.approve = call[c].approve
    BY <1>3 DEF CallShape, DraftShape
  <1> HIDE DEF record
  <1>5. call'[c] = record
    BY <1>1, <1>4, CallReplaced DEF Inv
  <1>6. DraftOK(c)'
    BY <1>1, <1>2, <1>4, <1>5 DEF Inv, IInv, DraftInv, DraftOK
  <1> QED
    BY <1>1, <1>2, <1>4, <1>6, CallStep

\* The answer with the nonce: the draft of a call gets the next one of the account.
LEMMA CountAnswerKeeps ==
    ASSUME Inv, NEW c \in Callers, CountAnswer(c)
    PROVE  Inv'
  <1> DEFINE pc == IF call[c].pc = "count" THEN "send" ELSE "approvalSend"
             record == [call[c] EXCEPT !.tx.nonce = PendingCount, !.pc = pc]
  <1>1. /\ call' = [call EXCEPT ![c] = record]
        /\ call[c].pc \in {"approvalCount", "count"} /\ UNCHANGED accountVars
    BY DEF CountAnswer, Inv, Shape, CallShape
  <1>2. CallShape(call[c])
    BY DEF Inv, Shape
  <1>3. /\ CallShape(record)
        /\ record.pc = pc
        /\ record.tx.caller = call[c].tx.caller
        /\ record.tx.kind = call[c].tx.kind
        /\ record.tx.amounts = call[c].tx.amounts
        /\ record.tx.nonce = PendingCount
        /\ record.approve = call[c].approve
    BY <1>2 DEF CallShape, DraftShape
  <1> HIDE DEF record
  <1>4. call'[c] = record
    BY <1>1, <1>3, CallReplaced DEF Inv
  <1>5. DraftOK(c)'
    BY <1>1, <1>3, <1>4, CountIsNat DEF Inv, IInv, DraftInv, DraftOK
  <1> QED
    BY <1>1, <1>3, <1>5, CallStep

\* The approval is sent: it covers the nonce after its own, which the deposit gets.
LEMMA SendApprovalKeeps ==
    ASSUME Inv, NEW c \in Callers, SendApproval(c)
    PROVE  Inv'
  <1> DEFINE tx == [call[c].tx EXCEPT !.kind = "approve"]
             record == [call[c] EXCEPT !.pc = "send", !.tx.nonce = @ + 1]
  <1>1. /\ CallShape(call[c])
        /\ call[c].pc = "approvalSend"
        /\ Accepts(tx.nonce)
        /\ mempool' = mempool \cup {tx} /\ UNCHANGED <<chain, mined>>
        /\ DraftOK(c)
    BY DEF SendApproval, SendTo, Inv, Shape, IInv, DraftInv
  <1>2. /\ DraftShape(tx)
        /\ tx.kind = "approve" /\ tx.nonce = call[c].tx.nonce
        /\ tx.amounts = call[c].tx.amounts /\ tx.caller = c
    BY <1>1 DEF CallShape, DraftShape, DraftOK
  <1>3. /\ CallShape(record)
        /\ record.pc = "send"
        /\ record.tx.caller = call[c].tx.caller
        /\ record.tx.kind = call[c].tx.kind
        /\ record.tx.amounts = call[c].tx.amounts
        /\ record.tx.nonce = call[c].tx.nonce + 1
        /\ record.approve = call[c].approve
    BY <1>1 DEF CallShape, DraftShape
  <1>4. call' = [call EXCEPT ![c] = record] \/ Goto(c, "failed")
    BY DEF SendApproval, SendTo
  <1> HIDE DEF tx, record
  <1>5. tx.nonce = PendingCount
    BY <1>1 DEF Accepts
  <1>6. PICK n, a : n \in Nat /\ n = call[c].tx.nonce /\ a = call[c].tx.amounts
    BY <1>1 DEF DraftOK
  <1>7. Covered(n + 1, a)'
    BY <1>1, <1>2, <1>6 DEF Covered
  <1>8. CASE call' = [call EXCEPT ![c] = record]
    <2>1. call'[c] = record
      BY <1>3, <1>8, CallReplaced DEF Inv
    <2>2. DraftOK(c)'
      BY <1>1, <1>3, <1>6, <1>7, <2>1 DEF DraftOK
    <2> QED
      BY <1>1, <1>2, <1>3, <1>5, <1>8, <2>2, SendStep
  <1>9. CASE Goto(c, "failed")
    <2> DEFINE failed == [call[c] EXCEPT !.pc = "failed"]
    <2>1. /\ call' = [call EXCEPT ![c] = failed]
          /\ CallShape(failed)
          /\ failed.pc = "failed"
          /\ failed.tx = call[c].tx
          /\ failed.approve = call[c].approve
      BY <1>9, GotoReplaces DEF Inv
    <2> HIDE DEF failed
    <2>2. call'[c] = failed
      BY <2>1, CallReplaced DEF Inv
    <2>3. DraftOK(c)'
      BY <1>1, <2>1, <2>2 DEF DraftOK
    <2> QED
      BY <1>1, <1>2, <1>5, <2>1, <2>3, SendStep
  <1> QED
    BY <1>4, <1>8, <1>9

\* The last transaction of a call is sent: if it is a deposit with an approval, its
\* nonce is covered.
LEMMA SendKeeps ==
    ASSUME Inv, NEW c \in Callers, Send(c)
    PROVE  Inv'
  <1>1. /\ call[c].pc = "send"
        /\ call[c].tx.nonce = PendingCount
        /\ mempool' = mempool \cup {call[c].tx} /\ UNCHANGED <<chain, mined>>
        /\ DraftOK(c)
    BY DEF Send, SendTo, Accepts, Inv, IInv, DraftInv
  <1>2. PICK there \in {"done", "failed"} : Goto(c, there)
    BY DEF Send, SendTo, Goto
  <1> DEFINE record == [call[c] EXCEPT !.pc = there]
  <1>3. /\ call' = [call EXCEPT ![c] = record]
        /\ CallShape(record)
        /\ record.pc = there
        /\ record.tx = call[c].tx
        /\ record.approve = call[c].approve
    BY <1>2, GotoReplaces DEF Inv
  <1> HIDE DEF record
  <1>4. call'[c] = record
    BY <1>3, CallReplaced DEF Inv
  <1>5. DraftOK(c)'
    BY <1>1, <1>3, <1>4 DEF DraftOK
  <1>6. call[c].approve => call[c].tx.amounts[1] \in Nat /\ Covered(call[c].tx.nonce, call[c].tx.amounts)
    BY <1>1 DEF DraftOK
  <1>7. call[c].tx.caller = c /\ call[c].pc # "idle" /\ record.pc # "idle"
    BY <1>1, <1>3 DEF DraftOK
  <1> QED
    BY <1>1, <1>3, <1>5, <1>6, <1>7, SendStep

\* Mining carries out a covered deposit, and leaves the others covered.
LEMMA MineKeeps ==
    ASSUME Inv, NEW tx \in mempool, Mine(tx), UNCHANGED call
    PROVE  Inv'
  <1>1. /\ MempoolInv'
        /\ \A n \in Nat : \A a : a[1] \in Nat /\ Covered(n, a) => Covered(n, a)'
        /\ Shape'
    BY Mined DEF Inv, IInv, Shape
  <1>2. DraftInv'
    BY <1>1 DEF Inv, IInv, DraftInv, DraftOK
  <1>3. \A t \in mempool : t.nonce \in Nat
    BY CountIsNat DEF Inv, IInv, MempoolInv
  <1>4. mempool' \subseteq mempool
    BY DEF Mine
  <1>5. {m.tx : m \in mined'} \subseteq {m.tx : m \in mined} \cup {tx}
    BY DEF Mine
  <1>6. SentInv'
    BY <1>1, <1>3, <1>4, <1>5 DEF Inv, IInv, SentInv
  <1>7. ASSUME tx.kind = "depositERC20", call[tx.caller].approve
        PROVE  Succeeds(tx)
    <2>1. Covered(tx.nonce, tx.amounts) /\ tx.nonce = chain.nonce
      BY <1>7 DEF Inv, IInv, SentInv, Mine
    <2>2. ~ \E t \in mempool : t.nonce = chain.nonce - 1
      BY CountIsNat DEF Inv, IInv, MempoolInv
    <2>3. tx.amounts[1] <= chain.allowance
      BY <2>1, <2>2 DEF Covered, Inv, IInv, MempoolInv
    <2> QED
      BY <1>7, <2>3 DEF Succeeds
  <1>8. ASSUME NEW m \in mined', m.tx.kind = "depositERC20", call[m.tx.caller].approve
        PROVE  m.ok
    <2>1. CASE m \in mined
      BY <1>8, <2>1 DEF Inv, IInv, ApprovedDepositSucceeds
    <2>2. CASE m = [tx |-> tx, ok |-> Succeeds(tx)]
      BY <1>7, <1>8, <2>2
    <2> QED
      BY <1>8, <2>1, <2>2 DEF Mine
  <1>9. ApprovedDepositSucceeds'
    BY <1>8 DEF ApprovedDepositSucceeds
  <1> QED
    BY <1>1, <1>2, <1>6, <1>9 DEF Inv, IInv

\* A credit changes pending balances only.
LEMMA CreditKeeps ==
    ASSUME Inv, NEW o \in Owners, Credit(o), UNCHANGED call
    PROVE  Inv'
  <1>1. /\ chain'.nonce = chain.nonce /\ chain'.allowance = chain.allowance
        /\ ChainShape'
        /\ UNCHANGED <<mempool, mined, call>>
    BY DEF Credit, Inv, Shape, ChainShape
  <1>2. Shape' /\ MempoolInv' /\ \A n, a : Covered(n, a)' <=> Covered(n, a)
    BY <1>1 DEF Inv, Shape, IInv, MempoolInv, PendingCount, Covered
  <1>3. DraftInv'
    BY <1>1, <1>2 DEF Inv, IInv, DraftInv, DraftOK
  <1>4. SentInv' /\ ApprovedDepositSucceeds'
    BY <1>1, <1>2 DEF Inv, IInv, SentInv, ApprovedDepositSucceeds
  <1> QED
    BY <1>2, <1>3, <1>4 DEF Inv, IInv

\* Another program's transaction takes the next nonce.
LEMMA ForeignKeeps ==
    ASSUME Inv, SendForeign, UNCHANGED call
    PROVE  Inv'
  <1> DEFINE tx == [nonce |-> PendingCount, kind |-> "other", amounts |-> <<>>, owners |-> <<>>,
                    caller |-> Other]
  <1>1. /\ mempool' = mempool \cup {tx} /\ UNCHANGED <<chain, mined, call>>
        /\ tx.nonce = PendingCount /\ tx.kind = "other"
    BY DEF SendForeign
  <1> HIDE DEF tx
  <1>2. /\ MempoolInv' /\ Shape'
        /\ \A n, a : Covered(n, a) => Covered(n, a)'
    BY <1>1, Added DEF Inv, IInv, Shape, ChainShape
  <1>3. DraftInv'
    BY <1>1, <1>2 DEF Inv, IInv, DraftInv, DraftOK
  <1>4. SentInv' /\ ApprovedDepositSucceeds'
    BY <1>1, <1>2 DEF Inv, IInv, SentInv, ApprovedDepositSucceeds
  <1> QED
    BY <1>2, <1>3, <1>4 DEF Inv, IInv
-----------------------------------------------------------------------------
(***************************************************************************)
(* The theorems.                                                           *)
(***************************************************************************)

\* No call has begun and nothing was sent.
LEMMA InitInv == Init => Inv
  <1> SUFFICES ASSUME Init PROVE Inv
    OBVIOUS
  <1>1. Shape /\ DraftInv
    BY DEF Init, AccountInit, NoDraft, Shape, ChainShape, CallShape, DraftShape, DraftInv, DraftOK
  <1>2. MempoolInv
    BY FS_EmptySet DEF Init, AccountInit, MempoolInv
  <1>3. SentInv /\ ApprovedDepositSucceeds
    BY DEF Init, AccountInit, SentInv, ApprovedDepositSucceeds
  <1> QED
    BY <1>1, <1>2, <1>3 DEF Inv, IInv

\* All methods but one begin without an approval.
LEMMA StartPlainKeeps ==
    ASSUME Inv, NEW c \in Callers, NEW pc \in {"balance", "account", "count"}, NEW kind,
           NEW amounts, NEW owners, NEW all \in BOOLEAN, Start(c, pc, kind, amounts, owners, FALSE, all)
    PROVE  Inv'
  <1>1. /\ pc \in {"approvalCount", "balance", "account", "count"}
        /\ pc # "approvalCount"
    OBVIOUS
  <1> QED
    BY <1>1, StartKeeps, Zenon

\* Every step keeps the invariant.
LEMMA NextInv == Inv /\ [Next]_vars => Inv'
  <1> SUFFICES ASSUME Inv, [Next]_vars PROVE Inv'
    OBVIOUS
  <1>1. ASSUME NEW c \in Callers, NEW amount, Approve(c, amount)
        PROVE  Inv'
    BY <1>1, StartPlainKeeps, Zenon DEF Approve
  <1>2. ASSUME NEW c \in Callers, NEW amount, DepositRBTC(c, amount)
        PROVE  Inv'
    BY <1>2, StartPlainKeeps, Zenon DEF DepositRBTC
  <1>3. ASSUME NEW c \in Callers, NEW amount \in Amounts, NEW approve \in BOOLEAN,
               DepositERC20(c, amount, approve)
        PROVE  Inv'
    <2>1. CASE approve
      <3>1. <<amount>>[1] \in Nat
        BY CallsAssumption
      <3>2. Start(c, "approvalCount", "depositERC20", <<amount>>, <<>>, TRUE, FALSE)
        BY <1>3, <2>1 DEF DepositERC20
      <3> QED
        BY <3>1, <3>2, StartKeeps, Zenon
    <2>2. CASE ~approve
      <3>1. Start(c, "count", "depositERC20", <<amount>>, <<>>, FALSE, FALSE)
        BY <1>3, <2>2 DEF DepositERC20
      <3> QED
        BY <3>1, StartPlainKeeps, Zenon
    <2> QED
      BY <2>1, <2>2
  <1>4. ASSUME NEW c \in Callers, NEW o, NEW amount, NEW isNumber, Withdraw(c, o, amount, isNumber)
        PROVE  Inv'
    <2> DEFINE all == amount = None \/ (amount = 0 /\ isNumber)
    <2>1. Start(c, IF all THEN "balance" ELSE "count", "withdraw",
                <<IF all THEN None ELSE amount>>, <<o>>, FALSE, all)
      BY <1>4, Zenon DEF Withdraw
    <2>2. all \in BOOLEAN /\ (IF all THEN "balance" ELSE "count") \in {"balance", "account", "count"}
      OBVIOUS
    <2> HIDE DEF all
    <2> QED
      BY <2>1, <2>2, StartPlainKeeps, Zenon
  <1>5. ASSUME NEW c \in Callers, NEW owners, NEW amounts, WithdrawMany(c, owners, amounts)
        PROVE  Inv'
    <2> DEFINE all == amounts = <<>>
    <2>1. Start(c, IF all THEN "balance" ELSE "count", "withdraw",
                IF all THEN [i \in DOMAIN owners |-> None] ELSE amounts, owners, FALSE, all)
      BY <1>5, Zenon DEF WithdrawMany
    <2>2. all \in BOOLEAN /\ (IF all THEN "balance" ELSE "count") \in {"balance", "account", "count"}
      OBVIOUS
    <2> HIDE DEF all
    <2> QED
      BY <2>1, <2>2, StartPlainKeeps, Zenon
  <1>6. ASSUME NEW c \in Callers, SendRefused(c) \/ Fail(c)
        PROVE  Inv'
    BY <1>6, GotoKeeps DEF SendRefused, Fail
  <1>7. ASSUME NEW c \in Callers, NEW idKnown, EmergencyWithdraw(c, idKnown)
        PROVE  Inv'
    <2>1. Start(c, IF idKnown THEN "count" ELSE "account", "fullExit", <<>>, <<>>, FALSE, FALSE)
      BY <1>7, Zenon DEF EmergencyWithdraw
    <2>2. (IF idKnown THEN "count" ELSE "account") \in {"balance", "account", "count"}
      OBVIOUS
    <2> QED
      BY <2>1, <2>2, StartPlainKeeps, Zenon
  <1>8. CASE Network
    <2>1. ASSUME NEW tx \in mempool, Mine(tx) PROVE Inv'
      BY <1>8, <2>1, MineKeeps DEF Network
    <2>2. ASSUME NEW o \in Owners, Credit(o) PROVE Inv'
      BY <1>8, <2>2, CreditKeeps DEF Network
    <2>3. CASE SendForeign
      BY <1>8, <2>3, ForeignKeeps DEF Network
    <2> QED
      BY <1>8, <2>1, <2>2, <2>3 DEF Network, NetworkStep
  <1>9. CASE UNCHANGED vars
    <2>1. Shape' /\ MempoolInv'
      BY <1>9 DEF vars, accountVars, Inv, Shape, ChainShape, IInv, MempoolInv, PendingCount
    <2>2. \A n, a : Covered(n, a)' <=> Covered(n, a)
      BY <1>9 DEF vars, accountVars, Covered
    <2>3. DraftInv' /\ SentInv' /\ ApprovedDepositSucceeds'
      BY <1>9, <2>2 DEF vars, accountVars, Inv, IInv, DraftInv, DraftOK, SentInv,
         ApprovedDepositSucceeds
    <2> QED
      BY <2>1, <2>3 DEF Inv, IInv
  <1> QED
    BY <1>1, <1>2, <1>3, <1>4, <1>5, <1>6, <1>7, <1>8, <1>9, BalanceAnswerKeeps,
       AccountAnswerKeeps, CountAnswerKeeps, SendApprovalKeeps, SendKeeps DEF Next

\* Transactions in the mempool have consecutive nonces, each once, and a deposit that
\* follows its approval is covered by it until it is mined.
THEOREM InductiveInvariant == Spec => []IInv
  <1>1. Spec => []Inv
    BY InitInv, NextInv, PTL DEF Spec
  <1> QED
    BY <1>1, PTL DEF Inv

\* A deposit that depositToSyncFromRootstock approves itself is never reverted for want
\* of allowance, whatever else is sent from the account meanwhile.
THEOREM ApprovedDepositNeverReverts == Spec => []ApprovedDepositSucceeds
  <1>1. IInv => ApprovedDepositSucceeds
    BY DEF IInv
  <1> QED
    BY <1>1, InductiveInvariant, PTL
-----------------------------------------------------------------------------
(***************************************************************************)
(* Types, and withdrawals of all that is pending.                          *)
(***************************************************************************)

Full == Inv /\ TypeInv /\ WithdrawInv

\* What a withdrawal takes from an owner is a natural number, however many amounts go
\* to the owner.
LEMMA TakenType ==
    ASSUME NEW tx, tx.kind = "withdraw", Formed(tx), tx.amounts \in Seq(Nat),
           tx.owners \in Seq(Owners), NEW o
    PROVE  Taken(tx, o) \in Nat
<1> DEFINE paid == {i \in DOMAIN tx.owners : tx.owners[i] = o}
<1>1. /\ Len(tx.owners) \in Nat /\ paid \subseteq 1 .. Len(tx.owners)
      /\ \A i \in paid : tx.amounts[i] \in Nat
  BY DEF Formed
<1>2. IsFiniteSet(paid)
  BY <1>1, FS_Interval, FS_Subset
<1> HIDE DEF paid
<1>3. SumFunctionOnSet(tx.amounts, paid) \in Nat
  BY <1>1, <1>2, SumType
<1> QED
  BY <1>3 DEF Taken, paid

\* If the owners differ, it is the owner's amount, and nothing for those without one.
LEMMA TakenFromOwner ==
    ASSUME NEW tx, tx.kind = "withdraw", Formed(tx), tx.amounts \in Seq(Nat),
           tx.owners \in Seq(Owners), NEW o, Taken(tx, o) > 0,
           \A i, j \in DOMAIN tx.owners : i # j => tx.owners[i] # tx.owners[j]
    PROVE  \E i \in DOMAIN tx.owners : tx.owners[i] = o /\ Taken(tx, o) = tx.amounts[i]
<1> DEFINE paid == {i \in DOMAIN tx.owners : tx.owners[i] = o}
<1>0. Taken(tx, o) = SumFunctionOnSet(tx.amounts, paid)
  BY DEF Taken
<1>1. CASE paid = {}
  <2>1. SumFunctionOnSet(tx.amounts, {}) = 0
    BY SumOfNone
  <2> HIDE DEF paid
  <2> QED
    BY <1>0, <1>1, <2>1
<1>2. ASSUME NEW i \in paid
      PROVE  Taken(tx, o) = tx.amounts[i]
  <2>1. paid = {i}
    BY <1>2
  <2>2. tx.amounts[i] \in Int
    <3>1. i \in 1 .. Len(tx.amounts)
      BY <1>2 DEF Formed
    <3> QED
      BY <3>1
  <2>3. SumFunctionOnSet(tx.amounts, {i}) = tx.amounts[i]
    BY <2>2, SumOfOne
  <2> QED
    BY <1>0, <2>1, <2>3
<1> QED
  BY <1>1, <1>2

\* A step of a call that leaves the network alone.
LEMMA FullCallStep ==
    ASSUME Full, UNCHANGED accountVars, NEW c \in Callers, NEW record \in CallStates,
           call' = [call EXCEPT ![c] = record], failures' \in 0 .. MaxFailures,
           call[c].pc = "idle" \/ record.all = call[c].all,
           Prepared(record), record.all => Backed(record.tx)
    PROVE  TypeInv' /\ WithdrawInv'
<1>1. \A d \in Callers : call'[d] = IF d = c THEN record ELSE call[d]
  BY DEF Full, TypeInv, TypeOK
<1>2. UNCHANGED <<mempool, chain, mined, foreign, credits>>
  BY DEF accountVars
<1>3. TypeOK'
  BY <1>2 DEF Full, TypeInv, TypeOK, AccountTypeOK
<1>4. TypeInv'
  BY <1>1, <1>2, <1>3 DEF Full, TypeInv
<1>5. \A tx : Backed(tx)' <=> Backed(tx)
  BY <1>2 DEF Backed, TakenFrom
<1>6. \A t \in mempool \cup {m.tx : m \in mined} :
        t.kind = "withdraw" => call'[t.caller].all = call[t.caller].all
  BY <1>1 DEF Full, Inv, IInv, SentInv
<1>7. WithdrawalOfAllSucceeds'
  BY <1>2, <1>6 DEF Full, WithdrawInv, WithdrawalOfAllSucceeds
<1>8. \A d \in Callers : call'[d].all => Backed(call'[d].tx)
  BY <1>1 DEF Full, WithdrawInv
<1>9. \A d \in Callers : call'[d].all => Backed(call[d].tx)'
  BY <1>5, <1>8
<1>10. \A t \in mempool' : t.kind = "withdraw" /\ call'[t.caller].all => Backed(t)'
  BY <1>2, <1>5, <1>6 DEF Full, WithdrawInv
<1> QED
  BY <1>4, <1>7, <1>9, <1>10 DEF WithdrawInv

\* A call begins.
LEMMA FullStart ==
    ASSUME Full, NEW c \in Callers, NEW pc \in {"approvalCount", "balance", "account", "count"},
           NEW kind \in Kinds, NEW amounts \in Seq(Nat \cup {None}), NEW owners \in Seq(Owners),
           NEW approve \in BOOLEAN, NEW all \in BOOLEAN,
           kind = "withdraw" => Len(amounts) = Len(owners), kind # "withdraw" => owners = <<>>,
           kind \in {"approve", "depositERC20", "depositRBTC"} => Len(amounts) = 1,
           pc = "balance" => kind = "withdraw",
           pc = "approvalCount" => kind = "depositERC20",
           pc # "balance" => amounts \in Seq(Nat),
           all => \A i \in DOMAIN owners : amounts[i] = None,
           Start(c, pc, kind, amounts, owners, approve, all)
    PROVE  TypeInv' /\ WithdrawInv'
<1> DEFINE tx == [NoDraft(c) EXCEPT !.kind = kind, !.amounts = amounts, !.owners = owners]
           record == [pc |-> pc, approve |-> approve, all |-> all, tx |-> tx]
<1>1. call' = [call EXCEPT ![c] = record] /\ call[c].pc = "idle"
  BY DEF Start
<1>2. UNCHANGED accountVars /\ failures' \in 0 .. MaxFailures
  BY DEF Start, Full, TypeInv, TypeOK
<1>3. NoDraft(c) \in Drafts
  BY DEF NoDraft, Drafts, Kinds
<1>4. tx \in Drafts /\ tx.kind = kind /\ tx.amounts = amounts /\ tx.owners = owners
  BY <1>3 DEF Drafts
<1> HIDE DEF tx
<1>5. record \in CallStates
  BY <1>4 DEF CallStates, Pcs
<1>6. Prepared(record)
  BY <1>4 DEF Prepared, Formed
<1>7. record.all => Backed(record.tx)
  BY <1>4 DEF Backed
<1> HIDE DEF record
<1> QED
  BY <1>1, <1>2, <1>5, <1>6, <1>7, FullCallStep

\* A withdrawal reads the balances first if it is to take all of them.
LEMMA FullWithdraw ==
    ASSUME Full, NEW c \in Callers, NEW amounts \in Seq(Nat \cup {None}),
           NEW owners \in Seq(Owners), NEW all \in BOOLEAN, Len(amounts) = Len(owners),
           ~all => amounts \in Seq(Nat), all => \A i \in DOMAIN owners : amounts[i] = None,
           Start(c, IF all THEN "balance" ELSE "count", "withdraw", amounts, owners, FALSE, all)
    PROVE  TypeInv' /\ WithdrawInv'
<1> DEFINE pc == IF all THEN "balance" ELSE "count"
<1>1. pc \in {"approvalCount", "balance", "account", "count"} /\ pc # "approvalCount"
  OBVIOUS
<1>2. pc # "balance" => amounts \in Seq(Nat)
  OBVIOUS
<1>3. "withdraw" \in Kinds /\ "withdraw" \notin {"approve", "depositERC20", "depositRBTC"}
  BY DEF Kinds
<1>4. Start(c, pc, "withdraw", amounts, owners, FALSE, all)
  OBVIOUS
<1> HIDE DEF pc
<1> QED
  BY <1>1, <1>2, <1>3, <1>4, FullStart

\* Every method of the wallet begins a call with a transaction of its kind.
LEMMA FullBegin ==
    ASSUME Full, NEW c \in Callers,
           \/ \E amount \in Amounts \cup {Unlimited} : Approve(c, amount)
           \/ \E amount \in Amounts :
                DepositRBTC(c, amount) \/ \E approve \in BOOLEAN : DepositERC20(c, amount, approve)
           \/ \E o \in Owners, amount \in Amounts \cup {None}, isNumber \in BOOLEAN :
                Withdraw(c, o, amount, isNumber)
           \/ \E o, p \in Owners, amounts \in {<<>>} \cup Amounts \X Amounts :
                WithdrawMany(c, <<o, p>>, amounts)
           \/ \E idKnown \in BOOLEAN : EmergencyWithdraw(c, idKnown)
    PROVE  TypeInv' /\ WithdrawInv'
<1>1. \A n \in Nat : <<n>> \in Seq(Nat) /\ <<n>> \in Seq(Nat \cup {None}) /\ Len(<<n>>) = 1
  OBVIOUS
<1>2. <<>> \in Seq(Nat) /\ <<>> \in Seq(Nat \cup {None}) /\ <<>> \in Seq(Owners)
  OBVIOUS
<1>3. ASSUME NEW amount \in Nat, NEW pc \in {"approvalCount", "count"}, NEW approve \in BOOLEAN,
             NEW kind \in {"approve", "depositERC20", "depositRBTC"},
             pc = "approvalCount" => kind = "depositERC20",
             Start(c, pc, kind, <<amount>>, <<>>, approve, FALSE)
      PROVE  TypeInv' /\ WithdrawInv'
  <2>1. /\ kind \in Kinds /\ kind # "withdraw" /\ pc # "balance"
        /\ pc \in {"approvalCount", "balance", "account", "count"}
    BY DEF Kinds
  <2>2. /\ <<amount>> \in Seq(Nat) /\ <<amount>> \in Seq(Nat \cup {None}) /\ Len(<<amount>>) = 1
        /\ <<>> \in Seq(Owners)
    BY <1>1, <1>2
  <2> DEFINE one == <<amount>>
             none == <<>>
  <2>3. Start(c, pc, kind, one, none, approve, FALSE)
    BY <1>3
  <2>4. /\ one \in Seq(Nat) /\ one \in Seq(Nat \cup {None}) /\ Len(one) = 1
        /\ none \in Seq(Owners) /\ none = <<>>
    BY <2>2
  <2> HIDE DEF one, none
  <2> QED
    BY <1>3, <2>1, <2>3, <2>4, FullStart
<1>4. ASSUME NEW amount \in Amounts \cup {Unlimited}, Approve(c, amount)
      PROVE  TypeInv' /\ WithdrawInv'
  BY <1>3, <1>4, CallsAssumption DEF Approve
<1>5. ASSUME NEW amount \in Amounts, DepositRBTC(c, amount)
      PROVE  TypeInv' /\ WithdrawInv'
  BY <1>3, <1>5, CallsAssumption DEF DepositRBTC
<1>6. ASSUME NEW amount \in Amounts, NEW approve \in BOOLEAN, DepositERC20(c, amount, approve)
      PROVE  TypeInv' /\ WithdrawInv'
  BY <1>3, <1>6, CallsAssumption DEF DepositERC20
<1>7. ASSUME NEW o \in Owners, NEW amount \in Amounts \cup {None}, NEW isNumber \in BOOLEAN,
             Withdraw(c, o, amount, isNumber)
      PROVE  TypeInv' /\ WithdrawInv'
  <2> DEFINE all == amount = None \/ (amount = 0 /\ isNumber)
             amounts == <<IF all THEN None ELSE amount>>
  <2>1. Start(c, IF all THEN "balance" ELSE "count", "withdraw", amounts, <<o>>, FALSE, all)
    BY <1>7, Zenon DEF Withdraw
  <2>2. /\ amounts \in Seq(Nat \cup {None}) /\ <<o>> \in Seq(Owners)
        /\ Len(amounts) = Len(<<o>>)
        /\ ~all => amounts \in Seq(Nat)
        /\ all => \A i \in DOMAIN <<o>> : amounts[i] = None
    BY CallsAssumption
  <2>3. all \in BOOLEAN
    OBVIOUS
  <2> HIDE DEF all, amounts
  <2> QED
    BY <2>1, <2>2, <2>3, FullWithdraw
<1>8. ASSUME NEW o \in Owners, NEW p \in Owners, NEW given \in {<<>>} \cup Amounts \X Amounts,
             WithdrawMany(c, <<o, p>>, given)
      PROVE  TypeInv' /\ WithdrawInv'
  <2> DEFINE all == given = <<>>
             owners == <<o, p>>
             amounts == IF all THEN [i \in DOMAIN owners |-> None] ELSE given
  <2>1. Start(c, IF all THEN "balance" ELSE "count", "withdraw", amounts, owners, FALSE, all)
    BY <1>8, Zenon DEF WithdrawMany
  <2>2. owners \in Seq(Owners) /\ Len(owners) = 2 /\ DOMAIN owners = 1 .. 2
    OBVIOUS
  <2>3. /\ [i \in 1 .. 2 |-> None] \in Seq(Nat \cup {None})
        /\ Len([i \in 1 .. 2 |-> None]) = 2
    OBVIOUS
  <2>4. ~all => given \in Seq(Nat) /\ given \in Seq(Nat \cup {None}) /\ Len(given) = 2
    <3>1. SUFFICES ASSUME ~all
                   PROVE  given \in Seq(Nat) /\ given \in Seq(Nat \cup {None}) /\ Len(given) = 2
      OBVIOUS
    <3>2. PICK a \in Amounts, b \in Amounts : given = <<a, b>>
      BY <3>1
    <3>3. a \in Nat /\ b \in Nat
      BY CallsAssumption
    <3> QED
      BY <3>2, <3>3
  <2>5. /\ amounts \in Seq(Nat \cup {None}) /\ Len(amounts) = Len(owners)
        /\ ~all => amounts \in Seq(Nat)
        /\ all => \A i \in DOMAIN owners : amounts[i] = None
    BY <2>2, <2>3, <2>4
  <2>6. all \in BOOLEAN
    OBVIOUS
  <2> HIDE DEF all, amounts, owners
  <2> QED
    BY <2>1, <2>2, <2>5, <2>6, FullWithdraw
<1>9. ASSUME NEW idKnown \in BOOLEAN, EmergencyWithdraw(c, idKnown)
      PROVE  TypeInv' /\ WithdrawInv'
  <2> DEFINE pc == IF idKnown THEN "count" ELSE "account"
  <2>1. Start(c, pc, "fullExit", <<>>, <<>>, FALSE, FALSE) /\ pc \in {"account", "count"}
    BY <1>9 DEF EmergencyWithdraw
  <2> HIDE DEF pc
  <2> QED
    BY <1>2, <2>1, FullStart DEF Kinds
<1> QED
  BY <1>4, <1>5, <1>6, <1>7, <1>8, <1>9

\* A call fails, or has learnt the account's id.
LEMMA FullGoto ==
    ASSUME Full, UNCHANGED accountVars, NEW c \in Callers, failures' \in 0 .. MaxFailures,
           NEW there, there = "failed" \/ (there = "count" /\ call[c].pc = "account"),
           call[c].pc # "idle", Goto(c, there)
    PROVE  TypeInv' /\ WithdrawInv'
<1> DEFINE record == [call[c] EXCEPT !.pc = there]
<1>1. call[c] \in CallStates /\ Prepared(call[c]) /\ there \in Pcs
  BY DEF Full, TypeInv, TypeOK, Pcs
<1>2. /\ record \in CallStates /\ record.pc = there /\ record.tx = call[c].tx
      /\ record.all = call[c].all
  BY <1>1 DEF CallStates
<1>3. call' = [call EXCEPT ![c] = record]
  BY DEF Goto
<1> HIDE DEF record
<1>4. Prepared(record)
  BY <1>1, <1>2 DEF Prepared
<1>5. record.all => Backed(record.tx)
  BY <1>2 DEF Full, WithdrawInv
<1> QED
  BY <1>2, <1>3, <1>4, <1>5, FullCallStep

\* An amount that is read is backed by the balance it was read from.
LEMMA FullBalanceAnswer ==
    ASSUME Full, NEW c \in Callers, NEW i, BalanceAnswer(c, i)
    PROVE  TypeInv' /\ WithdrawInv'
<1> DEFINE tx == call[c].tx
           amounts == [tx.amounts EXCEPT ![i] = chain.pending[tx.owners[i]]]
           pc == IF \E j \in DOMAIN amounts : amounts[j] = None THEN "balance" ELSE "count"
           record == [call[c] EXCEPT !.tx.amounts = amounts, !.pc = pc]
<1>1. /\ call' = [call EXCEPT ![c] = record] /\ call[c].pc = "balance"
      /\ UNCHANGED <<accountVars, failures>> /\ i \in DOMAIN tx.amounts
  BY DEF BalanceAnswer
<1>2. /\ call[c] \in CallStates /\ tx \in Drafts /\ tx.kind = "withdraw" /\ Formed(tx)
      /\ failures \in 0 .. MaxFailures
  BY <1>1 DEF Full, TypeInv, TypeOK, Prepared, CallStates
<1>3. /\ tx.amounts \in Seq(Nat \cup {None}) /\ tx.owners \in Seq(Owners)
      /\ Len(tx.amounts) \in Nat /\ DOMAIN tx.amounts = 1 .. Len(tx.amounts)
      /\ DOMAIN tx.owners = 1 .. Len(tx.amounts)
  BY <1>2, LenProperties DEF Drafts, Formed
<1>4. tx.owners[i] \in Owners
  BY <1>1, <1>3, ElementOfSeq
<1>5. chain.pending[tx.owners[i]] \in Nat
  BY <1>4 DEF Full, TypeInv, TypeOK, AccountTypeOK
<1>6. /\ amounts \in Seq(Nat \cup {None}) /\ Len(amounts) = Len(tx.amounts)
      /\ DOMAIN amounts = DOMAIN tx.amounts
      /\ \A j \in DOMAIN amounts :
            amounts[j] = IF j = i THEN chain.pending[tx.owners[i]] ELSE tx.amounts[j]
  <2>1. tx.amounts \in [1 .. Len(tx.amounts) -> Nat \cup {None}] /\ i \in 1 .. Len(tx.amounts)
    BY <1>1, <1>3, LenProperties
  <2>2. amounts \in [1 .. Len(tx.amounts) -> Nat \cup {None}]
    BY <1>5, <2>1
  <2>3. amounts \in Seq(Nat \cup {None})
    BY <1>3, <2>2, SeqDef
  <2> QED
    BY <1>3, <2>1, <2>2, <2>3, LenProperties
<1> HIDE DEF amounts
<1>7. pc # "balance" => amounts \in Seq(Nat)
  <2>1. ASSUME \A j \in DOMAIN amounts : amounts[j] # None
        PROVE  amounts \in Seq(Nat)
    <3>1. \A j \in 1 .. Len(tx.amounts) : amounts[j] \in Nat
      BY <1>3, <1>6, <2>1, ElementOfSeq
    <3>2. amounts = [j \in 1 .. Len(tx.amounts) |-> amounts[j]]
      BY <1>3, <1>6, LenProperties
    <3>3. amounts \in [1 .. Len(tx.amounts) -> Nat]
      BY <3>1, <3>2
    <3> QED
      BY <1>3, <3>3, SeqDef
  <2> QED
    BY <2>1
<1>8. pc \in {"balance", "count"}
  OBVIOUS
<1> HIDE DEF pc
<1> DEFINE read == [tx EXCEPT !.amounts = amounts]
<1>9. /\ read \in Drafts /\ read.kind = tx.kind /\ read.owners = tx.owners
      /\ read.amounts = amounts
  BY <1>2, <1>6 DEF Drafts
<1>10. /\ record \in CallStates /\ record.pc = pc /\ record.all = call[c].all
       /\ record.tx = read
  BY <1>2, <1>8, <1>9 DEF CallStates, Pcs
<1> HIDE DEF record, read
<1>11. Prepared(record)
  BY <1>2, <1>6, <1>7, <1>8, <1>9, <1>10 DEF Prepared, Formed
<1>12. record.all => Backed(record.tx)
  <2>1. call[c].all => Backed(tx)
    BY DEF Full, WithdrawInv
  <2> HIDE DEF tx
  <2>2. ASSUME NEW j \in DOMAIN tx.owners, Backed(tx)
        PROVE  \/ amounts[j] = None
               \/ amounts[j] <= chain.pending[tx.owners[j]]
               \/ TakenFrom(tx.owners[j])
    <3>1. CASE j = i
      BY <1>3, <1>5, <1>6, <2>2, <3>1
    <3>2. CASE j # i
      BY <1>3, <1>6, <2>2, <3>2 DEF Backed
    <3> QED
      BY <3>1, <3>2
  <2>3. Backed(tx) => Backed(read)
    BY <1>9, <2>2 DEF Backed
  <2> QED
    BY <1>10, <2>1, <2>3
<1> HIDE DEF tx
<1> QED
  BY <1>1, <1>2, <1>10, <1>11, <1>12, FullCallStep

\* The nonce is known once the count is.
LEMMA FullCountAnswer ==
    ASSUME Full, NEW c \in Callers, CountAnswer(c)
    PROVE  TypeInv' /\ WithdrawInv'
<1> DEFINE tx == call[c].tx
           numbered == [tx EXCEPT !.nonce = PendingCount]
           pc == IF call[c].pc = "count" THEN "send" ELSE "approvalSend"
           record == [call[c] EXCEPT !.tx.nonce = PendingCount, !.pc = pc]
<1>1. call[c] \in CallStates /\ tx \in Drafts /\ Prepared(call[c])
  BY DEF Full, TypeInv, TypeOK, CallStates
<1>2. /\ call' = [call EXCEPT ![c] = record] /\ call[c].pc \in {"approvalCount", "count"}
      /\ UNCHANGED <<accountVars, failures>> /\ failures \in 0 .. MaxFailures
  BY <1>1 DEF CountAnswer, CallStates, Full, TypeInv, TypeOK
<1>3. PendingCount \in Nat
  BY CountIsNat DEF Full, Inv, IInv
<1>4. /\ numbered \in Drafts /\ numbered.nonce = PendingCount /\ numbered.kind = tx.kind
      /\ numbered.amounts = tx.amounts /\ numbered.owners = tx.owners
  BY <1>1, <1>3 DEF Drafts
<1>5. /\ record \in CallStates /\ record.pc = pc /\ record.all = call[c].all
      /\ record.tx = numbered
  BY <1>1, <1>4 DEF CallStates, Pcs
<1> HIDE DEF record, numbered
<1>6. Prepared(record)
  BY <1>1, <1>2, <1>3, <1>4, <1>5 DEF Prepared, Formed
<1>7. record.all => Backed(record.tx)
  BY <1>4, <1>5 DEF Full, WithdrawInv, Backed
<1> QED
  BY <1>2, <1>5, <1>6, <1>7, FullCallStep

\* A step in which a call sends a transaction.
LEMMA FullSend ==
    ASSUME Full, NEW c \in Callers, NEW tx \in Transactions, NEW record \in CallStates,
           mempool' = mempool \cup {tx}, UNCHANGED <<chain, mined, foreign, credits>>,
           failures' \in 0 .. MaxFailures, call' = [call EXCEPT ![c] = record],
           call[c].pc # "idle", record.all = call[c].all, record.all => Backed(record.tx),
           Formed(tx), Prepared(record), tx.caller = c,
           tx.kind = "withdraw" /\ call[c].all => Backed(tx)
    PROVE  TypeInv' /\ WithdrawInv'
<1>1. \A d \in Callers : call'[d] = IF d = c THEN record ELSE call[d]
  BY DEF Full, TypeInv, TypeOK
<1>2. \A d \in Callers : call'[d].all = call[d].all
  BY <1>1
<1>3. TypeOK'
  BY DEF Full, TypeInv, TypeOK, AccountTypeOK
<1>4. TypeInv'
  BY <1>1, <1>3 DEF Full, TypeInv
<1>5. \A t : Backed(t)' <=> Backed(t)
  BY DEF Backed, TakenFrom
<1>6. \A t \in mempool \cup {m.tx : m \in mined} :
        t.kind = "withdraw" => call'[t.caller].all = call[t.caller].all
  BY <1>1, <1>2 DEF Full, Inv, IInv, SentInv
<1>7. WithdrawalOfAllSucceeds'
  BY <1>6 DEF Full, WithdrawInv, WithdrawalOfAllSucceeds
<1>8. \A d \in Callers : call'[d].all => Backed(call'[d].tx)
  BY <1>1 DEF Full, WithdrawInv
<1>9. \A d \in Callers : call'[d].all => Backed(call[d].tx)'
  BY <1>5, <1>8
<1>10. \A t \in mempool' : t.kind = "withdraw" /\ call'[t.caller].all => Backed(t)'
  BY <1>2, <1>5, <1>6 DEF Full, WithdrawInv
<1> QED
  BY <1>4, <1>7, <1>9, <1>10 DEF WithdrawInv

\* An approval or the transaction itself is sent; the answer may be lost.
LEMMA FullSends ==
    ASSUME Full, NEW c \in Callers, SendApproval(c) \/ Send(c)
    PROVE  TypeInv' /\ WithdrawInv'
<1> DEFINE draft == call[c].tx
           approval == [draft EXCEPT !.kind = "approve"]
           failed == [call[c] EXCEPT !.pc = "failed"]
           sent == [call[c] EXCEPT !.pc = "done"]
           next == [draft EXCEPT !.nonce = @ + 1]
           approved == [call[c] EXCEPT !.pc = "send", !.tx.nonce = @ + 1]
<1>1. /\ call[c] \in CallStates /\ draft \in Drafts /\ Prepared(call[c])
      /\ draft.caller = c
      /\ call[c].all => Backed(draft)
  BY DEF Full, TypeInv, TypeOK, CallStates, Inv, IInv, DraftInv, DraftOK, WithdrawInv
<1>2. call[c].pc \in {"approvalSend", "send"} /\ call[c].pc # "idle"
  BY DEF SendApproval, Send
<1>3. draft.nonce \in Nat /\ draft.amounts \in Seq(Nat) /\ Formed(draft)
  BY <1>1, <1>2 DEF Prepared
<1>4. draft \in Transactions
  BY <1>1, <1>3 DEF Drafts, Transactions
<1>5. UNCHANGED <<chain, mined, foreign, credits>> /\ failures' \in 0 .. MaxFailures
  BY CallsAssumption DEF SendApproval, Send, SendTo, Full, TypeInv, TypeOK
<1>6. /\ failed \in CallStates /\ failed.pc = "failed" /\ failed.tx = draft
      /\ failed.all = call[c].all
      /\ sent \in CallStates /\ sent.pc = "done" /\ sent.tx = draft /\ sent.all = call[c].all
  BY <1>1 DEF CallStates, Pcs
<1> HIDE DEF draft, failed, sent
<1>7. Prepared(failed) /\ Prepared(sent)
  BY <1>3, <1>6 DEF Prepared
<1>8. (failed.all => Backed(failed.tx)) /\ (sent.all => Backed(sent.tx))
  BY <1>1, <1>6
<1>9. CASE Send(c)
  <2>1. mempool' = mempool \cup {draft}
    BY <1>9 DEF Send, SendTo, draft
  <2>2. call' = [call EXCEPT ![c] = sent] \/ call' = [call EXCEPT ![c] = failed]
    BY <1>9 DEF Send, SendTo, Goto, sent, failed
  <2>3. CASE call' = [call EXCEPT ![c] = sent]
    BY <1>1, <1>2, <1>3, <1>4, <1>5, <1>6, <1>7, <1>8, <1>9, <2>1, <2>3, FullSend
  <2>4. CASE call' = [call EXCEPT ![c] = failed]
    BY <1>1, <1>2, <1>3, <1>4, <1>5, <1>6, <1>7, <1>8, <1>9, <2>1, <2>4, FullSend
  <2> QED
    BY <2>2, <2>3, <2>4
<1>10. CASE SendApproval(c)
  <2>1. mempool' = mempool \cup {approval}
    BY <1>10 DEF SendApproval, SendTo, draft
  <2>2. draft.kind = "depositERC20"
    BY <1>1, <1>10 DEF Prepared, SendApproval, draft
  <2>3. /\ approval \in Transactions /\ approval.kind = "approve" /\ approval.caller = c
        /\ approval.amounts = draft.amounts /\ approval.owners = draft.owners
    <3>1. draft.caller = c
      BY <1>1
    <3> QED
      BY <1>4, <3>1 DEF Transactions, Kinds
  <2>4. Formed(approval)
    BY <1>3, <2>2, <2>3 DEF Formed
  <2>5. call' = [call EXCEPT ![c] = approved] \/ call' = [call EXCEPT ![c] = failed]
    BY <1>10 DEF SendApproval, SendTo, Goto, failed
  <2>6. /\ next \in Drafts /\ next.nonce \in Nat /\ next.kind = draft.kind
        /\ next.amounts = draft.amounts /\ next.owners = draft.owners
    <3>1. draft \in Drafts /\ draft.nonce + 1 \in Nat
      BY <1>1, <1>3
    <3> QED
      BY <3>1 DEF Drafts
  <2>7. /\ approved \in CallStates /\ approved.pc = "send" /\ approved.all = call[c].all
        /\ approved.tx = next
    BY <1>1, <2>6 DEF CallStates, Pcs, draft
  <2> HIDE DEF approval, approved, next
  <2>8. Prepared(approved)
    BY <1>3, <2>6, <2>7 DEF Prepared, Formed
  <2>9. approved.all => Backed(approved.tx)
    <3>1. call[c].all => Backed(draft)
      BY <1>1
    <3> QED
      BY <2>6, <2>7, <3>1 DEF Backed
  <2>10. approval.kind # "withdraw"
    BY <2>3
  <2>11. CASE call' = [call EXCEPT ![c] = approved]
    BY <1>2, <1>5, <2>1, <2>3, <2>4, <2>7, <2>8, <2>9, <2>10, <2>11, FullSend
  <2>12. CASE call' = [call EXCEPT ![c] = failed]
    BY <1>2, <1>5, <1>6, <1>7, <1>8, <2>1, <2>3, <2>4, <2>10, <2>12, FullSend
  <2> QED
    BY <2>5, <2>11, <2>12
<1> QED
  BY <1>9, <1>10

\* Mining pays a withdrawal out of balances that suffice for it, and takes from no one
\* else.
LEMMA MinedTypes ==
    ASSUME Full, NEW tx \in mempool, Mine(tx)
    PROVE  /\ AccountTypeOK'
           /\ \A o \in Owners :
                \/ chain'.pending[o] = chain.pending[o]
                \/ Succeeds(tx) /\ tx.kind = "withdraw" /\ Taken(tx, o) > 0
<1>1. /\ tx \in Transactions /\ Formed(tx) /\ mined \subseteq [tx : Transactions, ok : BOOLEAN]
      /\ mempool \subseteq Transactions /\ foreign \in 0 .. MaxForeign /\ credits \in 0 .. MaxCredits
      /\ chain.nonce \in Nat /\ chain.allowance \in Nat /\ chain.pending \in [Owners -> Nat]
      /\ chain \in [nonce : Nat, allowance : Nat, pending : [Owners -> Nat]]
  BY DEF Full, TypeInv, TypeOK, AccountTypeOK
<1>2. ASSUME tx.kind = "withdraw", NEW o \in Owners
      PROVE  Taken(tx, o) \in Nat
  <2>1. tx.amounts \in Seq(Nat) /\ tx.owners \in Seq(Owners)
    BY <1>1 DEF Transactions
  <2> QED
    BY <1>1, <1>2, <2>1, TakenType
<1>3. ASSUME tx.kind \in {"approve", "depositERC20"}
      PROVE  tx.amounts[1] \in Nat
  BY <1>1, <1>3 DEF Transactions, Formed
<1>4. Succeeds(tx) \in BOOLEAN
  <2>1. CASE tx.kind = "depositERC20"
    BY <2>1 DEF Succeeds
  <2>2. CASE tx.kind = "withdraw"
    BY <2>2 DEF Succeeds
  <2>3. CASE tx.kind \notin {"depositERC20", "withdraw"}
    BY <2>3 DEF Succeeds
  <2> QED
    BY <2>1, <2>2, <2>3
<1>5. [tx |-> tx, ok |-> Succeeds(tx)] \in [tx : Transactions, ok : BOOLEAN]
  BY <1>1, <1>4
<1>6. CASE Succeeds(tx)
  <2>1. chain' = [nonce |-> chain.nonce + 1, allowance |-> Allowance(tx), pending |-> Pending(tx)]
    BY <1>6 DEF Mine
  <2>2. Allowance(tx) \in Nat
    BY <1>1, <1>3, <1>6 DEF Succeeds, Allowance
  <2>3. Pending(tx) \in [Owners -> Nat]
    BY <1>1, <1>2, <1>6 DEF Succeeds, Pending
  <2>4. \A o \in Owners : \/ Pending(tx)[o] = chain.pending[o]
                          \/ tx.kind = "withdraw" /\ Taken(tx, o) > 0
    BY <1>1, <1>2 DEF Pending
  <2>5. chain' \in [nonce : Nat, allowance : Nat, pending : [Owners -> Nat]]
    BY <1>1, <2>1, <2>2, <2>3
  <2>6. chain'.pending = Pending(tx)
    BY <2>1
  <2> QED
    BY <1>1, <1>5, <1>6, <2>4, <2>5, <2>6 DEF Mine, AccountTypeOK
<1>7. CASE ~Succeeds(tx)
  <2>1. chain' = [chain EXCEPT !.nonce = @ + 1]
    BY <1>7 DEF Mine
  <2>2. /\ chain' \in [nonce : Nat, allowance : Nat, pending : [Owners -> Nat]]
        /\ chain'.pending = chain.pending
    BY <1>1, <2>1
  <2> QED
    BY <1>1, <1>5, <1>7, <2>2 DEF Mine, AccountTypeOK
<1> QED
  BY <1>6, <1>7

\* The network mines a transaction.
LEMMA FullMine ==
    ASSUME Full, NEW tx \in mempool, Mine(tx), UNCHANGED <<call, failures>>
    PROVE  TypeInv' /\ WithdrawInv'
<1>1. /\ mined' = mined \cup {[tx |-> tx, ok |-> Succeeds(tx)]}
      /\ mempool' \subseteq mempool
  BY DEF Mine
<1>2. TypeInv'
  BY <1>1, MinedTypes DEF Full, TypeInv, TypeOK
<1>3. \A o : TakenFrom(o) => TakenFrom(o)'
  BY <1>1 DEF TakenFrom
<1>4. \A o \in Owners : chain'.pending[o] = chain.pending[o] \/ TakenFrom(o)'
  <2>1. ASSUME NEW o \in Owners, Succeeds(tx), tx.kind = "withdraw", Taken(tx, o) > 0
        PROVE  TakenFrom(o)'
    <3>1. [tx |-> tx, ok |-> Succeeds(tx)] = [tx |-> tx, ok |-> TRUE]
      BY <2>1
    <3>2. [tx |-> tx, ok |-> TRUE] \in mined'
      BY <1>1, <3>1
    <3>3. PICK m \in mined' : m.ok /\ m.tx = tx
      BY <3>2
    <3> QED
      BY <2>1, <3>3 DEF TakenFrom
  <2> QED
    BY <2>1, MinedTypes
<1>5. \A t : t.owners \in Seq(Owners) /\ Backed(t) => Backed(t)'
  BY <1>3, <1>4, ElementOfSeq, LenProperties DEF Backed
<1>6. \A c \in Callers : call[c].tx.owners \in Seq(Owners)
  BY DEF Full, TypeInv, TypeOK, CallStates, Drafts
<1>7. \A t \in mempool : t \in Transactions /\ t.owners \in Seq(Owners)
  BY DEF Full, TypeInv, TypeOK, AccountTypeOK, Transactions
<1>8. \A c \in Callers : call[c].all => Backed(call[c].tx)'
  BY <1>5, <1>6 DEF Full, WithdrawInv
<1>9. \A t \in mempool' : t.kind = "withdraw" /\ call'[t.caller].all => Backed(t)'
  BY <1>1, <1>5, <1>7 DEF Full, WithdrawInv
<1>10. ASSUME tx.kind = "withdraw", call[tx.caller].all, ~Succeeds(tx),
              \A i, j \in DOMAIN tx.owners : i # j => tx.owners[i] # tx.owners[j]
       PROVE  \E n \in mined : /\ n.ok /\ n.tx.kind = "withdraw"
                               /\ \E o \in Owners : Taken(n.tx, o) > 0 /\ Taken(tx, o) > 0
  <2>1. /\ Formed(tx) /\ tx.amounts \in Seq(Nat) /\ tx.owners \in Seq(Owners)
        /\ chain.pending \in [Owners -> Nat] /\ Backed(tx)
    BY <1>7, <1>10 DEF Full, TypeInv, TypeOK, AccountTypeOK, Transactions, WithdrawInv
  <2>2. PICK o \in Owners : ~(Taken(tx, o) <= chain.pending[o])
    BY <1>10 DEF Succeeds
  <2>3. Taken(tx, o) \in Nat /\ chain.pending[o] \in Nat
    BY <1>10, <2>1, TakenType
  <2>4. Taken(tx, o) > 0
    BY <2>2, <2>3
  <2>5. PICK i \in DOMAIN tx.owners : tx.owners[i] = o /\ Taken(tx, o) = tx.amounts[i]
    BY <1>10, <2>1, <2>4, TakenFromOwner
  <2>6. TakenFrom(o)
    <3>1. tx.amounts[i] \in Nat /\ ~(tx.amounts[i] <= chain.pending[o])
      BY <2>2, <2>3, <2>5
    <3>2. tx.amounts[i] # None
      BY <3>1 DEF None
    <3>3. \/ tx.amounts[i] = None
          \/ tx.amounts[i] <= chain.pending[o]
          \/ TakenFrom(o)
      BY <2>1, <2>5 DEF Backed
    <3> QED
      BY <3>1, <3>2, <3>3
  <2> QED
    BY <2>4, <2>6 DEF TakenFrom
<1>11. WithdrawalOfAllSucceeds'
  <2>1. SUFFICES
          ASSUME NEW m \in mined', m.tx.kind = "withdraw", call[m.tx.caller].all, ~m.ok,
                 \A i, j \in DOMAIN m.tx.owners : i # j => m.tx.owners[i] # m.tx.owners[j]
          PROVE  \E n \in mined' \ {m} :
                    /\ n.ok /\ n.tx.kind = "withdraw"
                    /\ \E o \in Owners : Taken(n.tx, o) > 0 /\ Taken(m.tx, o) > 0
    BY DEF WithdrawalOfAllSucceeds
  <2>2. CASE m \in mined
    BY <1>1, <2>1, <2>2 DEF Full, WithdrawInv, WithdrawalOfAllSucceeds
  <2>3. CASE m = [tx |-> tx, ok |-> Succeeds(tx)]
    <3>1. m.tx = tx /\ m.ok = Succeeds(tx)
      BY <2>3
    <3>2. PICK n \in mined : /\ n.ok /\ n.tx.kind = "withdraw"
                             /\ \E o \in Owners : Taken(n.tx, o) > 0 /\ Taken(tx, o) > 0
      BY <1>10, <2>1, <3>1
    <3> QED
      BY <1>1, <2>1, <3>1, <3>2
  <2> QED
    BY <1>1, <2>2, <2>3
<1> QED
  BY <1>2, <1>8, <1>9, <1>11 DEF WithdrawInv

\* Balances only grow by credits, and other programs withdraw nothing.
LEMMA FullNetwork ==
    ASSUME Full, Network
    PROVE  TypeInv' /\ WithdrawInv'
<1>1. UNCHANGED <<call, failures>>
  BY DEF Network
<1>2. ASSUME NEW o \in Owners, Credit(o)
      PROVE  TypeInv' /\ WithdrawInv'
  <2>1. /\ chain.pending \in [Owners -> Nat]
        /\ chain \in [nonce : Nat, allowance : Nat, pending : [Owners -> Nat]]
        /\ MaxCredits \in Nat /\ credits \in 0 .. MaxCredits
    BY CallsAssumption DEF Full, TypeInv, TypeOK, AccountTypeOK
  <2>2. /\ UNCHANGED <<mempool, mined, foreign>> /\ credits' \in 0 .. MaxCredits
        /\ chain' = [chain EXCEPT !.pending = [chain.pending EXCEPT ![o] = chain.pending[o] + 1]]
    BY <1>2, <2>1 DEF Credit
  <2>3. /\ chain' \in [nonce : Nat, allowance : Nat, pending : [Owners -> Nat]]
        /\ \A p \in Owners : chain'.pending[p] >= chain.pending[p]
    BY <2>1, <2>2
  <2>4. TypeInv'
    BY <1>1, <2>2, <2>3 DEF Full, TypeInv, TypeOK, AccountTypeOK
  <2>5. \A t : t.owners \in Seq(Owners) /\ t.amounts \in Seq(Nat \cup {None}) /\ Formed(t)
               /\ Backed(t) => Backed(t)'
    <3>1. SUFFICES
            ASSUME NEW t, t.owners \in Seq(Owners), t.amounts \in Seq(Nat \cup {None}),
                   Formed(t), Backed(t), NEW i \in DOMAIN t.owners
            PROVE  \/ t.amounts[i] = None
                   \/ t.amounts[i] <= chain'.pending[t.owners[i]]
                   \/ TakenFrom(t.owners[i])
      BY <2>2 DEF Backed, TakenFrom
    <3>2. t.owners[i] \in Owners /\ i \in 1 .. Len(t.amounts)
      BY <3>1, ElementOfSeq, EmptySeq, LenProperties DEF Formed
    <3>3. t.amounts[i] \in Nat \cup {None}
      BY <3>1, <3>2, ElementOfSeq
    <3>4. chain.pending[t.owners[i]] \in Nat /\ chain'.pending[t.owners[i]] \in Nat
      BY <2>1, <2>3, <3>2
    <3>5. \/ t.amounts[i] = None \/ TakenFrom(t.owners[i])
          \/ t.amounts[i] <= chain.pending[t.owners[i]]
      BY <3>1 DEF Backed
    <3>6. chain'.pending[t.owners[i]] >= chain.pending[t.owners[i]]
      BY <2>3, <3>2
    <3> QED
      BY <3>3, <3>4, <3>5, <3>6
  <2>6. /\ \A c \in Callers : call[c].tx \in Drafts /\ Formed(call[c].tx)
        /\ \A t \in mempool : t \in Transactions /\ Formed(t)
    BY DEF Full, TypeInv, TypeOK, AccountTypeOK, CallStates, Prepared
  <2>7. \A t \in Transactions : t.owners \in Seq(Owners) /\ t.amounts \in Seq(Nat \cup {None})
    <3>1. Seq(Nat) \subseteq Seq(Nat \cup {None})
      OBVIOUS
    <3> QED
      BY <3>1 DEF Transactions
  <2>8. \A t \in Drafts : t.owners \in Seq(Owners) /\ t.amounts \in Seq(Nat \cup {None})
    BY DEF Drafts
  <2>9. WithdrawInv'
    BY <1>1, <2>2, <2>5, <2>6, <2>7, <2>8 DEF Full, WithdrawInv, WithdrawalOfAllSucceeds
  <2> QED
    BY <2>4, <2>9
<1>3. CASE SendForeign
  <2> DEFINE tx == [nonce |-> PendingCount, kind |-> "other", amounts |-> <<>>, owners |-> <<>>,
                    caller |-> Other]
  <2>1. /\ mempool' = mempool \cup {tx} /\ UNCHANGED <<chain, mined, credits>>
        /\ foreign' \in 0 .. MaxForeign
    BY <1>3, CallsAssumption DEF SendForeign, Full, TypeInv, TypeOK, AccountTypeOK
  <2>2. PendingCount \in Nat
    BY CountIsNat DEF Full, Inv, IInv
  <2>3. tx \in Transactions /\ Formed(tx) /\ tx.kind = "other"
    BY <2>2 DEF Transactions, Kinds, Formed
  <2> HIDE DEF tx
  <2>4. TypeInv'
    BY <1>1, <2>1, <2>3 DEF Full, TypeInv, TypeOK, AccountTypeOK
  <2>5. \A t : Backed(t)' <=> Backed(t)
    BY <2>1 DEF Backed, TakenFrom
  <2>6. WithdrawInv'
    BY <1>1, <2>1, <2>3, <2>5 DEF Full, WithdrawInv, WithdrawalOfAllSucceeds
  <2> QED
    BY <2>4, <2>6
<1> QED
  BY <1>1, <1>2, <1>3, FullMine DEF Network, NetworkStep

\* The start and every step.
LEMMA FullKept ==
    /\ Init => Full
    /\ Full /\ [Next]_vars => Full'
<1>1. ASSUME Init PROVE Full
  <2>1. Inv
    BY <1>1, InitInv
  <2>2. /\ mempool = {} /\ mined = {} /\ failures = 0 /\ foreign = 0 /\ credits = 0
        /\ \A c \in Callers : /\ call[c].tx = NoDraft(c) /\ call[c].pc = "idle"
                              /\ call[c].all = FALSE
    BY <1>1 DEF Init, AccountInit
  <2>3. \A c \in Callers : NoDraft(c) \in Drafts /\ Formed(NoDraft(c))
    BY DEF NoDraft, Drafts, Kinds, Formed
  <2>4. TypeOK
    BY <1>1, <2>3, CallsAssumption DEF Init, AccountInit, TypeOK, AccountTypeOK, CallStates, Pcs
  <2>5. TypeInv
    BY <2>2, <2>3, <2>4 DEF TypeInv, Prepared
  <2>6. WithdrawInv
    BY <2>2 DEF WithdrawInv, WithdrawalOfAllSucceeds
  <2> QED
    BY <2>1, <2>5, <2>6 DEF Full
<1>2. ASSUME Full, [Next]_vars PROVE Full'
  <2>1. Inv'
    BY <1>2, NextInv DEF Full
  <2>2. ASSUME NEW c \in Callers, SendRefused(c) \/ Fail(c)
        PROVE  TypeInv' /\ WithdrawInv'
    <3>1. /\ Goto(c, "failed") /\ call[c].pc # "idle" /\ UNCHANGED accountVars
          /\ failures' \in 0 .. MaxFailures
      BY <1>2, <2>2, CallsAssumption DEF SendRefused, Fail, Full, TypeInv, TypeOK
    <3> QED
      BY <1>2, <3>1, FullGoto
  <2>3. ASSUME NEW c \in Callers, NEW id, AccountAnswer(c, id)
        PROVE  TypeInv' /\ WithdrawInv'
    <3>1. /\ call[c].pc = "account" /\ UNCHANGED accountVars /\ failures' \in 0 .. MaxFailures
      BY <1>2, <2>3 DEF AccountAnswer, Full, TypeInv, TypeOK
    <3>2. PICK there \in {"failed", "count"} : Goto(c, there)
      BY <2>3 DEF AccountAnswer
    <3> QED
      BY <1>2, <3>1, <3>2, FullGoto
  <2>4. ASSUME UNCHANGED vars
        PROVE  TypeInv' /\ WithdrawInv'
    <3>1. UNCHANGED <<mempool, chain, mined, foreign, credits, call, failures>>
      BY <2>4 DEF vars, accountVars
    <3>2. TypeInv'
      BY <1>2, <3>1 DEF Full, TypeInv, TypeOK, AccountTypeOK
    <3>3. \A t : Backed(t)' <=> Backed(t)
      BY <3>1 DEF Backed, TakenFrom
    <3>4. WithdrawInv'
      BY <1>2, <3>1, <3>3 DEF Full, WithdrawInv, WithdrawalOfAllSucceeds
    <3> QED
      BY <3>2, <3>4
  <2>5. ASSUME NEW c \in Callers,
               \/ \E i \in 1 .. 2 : BalanceAnswer(c, i)
               \/ CountAnswer(c) \/ SendApproval(c) \/ Send(c)
        PROVE  TypeInv' /\ WithdrawInv'
    BY <1>2, <2>5, FullBalanceAnswer, FullCountAnswer, FullSends
  <2>6. ASSUME Network
        PROVE  TypeInv' /\ WithdrawInv'
    BY <1>2, <2>6, FullNetwork
  <2>7. TypeInv' /\ WithdrawInv'
    <3>1. CASE Next
      BY <1>2, <2>2, <2>3, <2>5, <2>6, <3>1, FullBegin DEF Next
    <3> QED
      BY <1>2, <2>4, <3>1
  <2> QED
    BY <2>1, <2>7 DEF Full
<1> QED
  BY <1>1, <1>2

\* The variables have their types: no pending balance and no allowance falls below zero,
\* since what is taken is a sum of natural numbers that was checked.
THEOREM TypeCorrect == Spec => []TypeOK
<1>1. Full => TypeOK
  BY DEF Full, TypeInv
<1> QED
  BY <1>1, FullKept, PTL DEF Spec

\* withdrawPendingBalance(s) of all that is pending is reverted only if another
\* withdrawal took from the same owner between the answer about the balance and the block.
THEOREM AllIsThere == Spec => []WithdrawalOfAllSucceeds
<1>1. Full => WithdrawalOfAllSucceeds
  BY DEF Full, WithdrawInv
<1> QED
  BY <1>1, FullKept, PTL DEF Spec
=============================================================================
