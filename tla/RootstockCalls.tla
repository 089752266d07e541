--------------------------- MODULE RootstockCalls ---------------------------
(***************************************************************************)
(* The wallet's operations on the Rootstock network that move tokens:      *)
(* approveERC20TokenDeposits, depositToSyncFromRootstock and both          *)
(* emergency withdrawals of src/abstract-wallet.ts, withdrawPendingBalance *)
(* and withdrawPendingBalances of src/withdraw-helpers.ts.                 *)
(*                                                                         *)
(* A call ends when its last transaction is accepted; the program may wait *)
(* for it to be mined or not. pc names what the call awaits: "balance"     *)
(* (answers about pending balances), "account" (the account's id), "count" *)
(* (the nonce, where the call leaves it to ethers), "send" (the            *)
(* transaction to be accepted), and "approvalCount", "approvalSend" for    *)
(* the approval before a deposit.                                          *)
(* Awaiting a gas price or estimate changes nothing and is left out.       *)
(***************************************************************************)
EXTENDS RootstockAccount

CONSTANTS
    Unlimited,      \* MAX_ERC20_APPROVE_AMOUNT
    Amounts,        \* amounts a program may give
    MaxFailures     \* bound on the calls that fail

ASSUME CallsAssumption ==
    /\ Amounts \subseteq Nat /\ Unlimited \in Nat
    /\ MaxForeign \in Nat /\ MaxCredits \in Nat /\ MaxFailures \in Nat
    /\ Other \notin Callers

VARIABLES
    call,           \* per caller: [pc, tx, approve, all]: the transaction being
                    \* prepared, whether it brings an approval, or takes all there is
    failures

vars == <<accountVars, call, failures>>

Pcs == {"idle", "approvalCount", "approvalSend", "balance", "account", "count", "send",
        "done", "failed"}

\* An amount or a nonce that is yet to be found out.
None == -1

Drafts ==
    [nonce : Nat \cup {None}, kind : Kinds, amounts : Seq(Nat \cup {None}), owners : Seq(Owners),
     caller : Callers]

NoDraft(c) == [nonce |-> None, kind |-> "other", amounts |-> <<>>, owners |-> <<>>, caller |-> c]

CallStates == [pc : Pcs, tx : Drafts, approve : BOOLEAN, all : BOOLEAN]

TypeOK ==
    /\ AccountTypeOK
    /\ call \in [Callers -> CallStates]
    /\ failures \in 0 .. MaxFailures

Init ==
    /\ AccountInit
    /\ call = [c \in Callers |-> [pc |-> "idle", tx |-> NoDraft(c), approve |-> FALSE, all |-> FALSE]]
    /\ failures = 0

(***************************************************************************)
(* The calls.                                                              *)
(***************************************************************************)
Start(c, pc, kind, amounts, owners, approve, all) ==
    /\ call[c].pc = "idle"
    /\ call' = [call EXCEPT ![c] =
            [pc |-> pc, approve |-> approve, all |-> all,
             tx |-> [NoDraft(c) EXCEPT !.kind = kind, !.amounts = amounts, !.owners = owners]]]
    /\ UNCHANGED <<accountVars, failures>>

Approve(c, amount) == Start(c, "count", "approve", <<amount>>, <<>>, FALSE, FALSE)

DepositRBTC(c, amount) == Start(c, "count", "depositRBTC", <<amount>>, <<>>, FALSE, FALSE)

\* approveDepositAmountForERC20 is set or not.
DepositERC20(c, amount, approve) ==
    Start(c, IF approve THEN "approvalCount" ELSE "count",
          "depositERC20", <<amount>>, <<>>, approve, FALSE)

\* Mutant: the balance is not asked for.
WithdrawUnread(c, owner, amount, isNumber) ==
    Start(c, "count", "withdraw", <<amount>>, <<owner>>, FALSE, amount = None)

\* withdrawPendingBalance takes an amount of 0 that is a number, and not a BigNumber or
\* a string, for no amount.
Withdraw(c, owner, amount, isNumber) ==
    LET all == amount = None \/ (amount = 0 /\ isNumber)
    IN  Start(c, IF all THEN "balance" ELSE "count",
              "withdraw", <<IF all THEN None ELSE amount>>, <<owner>>, FALSE, all)

\* withdrawPendingBalances asks for every balance unless all amounts are given.
WithdrawMany(c, owners, amounts) ==
    LET all == amounts = <<>>
    IN  /\ all \/ Len(amounts) = Len(owners)
        /\ Start(c, IF all THEN "balance" ELSE "count", "withdraw",
                 IF all THEN [i \in DOMAIN owners |-> None] ELSE amounts, owners, FALSE, all)

\* emergencyWithdraw and emergencyWithdrawNFT ask for the account's id unless it is
\* given or the wallet knows it.
EmergencyWithdraw(c, idKnown) ==
    Start(c, IF idKnown THEN "count" ELSE "account", "fullExit", <<>>, <<>>, FALSE, FALSE)

Goto(c, pc) == call' = [call EXCEPT ![c].pc = pc]

\* Mutant: the answers are taken in the order in which they come.
BalanceAnswerUnordered(c, i) ==
    /\ call[c].pc = "balance"
    /\ i \in DOMAIN call[c].tx.amounts /\ call[c].tx.amounts[i] = None
    /\ \E j \in DOMAIN call[c].tx.amounts :
        LET amounts == [call[c].tx.amounts EXCEPT ![i] = chain.pending[call[c].tx.owners[j]]]
        IN  call' = [call EXCEPT
                ![c].tx.amounts = amounts,
                ![c].pc = IF \E k \in DOMAIN amounts : amounts[k] = None THEN "balance" ELSE "count"]
    /\ UNCHANGED <<accountVars, failures>>

\* The balances are asked for together and answered one by one.
BalanceAnswer(c, i) ==
    /\ call[c].pc = "balance"
    /\ i \in DOMAIN call[c].tx.amounts /\ call[c].tx.amounts[i] = None
    /\ LET amounts == [call[c].tx.amounts EXCEPT ![i] = chain.pending[call[c].tx.owners[i]]]
       IN  call' = [call EXCEPT
                ![c].tx.amounts = amounts,
                ![c].pc = IF \E j \in DOMAIN amounts : amounts[j] = None THEN "balance" ELSE "count"]
    /\ UNCHANGED <<accountVars, failures>>

\* resolveAccountId throws if there is no account, or if its id is 0.
AccountAnswer(c, id) ==
    /\ call[c].pc = "account"
    /\ Goto(c, IF id \in {None, 0} THEN "failed" ELSE "count")
    /\ UNCHANGED <<accountVars, failures>>

\* ethers asks the node for the count when the transaction has no nonce.
CountAnswer(c) ==
    /\ call[c].pc \in {"approvalCount", "count"}
    /\ call' = [call EXCEPT
            ![c].tx.nonce = PendingCount,
            ![c].pc = IF @ = "count" THEN "send" ELSE "approvalSend"]
    /\ UNCHANGED <<accountVars, failures>>

\* The node accepts the transaction; its answer lets the call go on, or is lost and
\* fails it.
SendTo(c, tx, continuation) ==
    /\ Accepts(tx.nonce)
    /\ mempool' = mempool \cup {tx}
    /\ \/ /\ call' = [call EXCEPT ![c] = continuation]
          /\ UNCHANGED failures
       \/ /\ failures < MaxFailures
          /\ failures' = failures + 1
          /\ Goto(c, "failed")
    /\ UNCHANGED <<chain, mined, foreign, credits>>

\* Mutant: the nonce of the deposit is left to ethers.
SendApprovalNoNonce(c) ==
    /\ call[c].pc = "approvalSend"
    /\ SendTo(c, [call[c].tx EXCEPT !.kind = "approve"], [call[c] EXCEPT !.pc = "count"])

\* The deposit is given the nonce after the approval's.
SendApproval(c) ==
    /\ call[c].pc = "approvalSend"
    /\ SendTo(c, [call[c].tx EXCEPT !.kind = "approve"],
              [call[c] EXCEPT !.pc = "send", !.tx.nonce = @ + 1])

Send(c) ==
    /\ call[c].pc = "send"
    /\ SendTo(c, call[c].tx, [call[c] EXCEPT !.pc = "done"])

\* The nonce has been used meanwhile.
SendRefused(c) ==
    /\ call[c].pc \in {"approvalSend", "send"}
    /\ ~Accepts(call[c].tx.nonce)
    /\ Goto(c, "failed")
    /\ UNCHANGED <<accountVars, failures>>

\* Any other await is rejected.
Fail(c) ==
    /\ call[c].pc \notin {"idle", "done", "failed"}
    /\ failures < MaxFailures
    /\ failures' = failures + 1
    /\ Goto(c, "failed")
    /\ UNCHANGED accountVars

Network ==
    /\ NetworkStep
    /\ UNCHANGED <<call, failures>>

Next ==
    \/ \E c \in Callers :
        \/ \E amount \in Amounts \cup {Unlimited} : Approve(c, amount)
        \/ \E amount \in Amounts :
            DepositRBTC(c, amount) \/ \E approve \in BOOLEAN : DepositERC20(c, amount, approve)
        \/ \E o \in Owners, amount \in Amounts \cup {None}, isNumber \in BOOLEAN :
            Withdraw(c, o, amount, isNumber)
        \/ \E o, p \in Owners, amounts \in {<<>>} \cup Amounts \X Amounts :
            WithdrawMany(c, <<o, p>>, amounts)
        \/ \E idKnown \in BOOLEAN : EmergencyWithdraw(c, idKnown)
        \/ \E i \in 1 .. 2 : BalanceAnswer(c, i)
        \/ \E id \in {None, 0, 1} : AccountAnswer(c, id)
        \/ CountAnswer(c) \/ SendApproval(c) \/ Send(c) \/ SendRefused(c) \/ Fail(c)
    \/ Network

Spec == Init /\ [][Next]_vars
-----------------------------------------------------------------------------
(***************************************************************************)
(* Safety.                                                                 *)
(***************************************************************************)

\* A deposit that brings its own approval is never reverted, whatever else is sent
\* from the account between the two: another transaction gets in between only by
\* taking the deposit's nonce, and then the deposit is not accepted.
ApprovedDepositSucceeds ==
    \A m \in mined :
        m.tx.kind = "depositERC20" /\ call[m.tx.caller].approve => m.ok

(***************************************************************************)
(* Why.  The transactions in the mempool have the nonces from the next one *)
(* on, each once.  Once the approval is sent, the deposit's nonce is       *)
(* covered: the approval is in the mempool right before it, or has just    *)
(* been mined, or the nonce is gone to another transaction.                *)
(***************************************************************************)
Covered(nonce, amounts) ==
    \/ \E t \in mempool : t.kind = "approve" /\ t.nonce = nonce - 1 /\ t.amounts = amounts
    \/ chain.nonce = nonce /\ amounts[1] <= chain.allowance
    \/ chain.nonce > nonce

MempoolInv ==
    /\ IsFiniteSet(mempool)
    /\ chain.nonce \in Nat
    /\ \A t \in mempool : t.nonce \in chain.nonce .. PendingCount - 1
    /\ \A t, u \in mempool : t.nonce = u.nonce => t = u

DraftOK(c) ==
    /\ call[c].tx.caller = c
    /\ call[c].pc \in {"approvalSend", "send"} => call[c].tx.nonce \in Nat
    /\ call[c].pc \in {"approvalCount", "approvalSend"} => call[c].approve
    /\ call[c].pc \in {"balance", "account", "count"} => ~call[c].approve
    /\ call[c].approve => call[c].tx.kind = "depositERC20" /\ call[c].tx.amounts[1] \in Nat
    /\ call[c].approve /\ call[c].pc = "send" => Covered(call[c].tx.nonce, call[c].tx.amounts)

DraftInv == \A c \in Callers : DraftOK(c)

SentInv ==
    /\ \A t \in mempool \cup {m.tx : m \in mined} :
        t.kind # "other" => t.caller \in Callers /\ call[t.caller].pc # "idle"
    /\ \A t \in mempool :
        t.kind = "depositERC20" /\ call[t.caller].approve
            => t.amounts[1] \in Nat /\ Covered(t.nonce, t.amounts)

IInv == MempoolInv /\ DraftInv /\ SentInv /\ ApprovedDepositSucceeds

\* A withdrawal of all that is pending, from owners that differ, is reverted only if
\* another one took from one of the owners.
WithdrawalOfAllSucceeds ==
    \A m \in mined :
        /\ m.tx.kind = "withdraw" /\ call[m.tx.caller].all
        /\ \A i, j \in DOMAIN m.tx.owners : i # j => m.tx.owners[i] # m.tx.owners[j]
        => \/ m.ok
           \/ \E n \in mined \ {m} :
                /\ n.ok /\ n.tx.kind = "withdraw"
                /\ \E o \in Owners : Taken(n.tx, o) > 0 /\ Taken(m.tx, o) > 0

(***************************************************************************)
(* Why.  What a transaction holds goes with its kind, so that what a       *)
(* withdrawal takes is a sum of amounts, and amounts are known by the time *)
(* they are sent.  A balance that has been read stays there until a        *)
(* withdrawal takes from the same owner.                                   *)
(***************************************************************************)
Formed(tx) ==
    /\ tx.kind = "withdraw" => Len(tx.amounts) = Len(tx.owners)
    /\ tx.kind # "withdraw" => tx.owners = <<>>
    /\ tx.kind \in {"approve", "depositERC20", "depositRBTC"} => Len(tx.amounts) = 1

Prepared(state) ==
    /\ Formed(state.tx)
    /\ state.pc = "balance" => state.tx.kind = "withdraw"
    /\ state.pc \in {"approvalCount", "approvalSend"} => state.tx.kind = "depositERC20"
    /\ state.pc \notin {"idle", "balance", "failed"} => state.tx.amounts \in Seq(Nat)
    /\ state.pc \in {"approvalSend", "send"} => state.tx.nonce \in Nat

TypeInv ==
    /\ TypeOK
    /\ \A c \in Callers : Prepared(call[c])
    /\ \A t \in mempool \cup {m.tx : m \in mined} : Formed(t)

TakenFrom(o) == \E n \in mined : n.ok /\ n.tx.kind = "withdraw" /\ Taken(n.tx, o) > 0

Backed(tx) ==
    \A i \in DOMAIN tx.owners :
        \/ tx.amounts[i] = None
        \/ tx.amounts[i] <= chain.pending[tx.owners[i]]
        \/ TakenFrom(tx.owners[i])

WithdrawInv ==
    /\ \A c \in Callers : call[c].all => Backed(call[c].tx)
    /\ \A t \in mempool : t.kind = "withdraw" /\ call[t.caller].all => Backed(t)
    /\ WithdrawalOfAllSucceeds

\* The documentation says that unlocking a token once makes its deposits approved
\* forever, and that a deposit need not approve again then.
UnlockedForever ==
    \A m, n \in mined :
        /\ m.tx.kind = "approve" /\ m.tx.amounts = <<Unlimited>>
        /\ n.tx.kind = "depositERC20" /\ n.tx.nonce > m.tx.nonce
        => n.ok
=============================================================================
