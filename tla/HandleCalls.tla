---------------------------- MODULE HandleCalls -----------------------------
(***************************************************************************)
(* What the two handles of src/operations.ts, Transaction and              *)
(* RootstockOperation, have in common: a state that every method reads and *)
(* writes, and method calls in flight on it, each a promise of its own.    *)
(***************************************************************************)
EXTENDS ProviderNotify

VARIABLES
    state,          \* the public field state of the handle
    method,         \* the method each call invoked
    outcome,        \* how the promise of each call settled
    receiptOf,      \* the receipt it resolved with or, rejected, carries
    overlap         \* history: whether the program has made a call while
                    \* another was in flight, as one that awaits each does not

handleVars == <<state, method, outcome, receiptOf, overlap>>

\* "undefined" is a promise that resolves without a receipt, "failed" one that
\* rejects with the error kept in the handle, "requestError" one that rejects
\* because a request on the way did.
Outcomes == {"pending", "receipt", "undefined", "failed", "requestError"}

HandleTypeOK(states, methods, waits) ==
    /\ NotifyTypeOK({"idle", "done"} \cup waits)
    /\ state \in states
    /\ method \in [Calls -> methods]
    /\ outcome \in [Calls -> Outcomes]
    /\ receiptOf \in [Calls -> Receipt]
    /\ overlap \in BOOLEAN

HandleInit ==
    /\ NotifyInit
    /\ state = "Sent"
    /\ method = [c \in Calls |-> "awaitReceipt"]
    /\ outcome = [c \in Calls |-> "pending"]
    /\ receiptOf = [c \in Calls |-> NoReceipt]
    /\ overlap = FALSE

InFlight == {c \in Calls : pc[c] \notin {"idle", "done"}}

\* The program calls method m of the handle.
Invoke(c, m) ==
    /\ pc[c] = "idle"
    /\ method' = [method EXCEPT ![c] = m]
    /\ overlap' = (overlap \/ InFlight # {})

\* The promise of the call settles.
Settle(c, how, receipt) ==
    /\ pc' = [pc EXCEPT ![c] = "done"]
    /\ outcome' = [outcome EXCEPT ![c] = how]
    /\ receiptOf' = [receiptOf EXCEPT ![c] = receipt]
    /\ UNCHANGED <<provider, action, answer>>

\* The call suspends on the provider's notify function.
Notify(c, act) ==
    /\ pc' = [pc EXCEPT ![c] = FirstRequest]
    /\ action' = [action EXCEPT ![c] = act]
    /\ UNCHANGED <<provider, answer, outcome, receiptOf>>

\* A request that fails rejects the promise; nothing catches it on the way.  A
\* subscription that fails is not heard of.
RequestFails(c) ==
    /\ \/ /\ pc[c] \in PollPcs \ {"subscribe", "event"}
          /\ Settle(c, "requestError", NoReceipt)
       \/ /\ SubscriptionLost(c)
          /\ UNCHANGED <<outcome, receiptOf>>
    /\ UNCHANGED <<ledgerVars, state, method, overlap>>
=============================================================================
