-------------------------- MODULE RootstockAccount --------------------------
(***************************************************************************)
(* The Rootstock account of a wallet and what the network keeps for it, as *)
(* far as the SDK relies on it: transactions are mined in the order of     *)
(* their nonces, a nonce is used once, and a transaction that cannot be    *)
(* carried out is mined all the same and reverted as a whole.  None of     *)
(* this is code of the repository.                                         *)
(***************************************************************************)
EXTENDS Integers, Sequences, FiniteSetsExt

CONSTANTS
    Owners,         \* addresses with a pending balance in the rollup's contract
    Callers,        \* those who send transactions from the account
    Other,          \* a program with the same account that is not modelled
    MaxForeign,     \* bound on the transactions Other sends
    MaxCredits      \* bound on the credits to pending balances

VARIABLES
    mempool,        \* transactions accepted and not mined
    chain,          \* [nonce, allowance, pending]: next nonce to be mined, what the
                    \* rollup's contract may take of the token, pending balances
    mined,          \* transactions mined: [tx, ok]
    foreign, credits

accountVars == <<mempool, chain, mined, foreign, credits>>

Kinds == {"approve", "depositERC20", "depositRBTC", "withdraw", "fullExit", "other"}

\* For a withdrawal owners[i] is paid amounts[i]; an approval or a deposit has one
\* amount and no owner; a full exit has neither.
Transactions ==
    [nonce : Nat, kind : Kinds, amounts : Seq(Nat), owners : Seq(Owners),
     caller : Callers \cup {Other}]

AccountTypeOK ==
    /\ mempool \subseteq Transactions
    /\ chain \in [nonce : Nat, allowance : Nat, pending : [Owners -> Nat]]
    /\ mined \subseteq [tx : Transactions, ok : BOOLEAN]
    /\ foreign \in 0 .. MaxForeign
    /\ credits \in 0 .. MaxCredits

AccountInit ==
    /\ mempool = {}
    /\ chain = [nonce |-> 0, allowance |-> 0, pending |-> [o \in Owners |-> 0]]
    /\ mined = {}
    /\ foreign = 0 /\ credits = 0

\* What a node answers when asked for the count of transactions, pending ones included.
PendingCount == chain.nonce + Cardinality(mempool)

\* A nonce below the count is taken: the fee that would replace its transaction is
\* never offered, the gas price being the network's for both.
Accepts(nonce) == nonce = PendingCount

Taken(tx, o) == SumFunctionOnSet(tx.amounts, {i \in DOMAIN tx.owners : tx.owners[i] = o})

Succeeds(tx) ==
    CASE tx.kind = "depositERC20" -> tx.amounts[1] <= chain.allowance
      [] tx.kind = "withdraw" -> \A o \in Owners : Taken(tx, o) <= chain.pending[o]
      [] OTHER -> TRUE

Allowance(tx) ==
    CASE tx.kind = "approve" -> tx.amounts[1]
      [] tx.kind = "depositERC20" -> chain.allowance - tx.amounts[1]
      [] OTHER -> chain.allowance

Pending(tx) ==
    [o \in Owners |-> chain.pending[o] - (IF tx.kind = "withdraw" THEN Taken(tx, o) ELSE 0)]

Mine(tx) ==
    /\ tx.nonce = chain.nonce
    /\ mempool' = mempool \ {tx}
    /\ mined' = mined \cup {[tx |-> tx, ok |-> Succeeds(tx)]}
    /\ chain' = IF Succeeds(tx)
                THEN [nonce |-> chain.nonce + 1, allowance |-> Allowance(tx), pending |-> Pending(tx)]
                ELSE [chain EXCEPT !.nonce = @ + 1]
    /\ UNCHANGED <<foreign, credits>>

\* A withdrawal from the rollup could not be paid out and is kept for its owner.
Credit(o) ==
    /\ credits < MaxCredits
    /\ credits' = credits + 1
    /\ chain' = [chain EXCEPT !.pending[o] = @ + 1]
    /\ UNCHANGED <<mempool, mined, foreign>>

SendForeign ==
    /\ foreign < MaxForeign
    /\ foreign' = foreign + 1
    /\ mempool' = mempool \cup {[nonce |-> PendingCount, kind |-> "other", amounts |-> <<>>,
                                 owners |-> <<>>, caller |-> Other]}
    /\ UNCHANGED <<chain, mined, credits>>

NetworkStep ==
    /\ \/ \E tx \in mempool : Mine(tx)
       \/ \E o \in Owners : Credit(o)
       \/ SendForeign
=============================================================================
