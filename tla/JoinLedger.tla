----------------------------- MODULE JoinLedger -----------------------------
(***************************************************************************)
(* Join transactions on the chain.  A miner joins a round of its league    *)
(* with a join transaction (consensus/deb/client/services.go); it carries  *)
(* the join nonce of the miner and the otprn, costs no gas, and its fee is *)
(* taken when the block is finalized (consensus/deb/consensus.go), with no *)
(* look at the balance.  The client looks at it when it makes the          *)
(* transaction, in the state of its transaction pool, and asks for the     *)
(* fees of a whole epoch.                                                  *)
(*                                                                         *)
(* Other transactions are the amounts their senders have spent when the    *)
(* block is finalized; they leave the miners' accounts.  A league lasts    *)
(* Epoch blocks.  Fees are integers; the code computes them with big.Float *)
(* and cuts the fraction off.                                              *)
(***************************************************************************)
EXTENDS Integers, Sequences, FiniteSets

CONSTANTS
    Miners,
    Price,      \* JoinTxPrice
    FnFee,      \* percentage of the fees that the fairnode gets
    Epoch,      \* blocks of a league
    Funds,      \* balances at the start
    MaxHead,    \* bound: blocks, and so join transactions of a miner
    Faults      \* subset of {"spend", "behind", "lag"}

ASSUME LedgerAssumption ==
    /\ Price \in Nat /\ FnFee \in 0..100 /\ Epoch \in Nat \ {0} /\ MaxHead \in Nat
    /\ Funds \subseteq Nat /\ IsFiniteSet(Miners)

VARIABLES
    head,       \* number of the current block
    balance,    \* of the miners in its state
    joinNonce,  \* of the miners in its state
    view,       \* what the pool of each miner read at the last head it handled
    pending,    \* join transactions of each miner that are not on the chain
    joined      \* miners that made one in this round

vars == <<head, balance, joinNonce, view, pending, joined>>

League == head \div Epoch

Init ==
    /\ head = 0
    /\ balance \in [Miners -> Funds]
    /\ joinNonce = [m \in Miners |-> 0]
    /\ view = [m \in Miners |-> [head |-> 0, balance |-> balance[m], nonce |-> 0]]
    /\ pending = [m \in Miners |-> <<>>]
    /\ joined = {}

\* Variant: the join nonce is that of the pool's first head.
poolResetNonce(m) ==
    /\ view[m].head # head
    /\ view' = [view EXCEPT ![m].head = head, ![m].balance = balance[m]]
    /\ UNCHANGED <<head, balance, joinNonce, pending, joined>>

\* The pool of m handles the new head.
poolReset(m) ==
    /\ view[m].head # head
    /\ view' = [view EXCEPT ![m] = [head |-> head, balance |-> balance[m], nonce |-> joinNonce[m]]]
    /\ UNCHANGED <<head, balance, joinNonce, pending, joined>>

\* Variant: the fee of one block is enough.
limitBalanceOne == Price

\* The minimum balance for taking part in a league.
limitBalance == Price * Epoch

\* MAKE_JOIN_TX.  Timing: the pool has handled the head (else "lag"), and
\* transactions reach the chain within an epoch (else "behind").
MakeJoinTx(m) ==
    /\ m \notin joined /\ head < MaxHead
    /\ "lag" \in Faults \/ view[m].head = head
    /\ "behind" \in Faults \/ Len(pending[m]) < Epoch
    /\ view[m].balance >= limitBalance
    /\ pending' = [pending EXCEPT ![m] = Append(@, [nonce |-> view[m].nonce, league |-> League])]
    /\ joined' = joined \cup {m}
    /\ UNCHANGED <<head, balance, joinNonce, view>>

\* Prepare puts the join nonce of the coinbase in the header;
\* validationBlockInJoinTx wants a transaction with it and the header's otprn.
Valid(m) ==
    \E i \in DOMAIN pending[m] : pending[m][i] = [nonce |-> joinNonce[m], league |-> League]

\* The share of the coinbase in the fees of jCnt join transactions.
mReward(jCnt) == (jCnt * Price * (100 - FnFee)) \div 100

\* The block of w becomes the head: it holds all of w's transactions, and of
\* others as many as had reached w.  ChangeJoinNonceAndReword.
Finalize(w, count, spent) ==
    LET jCnt == Cardinality({p \in Miners \X (1..MaxHead) : p[2] <= count[p[1]]}) IN
    /\ head < MaxHead
    /\ Valid(w) /\ count[w] = Len(pending[w])
    /\ \A m \in Miners : count[m] <= Len(pending[m]) /\ spent[m] <= balance[m]
    /\ "spend" \in Faults \/ \A m \in Miners : spent[m] = 0
    /\ balance' = [m \in Miners |-> balance[m] - spent[m] - count[m] * Price
                                      + (IF m = w THEN mReward(jCnt) ELSE 0)]
    /\ joinNonce' = [m \in Miners |-> IF m = w THEN 0 ELSE joinNonce[m] + count[m]]
    /\ pending' = [m \in Miners |-> SubSeq(pending[m], count[m] + 1, Len(pending[m]))]
    /\ head' = head + 1
    /\ joined' = {}
    /\ UNCHANGED view

Next ==
    \/ \E m \in Miners : poolReset(m) \/ MakeJoinTx(m)
    \/ \E w \in Miners, count \in [Miners -> 0..MaxHead], spent \in [Miners -> {0} \cup Funds] :
          Finalize(w, count, spent)

Spec == Init /\ [][Next]_vars

-----------------------------------------------------------------------------
\* No balance becomes negative: Finalize takes the fees without a look at the
\* balance, so what MakeJoinTx asked for has to be enough for all the join
\* transactions of an account that one block may hold.
NonNegative == \A m \in Miners : balance[m] >= 0

\* A miner that has joined the round can build a block the league accepts: one
\* of its join transactions has the join nonce that Prepare will find, whether
\* it won, was counted by others or went unnoticed in the rounds before.
JoinedIsReady == \A m \in joined : Valid(m)

=============================================================================
