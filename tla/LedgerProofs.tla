---------------------------- MODULE LedgerProofs ----------------------------
(***************************************************************************)
(* Proofs about JoinLedger: without its faults no balance becomes negative *)
(* and a miner that joined can build an acceptable block, for any number   *)
(* of miners, price, fee, epoch and balances.  The balance of a miner has  *)
(* to cover all its join transactions that are not on the chain, and what  *)
(* a pool has read is true of the head it has read it from.                *)
(***************************************************************************)
EXTENDS JoinLedger, FiniteSetTheorems, TLAPS

Ticket == [nonce: Nat, league: Int]

Typed ==
    /\ head \in Nat
    /\ balance \in [Miners -> Int]
    /\ joinNonce \in [Miners -> Nat]
    /\ view \in [Miners -> [head: Nat, balance: Int, nonce: Nat]]
    /\ pending \in [Miners -> Seq(Ticket)]
    /\ joined \subseteq Miners

ViewTrue ==
    \A m \in Miners :
        /\ view[m].head <= head
        /\ view[m].head = head => view[m].balance = balance[m] /\ view[m].nonce = joinNonce[m]

Covers == \A m \in Miners : balance[m] >= Len(pending[m]) * Price

LedgerInv == Typed /\ ViewTrue /\ Covers /\ JoinedIsReady

-----------------------------------------------------------------------------
\* The product of naturals is one, and grows with its factors.
LEMMA Product ==
    ASSUME NEW p \in Nat, NEW i \in Nat, NEW j \in Nat, i <= j
    PROVE  i * p \in Nat /\ i * p <= j * p
  OBVIOUS

\* What the coinbase is paid is not negative.
LEMMA Reward ==
    ASSUME NEW jCnt \in Nat PROVE mReward(jCnt) \in Nat
  <1>1. jCnt * Price \in Nat  BY LedgerAssumption
  <1>2. (jCnt * Price) * (100 - FnFee) \in Nat  BY <1>1, LedgerAssumption
  <1>3. ((jCnt * Price) * (100 - FnFee)) \div 100 \in Nat  BY <1>2
  <1> QED  BY <1>3 DEF mReward

\* The join transactions of a block can be counted.
LEMMA Counted ==
    ASSUME NEW count PROVE Cardinality({p \in Miners \X (1..MaxHead) : p[2] <= count[p[1]]}) \in Nat
  <1>1. IsFiniteSet(1..MaxHead)  BY LedgerAssumption, FS_Interval
  <1>2. IsFiniteSet(Miners \X (1..MaxHead))  BY <1>1, LedgerAssumption, FS_Product
  <1>3. IsFiniteSet({p \in Miners \X (1..MaxHead) : p[2] <= count[p[1]]})
    BY <1>2, FS_Subset
  <1> QED  BY <1>3, FS_CardinalityType

-----------------------------------------------------------------------------
\* Initially there is nothing to pay and every pool has read the first head.
LEMMA InitHolds == ASSUME Init PROVE LedgerInv
  <1>1. Typed
    <2>0. \A x \in Funds : x \in Int  BY LedgerAssumption
    <2>1. balance \in [Miners -> Int]  BY <2>0 DEF Init
    <2>2. view \in [Miners -> [head: Nat, balance: Int, nonce: Nat]]  BY <2>1 DEF Init
    <2>3. <<>> \in Seq(Ticket)  OBVIOUS
    <2>4. pending \in [Miners -> Seq(Ticket)]  BY <2>3 DEF Init
    <2>5. joinNonce \in [Miners -> Nat]  BY DEF Init
    <2> QED  BY <2>1, <2>2, <2>4, <2>5 DEF Init, Typed
  <1>2. ViewTrue  BY DEF Init, ViewTrue
  <1>3. Covers
    <2> SUFFICES ASSUME NEW m \in Miners PROVE balance[m] >= Len(pending[m]) * Price
      BY DEF Covers
    <2>1. Len(pending[m]) = 0 /\ balance[m] \in Nat  BY LedgerAssumption DEF Init
    <2>2. 0 * Price = 0  BY LedgerAssumption
    <2> QED  BY <2>1, <2>2
  <1>4. JoinedIsReady  BY DEF Init, JoinedIsReady
  <1> QED  BY <1>1, <1>2, <1>3, <1>4 DEF LedgerInv

\* A pool that handles a head reads what is true of it.
LEMMA ResetKeeps ==
    ASSUME LedgerInv, NEW m \in Miners, poolReset(m) PROVE LedgerInv'
  <1> USE DEF poolReset
  <1>1. Typed'  BY DEF LedgerInv, Typed
  <1>2. ViewTrue'  BY DEF LedgerInv, Typed, ViewTrue
  <1>3. Covers'  BY DEF LedgerInv, Covers
  <1>4. JoinedIsReady'  BY DEF LedgerInv, JoinedIsReady, Valid, League
  <1> QED  BY <1>1, <1>2, <1>3, <1>4 DEF LedgerInv

\* The check of the balance pays for an epoch of transactions, and no more than
\* an epoch of them are waiting.
LEMMA MakeKeeps ==
    ASSUME LedgerInv, Faults = {}, NEW m \in Miners, MakeJoinTx(m) PROVE LedgerInv'
  <1> DEFINE t == [nonce |-> view[m].nonce, league |-> League]
  <1>1. /\ view[m].head = head /\ Len(pending[m]) < Epoch /\ view[m].balance >= Price * Epoch
        /\ pending' = [pending EXCEPT ![m] = Append(@, t)] /\ joined' = joined \cup {m}
        /\ UNCHANGED <<head, balance, joinNonce, view>>
    BY DEF MakeJoinTx, limitBalance
  <1>2. view[m].balance = balance[m] /\ view[m].nonce = joinNonce[m]
    BY <1>1 DEF LedgerInv, ViewTrue
  <1>3. t \in Ticket
    <2>1. League \in Int  BY LedgerAssumption DEF LedgerInv, Typed, League
    <2> QED  BY <2>1 DEF Ticket, LedgerInv, Typed
  <1>4. pending[m] \in Seq(Ticket) /\ Len(pending[m]) \in Nat  BY DEF LedgerInv, Typed
  <1> HIDE DEF t
  <1>5. /\ Append(pending[m], t) \in Seq(Ticket)
        /\ Len(Append(pending[m], t)) = Len(pending[m]) + 1
        /\ Append(pending[m], t)[Len(pending[m]) + 1] = t
    BY <1>3, <1>4
  <1>6. pending'[m] = Append(pending[m], t) /\ \A n \in Miners \ {m} : pending'[n] = pending[n]
    BY <1>1 DEF LedgerInv, Typed
  <1>7. Typed'
    <2>1. pending' \in [Miners -> Seq(Ticket)]  BY <1>1, <1>5 DEF LedgerInv, Typed
    <2> QED  BY <1>1, <2>1 DEF LedgerInv, Typed
  <1>8. ViewTrue'  BY <1>1 DEF LedgerInv, ViewTrue
  <1>9. Covers'
    <2> SUFFICES ASSUME NEW n \in Miners PROVE balance[n] >= Len(pending'[n]) * Price
      BY <1>1 DEF Covers
    <2>1. CASE n # m  BY <2>1, <1>6 DEF LedgerInv, Covers
    <2>2. CASE n = m
      <3>1. (Len(pending[m]) + 1) * Price <= Epoch * Price
        <4>1. Len(pending[m]) + 1 \in Nat /\ Epoch \in Nat /\ Len(pending[m]) + 1 <= Epoch /\ Price \in Nat
          BY <1>1, <1>4, LedgerAssumption
        <4>2. \A p, i, j \in Nat : i <= j => i * p <= j * p  BY Product
        <4> QED  BY <4>1, <4>2
      <3>2. Epoch * Price = Price * Epoch /\ Price * Epoch \in Nat  BY LedgerAssumption
      <3>3. (Len(pending[m]) + 1) * Price \in Nat  BY <1>4, LedgerAssumption
      <3>4. balance[m] \in Int  BY DEF LedgerInv, Typed
      <3> QED  BY <2>2, <1>1, <1>2, <1>5, <1>6, <3>1, <3>2, <3>3, <3>4
    <2> QED  BY <2>1, <2>2
  <1>10. JoinedIsReady'
    <2> SUFFICES ASSUME NEW n \in joined' PROVE Valid(n)'
      BY DEF JoinedIsReady
    <2>0. League' = League  BY <1>1 DEF League
    <2>1. CASE n = m
      <3>1. t = [nonce |-> joinNonce[m], league |-> League]  BY <1>2 DEF t
      <3>2. Len(pending[m]) + 1 \in DOMAIN Append(pending[m], t)  BY <1>3, <1>4, <1>5
      <3> QED  BY <1>1, <1>5, <1>6, <2>0, <2>1, <3>1, <3>2 DEF Valid
    <2>2. CASE n # m
      <3>1. n \in joined /\ n \in Miners  BY <1>1, <2>2 DEF LedgerInv, Typed
      <3>2. Valid(n)  BY <3>1 DEF LedgerInv, JoinedIsReady
      <3> QED  BY <1>1, <1>6, <2>0, <2>2, <3>1, <3>2 DEF Valid
    <2> QED  BY <2>1, <2>2
  <1> QED  BY <1>7, <1>8, <1>9, <1>10 DEF LedgerInv

\* The fees that a block takes are those of the transactions it removes.
LEMMA FinalizeKeeps ==
    ASSUME LedgerInv, Faults = {}, NEW w \in Miners, NEW count \in [Miners -> Nat],
           NEW spent, Finalize(w, count, spent)
    PROVE  LedgerInv'
  <1> DEFINE jCnt == Cardinality({p \in Miners \X (1..MaxHead) : p[2] <= count[p[1]]})
             pay(m) == IF m = w THEN mReward(jCnt) ELSE 0
  <1>1. /\ \A m \in Miners : count[m] <= Len(pending[m]) /\ spent[m] = 0
        /\ balance' = [m \in Miners |-> balance[m] - spent[m] - count[m] * Price
                                          + (IF m = w THEN mReward(jCnt) ELSE 0)]
        /\ joinNonce' = [m \in Miners |-> IF m = w THEN 0 ELSE joinNonce[m] + count[m]]
        /\ pending' = [m \in Miners |-> SubSeq(pending[m], count[m] + 1, Len(pending[m]))]
        /\ head' = head + 1 /\ joined' = {} /\ view' = view
    BY DEF Finalize
  <1>2. mReward(jCnt) \in Nat  BY Counted, Reward
  <1> HIDE DEF jCnt
  <1>3. ASSUME NEW m \in Miners
        PROVE  /\ balance'[m] \in Int
               /\ balance'[m] >= balance[m] - count[m] * Price
               /\ SubSeq(pending[m], count[m] + 1, Len(pending[m])) \in Seq(Ticket)
               /\ Len(SubSeq(pending[m], count[m] + 1, Len(pending[m]))) = Len(pending[m]) - count[m]
    <2>1. count[m] \in Nat /\ Len(pending[m]) \in Nat /\ balance[m] \in Int
          /\ pending[m] \in Seq(Ticket) /\ count[m] <= Len(pending[m]) /\ spent[m] = 0
      BY <1>1 DEF LedgerInv, Typed
    <2>2. count[m] * Price \in Nat  BY <2>1, LedgerAssumption
    <2>3. balance'[m] = balance[m] - 0 - count[m] * Price + pay(m) /\ pay(m) \in Nat
      BY <1>1, <1>2, <2>1
    <2>4. balance'[m] \in Int /\ balance'[m] >= balance[m] - count[m] * Price
      BY <2>1, <2>2, <2>3
    <2>5. /\ SubSeq(pending[m], count[m] + 1, Len(pending[m])) \in Seq(Ticket)
          /\ Len(SubSeq(pending[m], count[m] + 1, Len(pending[m]))) = Len(pending[m]) - count[m]
      BY <2>1
    <2> QED  BY <2>4, <2>5
  <1>4. Typed'
    <2>1. balance' \in [Miners -> Int]  BY <1>1, <1>3
    <2>2. pending' \in [Miners -> Seq(Ticket)]  BY <1>1, <1>3
    <2>3. \A m \in Miners : (IF m = w THEN 0 ELSE joinNonce[m] + count[m]) \in Nat
      BY DEF LedgerInv, Typed
    <2>4. joinNonce' \in [Miners -> Nat]  BY <1>1, <2>3
    <2> QED  BY <1>1, <2>1, <2>2, <2>4 DEF LedgerInv, Typed
  <1>5. ViewTrue'
    <2> SUFFICES ASSUME NEW m \in Miners PROVE view[m].head <= head + 1 /\ view[m].head # head + 1
      BY <1>1 DEF ViewTrue
    <2>1. view[m].head \in Nat /\ head \in Nat /\ view[m].head <= head
      BY DEF LedgerInv, Typed, ViewTrue
    <2> QED  BY <2>1
  <1>6. Covers'
    <2> SUFFICES ASSUME NEW m \in Miners PROVE balance'[m] >= Len(pending'[m]) * Price
      BY DEF Covers
    <2>1. count[m] \in Nat /\ Len(pending[m]) \in Nat /\ balance[m] \in Int /\ count[m] <= Len(pending[m])
      BY <1>1 DEF LedgerInv, Typed
    <2>2. Len(pending'[m]) = Len(pending[m]) - count[m]  BY <1>1, <1>3
    <2>3. (Len(pending[m]) - count[m]) * Price = Len(pending[m]) * Price - count[m] * Price
      BY <2>1, LedgerAssumption
    <2>4. balance[m] >= Len(pending[m]) * Price  BY DEF LedgerInv, Covers
    <2>5. Len(pending[m]) * Price \in Nat /\ count[m] * Price \in Nat  BY <2>1, LedgerAssumption
    <2> QED  BY <1>3, <2>1, <2>2, <2>3, <2>4, <2>5
  <1>7. JoinedIsReady'  BY <1>1 DEF JoinedIsReady
  <1> QED  BY <1>4, <1>5, <1>6, <1>7 DEF LedgerInv

\* Every step keeps the invariant.
LEMMA StepKeeps ==
    ASSUME LedgerInv, Faults = {}, [Next]_vars PROVE LedgerInv'
  <1>1. ASSUME NEW m \in Miners, poolReset(m) PROVE LedgerInv'  BY <1>1, ResetKeeps
  <1>2. ASSUME NEW m \in Miners, MakeJoinTx(m) PROVE LedgerInv'  BY <1>2, MakeKeeps
  <1>3. ASSUME NEW w \in Miners, NEW count \in [Miners -> 0..MaxHead], NEW spent,
               Finalize(w, count, spent)
        PROVE  LedgerInv'
    <2>1. count \in [Miners -> Nat]  BY LedgerAssumption
    <2> QED  BY <1>3, <2>1, FinalizeKeeps
  <1>4. CASE UNCHANGED vars
    BY <1>4 DEF vars, LedgerInv, Typed, ViewTrue, Covers, JoinedIsReady, Valid, League
  <1> QED  BY <1>1, <1>2, <1>3, <1>4 DEF Next

\* If a miner's pool is up to date when it joins, its join transactions reach the
\* chain within an epoch and it spends nothing else, Finalize never makes a
\* balance negative.
THEOREM FeesAreCovered == ASSUME Faults = {} PROVE Spec => []NonNegative
  <1>1. Init => LedgerInv  BY InitHolds
  <1>2. LedgerInv /\ [Next]_vars => LedgerInv'  BY StepKeeps
  <1>3. LedgerInv => NonNegative
    <2> SUFFICES ASSUME LedgerInv, NEW m \in Miners PROVE balance[m] >= 0  BY DEF NonNegative
    <2>1. Len(pending[m]) \in Nat /\ balance[m] \in Int  BY DEF LedgerInv, Typed
    <2>2. Len(pending[m]) * Price \in Nat  BY <2>1, LedgerAssumption
    <2> QED  BY <2>1, <2>2 DEF LedgerInv, Covers
  <1> QED  BY <1>1, <1>2, <1>3, PTL DEF Spec

\* Under the same conditions a miner that has joined can build a block that
\* the league accepts.
THEOREM JoinedCanBuild == ASSUME Faults = {} PROVE Spec => []JoinedIsReady
  <1>1. Init => LedgerInv  BY InitHolds
  <1>2. LedgerInv /\ [Next]_vars => LedgerInv'  BY StepKeeps
  <1>3. LedgerInv => JoinedIsReady  BY DEF LedgerInv
  <1> QED  BY <1>1, <1>2, <1>3, PTL DEF Spec

=============================================================================
