------------------------------- MODULE TxList -------------------------------
(***************************************************************************)
(* txList and txSortedMap of core/tx_list.go: the transactions of one      *)
(* account by nonce.  Four things are derived from the map and kept beside *)
(* it: the heap of nonces, the sorted cache that Flatten builds, and the   *)
(* caps, the highest cost and the highest gas, by which Filter decides     *)
(* whether there is anything to look for.  Each operation updates them in  *)
(* a way of its own.  The pool's use of the lists is in module TxPool.     *)
(***************************************************************************)
EXTENDS Integers, Sequences, FiniteSets

CONSTANTS
    MaxNonce,   \* nonces are 0..MaxNonce
    Prices,     \* gas prices
    Gases,      \* gas limits of transactions, and of blocks
    Balances,   \* balances of the account
    PriceBump,  \* config.PriceBump
    Nil

ASSUME ListAssumption ==
    /\ MaxNonce \in Nat /\ PriceBump \in Nat
    /\ Prices \subseteq Nat /\ Gases \subseteq Nat /\ Balances \subseteq Nat

Nonces == 0..MaxNonce
Tx == [nonce: Nonces, price: Prices, gas: Gases]

Cost(t) == t.price * t.gas

VARIABLES
    strict,     \* l.strict: whether this is a list of pending transactions
    items,      \* m.items: a set of transactions
    index,      \* m.index: a set of nonces
    cache,      \* m.cache: Nil or a sequence of transactions
    costcap,    \* l.costcap
    gascap      \* l.gascap

vars == <<strict, items, index, cache, costcap, gascap>>

nonces(S) == {t.nonce : t \in S}

\* The transactions of S by nonce.
sorted(S) ==
    [i \in 1..Cardinality(S) |->
        CHOOSE t \in S : Cardinality({u \in S : u.nonce < t.nonce}) = i - 1]

-----------------------------------------------------------------------------
Init ==
    /\ strict \in BOOLEAN
    /\ items = {} /\ index = {} /\ cache = Nil /\ costcap = 0 /\ gascap = 0

\* A transaction of a taken nonce needs a higher price, by the bump.
Add(t) ==
    LET old == {u \in items : u.nonce = t.nonce} IN
    /\ \A u \in old : t.price > u.price /\ t.price >= (u.price * (100 + PriceBump)) \div 100
    /\ items' = (items \ old) \cup {t}
    /\ index' = index \cup {t.nonce}
    /\ cache' = Nil
    /\ costcap' = IF costcap < Cost(t) THEN Cost(t) ELSE costcap
    /\ gascap' = IF gascap < t.gas THEN t.gas ELSE gascap
    /\ UNCHANGED strict

\* Variant: the cache loses its end.
ForwardEnd(threshold) ==
    LET removed == {n \in index : n < threshold} IN
    /\ items' = {t \in items : t.nonce \notin removed}
    /\ index' = index \ removed
    /\ cache' = IF cache = Nil THEN Nil
                ELSE SubSeq(cache, 1, Len(cache) - Cardinality(removed))
    /\ UNCHANGED <<strict, costcap, gascap>>

\* The heap yields the nonces below the threshold; the cache is shifted.
Forward(threshold) ==
    LET removed == {n \in index : n < threshold} IN
    /\ items' = {t \in items : t.nonce \notin removed}
    /\ index' = index \ removed
    /\ cache' = IF cache = Nil THEN Nil
                ELSE SubSeq(cache, Cardinality(removed) + 1, Len(cache))
    /\ UNCHANGED <<strict, costcap, gascap>>

\* Variant: the heap keeps what the second filter removed.
dropOnce(removed, invalids) ==
    /\ items' = items \ (removed \cup invalids)
    /\ index' = IF removed = {} THEN index ELSE nonces(items \ removed)
    /\ cache' = IF removed = {} THEN cache ELSE Nil

\* txSortedMap.Filter, once or twice: heap and cache are made anew if
\* something was removed.
drop(removed, invalids) ==
    LET S == removed \cup invalids IN
    /\ items' = items \ S
    /\ index' = IF S = {} THEN index ELSE nonces(items \ S)
    /\ cache' = IF S = {} THEN cache ELSE Nil

Fits(t, costLimit, gasLimit) == Cost(t) <= costLimit /\ t.gas <= gasLimit

\* Variant: the cap on the cost decides alone.
WithinCost(costLimit, gasLimit) == costcap <= costLimit

\* With both caps within the limits nothing is looked at.
Within(costLimit, gasLimit) == costcap <= costLimit /\ gascap <= gasLimit

\* What costs too much or needs too much gas goes, and in strict mode what
\* follows it; both caps become the limits.
Filter(costLimit, gasLimit) ==
    LET removed  == {t \in items : ~Fits(t, costLimit, gasLimit)}
        invalids == {t \in items : strict /\ \E u \in removed : u.nonce < t.nonce}
    IN /\ ~Within(costLimit, gasLimit)
       /\ costcap' = costLimit /\ gascap' = gasLimit
       /\ drop(removed, invalids)
       /\ UNCHANGED strict

\* The highest nonces of the sorted heap go; the cache loses its end.
Cap(threshold) ==
    LET drops == {n \in index : Cardinality({m \in index : m < n}) >= threshold} IN
    /\ Cardinality(items) > threshold
    /\ items' = {t \in items : t.nonce \notin drops}
    /\ index' = index \ drops
    /\ cache' = IF cache = Nil THEN Nil
                ELSE SubSeq(cache, 1, Len(cache) - Cardinality(drops))
    /\ UNCHANGED <<strict, costcap, gascap>>

\* One nonce goes, and in strict mode what follows it.
Remove(nonce) ==
    LET removed  == {t \in items : t.nonce = nonce}
        invalids == {t \in items : strict /\ t.nonce > nonce}
    IN /\ removed # {}
       /\ drop(removed, invalids)
       /\ UNCHANGED <<strict, costcap, gascap>>

\* The run of nonces from the lowest one goes, if that is not above start.
Ready(start) ==
    \E lowest \in index :
        LET ready == {n \in index : lowest .. n \subseteq index} IN
        /\ lowest <= start /\ \A n \in index : lowest <= n
        /\ items' = {t \in items : t.nonce \notin ready}
        /\ index' = index \ ready
        /\ cache' = Nil
        /\ UNCHANGED <<strict, costcap, gascap>>

Flatten ==
    /\ cache' = IF cache = Nil THEN sorted(items) ELSE cache
    /\ UNCHANGED <<strict, items, index, costcap, gascap>>

Next ==
    \/ \E t \in Tx : Add(t)
    \/ \E n \in 0..(MaxNonce + 1) : Forward(n) \/ Cap(n)
    \/ \E n \in Nonces : Remove(n) \/ Ready(n)
    \/ \E b \in Balances, g \in Gases : Filter(b, g)
    \/ Flatten

Spec == Init /\ [][Next]_vars

-----------------------------------------------------------------------------
\* The heap holds exactly the nonces of the map, which has one transaction for
\* each: Forward, Cap and Ready walk the heap, and would otherwise leave
\* transactions behind or return missing ones.
IndexMatches ==
    /\ index = nonces(items)
    /\ \A t, u \in items : t.nonce = u.nonce => t = u

\* The cache that Flatten returns is what it would build from the map, although
\* Forward and Cap only shorten it by as many transactions as they removed.
CacheFresh == cache # Nil => cache = sorted(items)

\* When the caps let Filter skip the list, the list has nothing to remove: the
\* caps bound every transaction, although Filter sets them to limits instead of
\* recomputing them, may raise one while it lowers the other, and nothing else
\* lowers them.
SkipSound ==
    \A b \in Balances, g \in Gases : Within(b, g) => \A t \in items : Fits(t, b, g)

=============================================================================
