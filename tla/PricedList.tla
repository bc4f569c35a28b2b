----------------------------- MODULE PricedList -----------------------------
(***************************************************************************)
(* txPricedList of core/tx_list.go: the heap of gas prices by which a full *)
(* pool chooses what to discard.  Transactions leave the heap lazily: when *)
(* one leaves the pool its entry stays, Removed only counts it as stale,   *)
(* and the heap is rebuilt when a quarter of it is stale.                  *)
(*                                                                         *)
(* The actions are the ways tx_pool.go uses the list: what it does with    *)
(* the lookup table all in the same critical section is part of them.      *)
(* Transactions are numbers, ordered as the heap orders them: the lowest   *)
(* price, and of one price the highest nonce, first.                       *)
(***************************************************************************)
EXTENDS Integers, Sequences, FiniteSets, FiniteSetsExt

CONSTANTS
    N,          \* transactions are 1..N
    Local,      \* those of local accounts
    Limit,      \* GlobalSlots + GlobalQueue
    MaxCopies   \* bound: entries of one transaction in the heap

VARIABLES
    all,        \* the lookup table of the pool
    items,      \* the heap: entries <<transaction, copy>>
    stales,     \* how many entries the list believes to be stale
    seen,       \* history: transactions that have been in the pool
    returned    \* history: one of them has come back

vars == <<all, items, stales, seen, returned>>

copies(I, t) == {e \in I : e[1] = t}

Put(I, t) ==
    I \cup {<<t, CHOOSE k \in 1..(N + MaxCopies) : <<t, k>> \notin I /\ \A j \in 1..(k - 1) : <<t, j>> \in I>>}

\* Removed, after the transaction left all: rebuild is what Range collects.
Removed(I, n, live) ==
    IF n + 1 <= Cardinality(I) \div 4
      THEN [items |-> I, stales |-> n + 1]
      ELSE [items |-> live \X {1}, stales |-> 0]

-----------------------------------------------------------------------------
(* Popping.  k is the number of entries heap.Pop yields.                   *)
heap ==
    LET before(e) == {d \in items : d[1] < e[1] \/ (d[1] = e[1] /\ d[2] < e[2])}
    IN [i \in 1..Cardinality(items) |-> CHOOSE e \in items : Cardinality(before(e)) = i - 1]

popped(k) == {heap[i] : i \in 1..k}

stale(E) == {e \in E : e[1] \notin all}

remote(E) == {e \in E : e[1] \in all \ Local}

\* Variant: entries of local accounts are not pushed back.
leftNone(k) == items \ popped(k)

\* Stale entries are gone, those of local accounts are pushed back.
left(k) == items \ (stale(popped(k)) \cup remote(popped(k)))

\* Variant: Cap ends at the first entry of a local account.
capEndLocal(threshold) ==
    Min({i - 1 : i \in {j \in DOMAIN heap : heap[j][1] \in Local \/ heap[j][1] >= threshold}}
          \cup {Len(heap)})

\* Cap ends at the first live entry whose price is not below the threshold.
capEnd(threshold) ==
    Min({i - 1 : i \in {j \in DOMAIN heap : heap[j][1] \in all /\ heap[j][1] >= threshold}}
          \cup {Len(heap)})

\* Discard ends when it has dropped count entries.
discardEnd(count) ==
    Min({k \in 0..Len(heap) : Cardinality(remote(popped(k))) >= count} \cup {Len(heap)})

\* Underpriced pops the stale entries at the top.
topEnd ==
    Min({i - 1 : i \in {j \in DOMAIN heap : heap[j][1] \in all}} \cup {Len(heap)})

-----------------------------------------------------------------------------
Init ==
    /\ all = {} /\ items = {} /\ stales = 0 /\ seen = {} /\ returned = FALSE

Fresh(t) ==
    /\ t \notin all /\ Cardinality(copies(items, t)) < MaxCopies

\* A transaction enters a pool that is not full.
Add(t) ==
    /\ Fresh(t) /\ Cardinality(all) < Limit
    /\ all' = all \cup {t}
    /\ items' = Put(items, t)
    /\ seen' = seen \cup {t} /\ returned' = (returned \/ t \in seen)
    /\ UNCHANGED stales

\* A transaction leaves for another reason than its price.
Drop(t) ==
    LET r == Removed(items, stales, all \ {t}) IN
    /\ t \in all
    /\ all' = all \ {t}
    /\ items' = r.items
    /\ stales' = r.stales
    /\ UNCHANGED <<seen, returned>>

\* A full pool refuses t: stale entries at the top are gone.
Refuse(t) ==
    /\ Fresh(t) /\ Cardinality(all) >= Limit /\ t \notin Local
    /\ topEnd < Len(heap) /\ heap[topEnd + 1][1] >= t
    /\ items' = items \ popped(topEnd)
    /\ stales' = stales - topEnd
    /\ UNCHANGED <<all, seen, returned>>

\* A full pool makes room for t.  Discard meets the stale entries at the top as
\* Underpriced does.
Replace(t) ==
    LET k == discardEnd(Cardinality(all) - (Limit - 1)) IN
    /\ Fresh(t) /\ Cardinality(all) >= Limit
    /\ t \in Local \/ topEnd = Len(heap) \/ heap[topEnd + 1][1] < t
    /\ all' = (all \ {e[1] : e \in remote(popped(k))}) \cup {t}
    /\ items' = Put(left(k), t)
    /\ stales' = stales - Cardinality(stale(popped(k)))
    /\ seen' = seen \cup {t} /\ returned' = (returned \/ t \in seen)

\* SetGasPrice.
Cap(threshold) ==
    LET k == capEnd(threshold) IN
    /\ all' = all \ {e[1] : e \in remote(popped(k))}
    /\ items' = left(k)
    /\ stales' = stales - Cardinality(stale(popped(k)))
    /\ UNCHANGED <<seen, returned>>

Next ==
    \/ \E t \in 1..N : Add(t) \/ Drop(t) \/ Refuse(t) \/ Replace(t)
    \/ \E threshold \in 1..(N + 1) : Cap(threshold)

Spec == Init /\ [][Next]_vars

-----------------------------------------------------------------------------
\* Every transaction of the pool has an entry in the heap, so that Discard and
\* Cap can find it: lazy removal never loses one that is still there or came back.
\* And the number of entries that are not stale is the number of transactions, as
\* long as no transaction has come back: the entry a returning one left behind
\* is live again and still counted as stale.
Tracked ==
    /\ \A t \in all : copies(items, t) # {}
    /\ ~returned => Cardinality(items) - stales = Cardinality(all)

\* What the price limit of SetGasPrice promises: no cheaper transaction of a
\* remote account is left, whatever stale entries the heap holds.
CapClears ==
    [][\A threshold \in 1..(N + 1) :
          Cap(threshold) => \A t \in all' : t \in Local \/ t >= threshold]_vars

=============================================================================
