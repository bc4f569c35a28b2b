---------------------------- MODULE TxListProofs ----------------------------
(***************************************************************************)
(* Proofs about TxList: the heap matches the map, the short cut of Filter  *)
(* is sound and the cache is what Flatten would build, for all nonces,     *)
(* prices, gas limits and balances.  SkipSound speaks of the limits the    *)
(* list is filtered with and is not inductive; the invariant says what the *)
(* caps are worth for every transaction of the list.  CacheFresh needs     *)
(* that one and what shortening a sorted list at either end leaves.  The   *)
(* second half is about PricedList, for any number of transactions, any    *)
(* limit and any set of local accounts.                                    *)
(***************************************************************************)
EXTENDS MCLists, FiniteSetTheorems, SequenceTheorems, WellFoundedInduction, TLAPS

Typed == items \subseteq Tx /\ costcap \in Nat /\ gascap \in Nat

Covered == \A t \in items : Cost(t) <= costcap /\ t.gas <= gascap

ListInv == Typed /\ IndexMatches /\ Covered

-----------------------------------------------------------------------------
\* The cost of a transaction is a natural number.
LEMMA CostNat ==
    ASSUME NEW t \in Tx PROVE Cost(t) \in Nat /\ t.gas \in Nat /\ t.nonce \in Nonces
  <1>1. t.price \in Nat /\ t.gas \in Nat  BY ListAssumption DEF Tx
  <1>2. t.price * t.gas \in Nat  BY <1>1
  <1> QED  BY <1>1, <1>2 DEF Cost, Tx

\* Removing transactions leaves the rest covered and one for each nonce, as
\* long as the caps stay.
LEMMA Shrinks ==
    ASSUME ListInv, items' \subseteq items, index' = nonces(items'),
           costcap' = costcap, gascap' = gascap
    PROVE  ListInv'
  BY DEF ListInv, Typed, IndexMatches, Covered, Tx, Cost

\* Taking nonces from the heap and from the map alike keeps them matched.
LEMMA TakesBoth ==
    ASSUME IndexMatches, NEW S, items' = {t \in items : t.nonce \notin S}, index' = index \ S
    PROVE  items' \subseteq items /\ index' = nonces(items')
  BY DEF IndexMatches, nonces

\* What drop leaves in the heap is what it leaves in the map.
LEMMA DropMatches ==
    ASSUME IndexMatches, NEW R, NEW I, drop(R, I)
    PROVE  items' = items \ (R \cup I) /\ index' = nonces(items')
  <1>1. items' = items \ (R \cup I)  BY DEF drop
  <1>2. CASE R \cup I = {}
    <2>1. items' = items /\ index' = index  BY <1>1, <1>2 DEF drop
    <2> QED  BY <1>1, <2>1 DEF IndexMatches, nonces
  <1>3. CASE R \cup I # {}  BY <1>1, <1>3 DEF drop
  <1> QED  BY <1>2, <1>3

\* Add puts the transaction in the place of the one it replaces and raises the
\* caps if it exceeds them.
LEMMA AddKeeps ==
    ASSUME ListInv, NEW t \in Tx, Add(t) PROVE ListInv'
  <1> DEFINE old == {u \in items : u.nonce = t.nonce}
  <1>1. items' = (items \ old) \cup {t} /\ index' = index \cup {t.nonce}  BY DEF Add
  <1>2. Cost(t) \in Nat /\ t.gas \in Nat  BY CostNat
  <1>3. /\ costcap' \in Nat /\ costcap <= costcap' /\ Cost(t) <= costcap'
        /\ gascap' \in Nat /\ gascap <= gascap' /\ t.gas <= gascap'
    BY <1>2 DEF Add, ListInv, Typed
  <1>4. Typed'  BY <1>1, <1>3 DEF ListInv, Typed
  <1>5. IndexMatches'
    <2>1. nonces(items') = nonces(items) \cup {t.nonce}  BY <1>1 DEF nonces
    <2>2. index' = nonces(items')  BY <1>1, <2>1 DEF ListInv, IndexMatches
    <2>3. ASSUME NEW u \in items', NEW v \in items', u.nonce = v.nonce PROVE u = v
      BY <1>1, <2>3 DEF ListInv, IndexMatches
    <2> QED  BY <2>2, <2>3 DEF IndexMatches
  <1>6. Covered'
    <2> SUFFICES ASSUME NEW u \in items' PROVE Cost(u) <= costcap' /\ u.gas <= gascap'
      BY DEF Covered, Cost
    <2>1. CASE u = t  BY <1>3, <2>1
    <2>2. CASE u \in items
      <3>1. Cost(u) \in Nat /\ u.gas \in Nat  BY <2>2, CostNat DEF ListInv, Typed
      <3>2. Cost(u) <= costcap /\ u.gas <= gascap  BY <2>2 DEF ListInv, Covered
      <3> QED  BY <1>3, <3>1, <3>2 DEF ListInv, Typed
    <2> QED  BY <1>1, <2>1, <2>2
  <1> QED  BY <1>4, <1>5, <1>6 DEF ListInv

\* Filter lowers the caps to limits that what it leaves keeps to.
LEMMA FilterKeeps ==
    ASSUME ListInv, NEW b \in Balances, NEW g \in Gases, Filter(b, g) PROVE ListInv'
  <1> DEFINE R == {t \in items : ~Fits(t, b, g)}
             I == {t \in items : strict /\ \E u \in R : u.nonce < t.nonce}
  <1>1. drop(R, I) /\ costcap' = b /\ gascap' = g  BY DEF Filter
  <1>2. items' = items \ (R \cup I) /\ index' = nonces(items')
    BY <1>1, DropMatches DEF ListInv
  <1>3. Typed'  BY <1>1, <1>2, ListAssumption DEF ListInv, Typed
  <1>4. IndexMatches'  BY <1>2 DEF ListInv, IndexMatches
  <1>5. Covered'
    <2> SUFFICES ASSUME NEW t \in items' PROVE Cost(t) <= costcap' /\ t.gas <= gascap'
      BY DEF Covered, Cost
    <2>1. Fits(t, b, g)  BY <1>2
    <2> QED  BY <1>1, <2>1 DEF Fits
  <1> QED  BY <1>3, <1>4, <1>5 DEF ListInv

-----------------------------------------------------------------------------
\* Every operation of the list keeps the invariant.
LEMMA NextKeeps ==
    ASSUME ListInv, [Next]_vars PROVE ListInv'
  <1>1. ASSUME NEW t \in Tx, Add(t) PROVE ListInv'  BY <1>1, AddKeeps
  <1>2. ASSUME NEW n, Forward(n) PROVE ListInv'
    <2> DEFINE S == {m \in index : m < n}
    <2>1. items' = {t \in items : t.nonce \notin S} /\ index' = index \ S
      BY <1>2 DEF Forward
    <2> HIDE DEF S
    <2>2. items' \subseteq items /\ index' = nonces(items')
      BY <2>1, TakesBoth DEF ListInv
    <2> QED  BY <1>2, <2>2, Shrinks DEF Forward
  <1>3. ASSUME NEW n, Cap(n) PROVE ListInv'
    <2> DEFINE S == {m \in index : Cardinality({k \in index : k < m}) >= n}
    <2>1. items' = {t \in items : t.nonce \notin S} /\ index' = index \ S
      BY <1>3 DEF Cap
    <2> HIDE DEF S
    <2>2. items' \subseteq items /\ index' = nonces(items')
      BY <2>1, TakesBoth DEF ListInv
    <2> QED  BY <1>3, <2>2, Shrinks DEF Cap
  <1>4. ASSUME NEW n, Remove(n) PROVE ListInv'
    <2>1. items' \subseteq items /\ index' = nonces(items')
      BY <1>4, DropMatches DEF Remove, ListInv
    <2> QED  BY <1>4, <2>1, Shrinks DEF Remove
  <1>5. ASSUME NEW n, Ready(n) PROVE ListInv'
    <2>1. PICK lowest \in index :
            LET ready == {k \in index : lowest .. k \subseteq index} IN
            /\ items' = {t \in items : t.nonce \notin ready}
            /\ index' = index \ ready
            /\ UNCHANGED <<costcap, gascap>>
      BY <1>5 DEF Ready
    <2> DEFINE S == {k \in index : lowest .. k \subseteq index}
    <2>2. items' = {t \in items : t.nonce \notin S} /\ index' = index \ S  BY <2>1
    <2> HIDE DEF S
    <2>3. items' \subseteq items /\ index' = nonces(items')
      BY <2>2, TakesBoth DEF ListInv
    <2> QED  BY <2>1, <2>3, Shrinks
  <1>6. ASSUME NEW b \in Balances, NEW g \in Gases, Filter(b, g) PROVE ListInv'
    BY <1>6, FilterKeeps
  <1>7. CASE Flatten \/ UNCHANGED vars
    <2>1. UNCHANGED <<items, index, costcap, gascap>>  BY <1>7 DEF Flatten, vars
    <2> QED  BY <2>1 DEF ListInv, Typed, IndexMatches, Covered, nonces, Cost
  <1> QED  BY <1>1, <1>2, <1>3, <1>4, <1>5, <1>6, <1>7 DEF Next

\* Every list of core/tx_list.go, strict or not, whatever sequence of operations
\* it went through, has a heap that matches its map.
THEOREM HeapMatches == Spec => []IndexMatches
  <1>1. Init => ListInv
    BY DEF Init, ListInv, Typed, IndexMatches, Covered, nonces
  <1>2. ListInv /\ [Next]_vars => ListInv'  BY NextKeeps
  <1>3. ListInv => IndexMatches  BY DEF ListInv
  <1> QED  BY <1>1, <1>2, <1>3, PTL DEF Spec

\* Whenever the caps let Filter skip the list, it has nothing to remove.
THEOREM FilterSkipsNothing == Spec => []SkipSound
  <1>1. Init => ListInv
    BY DEF Init, ListInv, Typed, IndexMatches, Covered, nonces
  <1>2. ListInv /\ [Next]_vars => ListInv'  BY NextKeeps
  <1>3. ListInv => SkipSound
    <2> SUFFICES ASSUME ListInv, NEW b \in Balances, NEW g \in Gases, Within(b, g),
                        NEW t \in items
                 PROVE  Fits(t, b, g)
      BY DEF SkipSound
    <2>1. b \in Nat /\ g \in Nat /\ costcap \in Nat /\ gascap \in Nat
      BY ListAssumption DEF ListInv, Typed
    <2>2. Cost(t) \in Nat /\ t.gas \in Nat  BY CostNat DEF ListInv, Typed
    <2>3. Cost(t) <= costcap /\ t.gas <= gascap  BY DEF ListInv, Covered
    <2> QED  BY <2>1, <2>2, <2>3 DEF Fits, Within
  <1> QED  BY <1>1, <1>2, <1>3, PTL DEF Spec

-----------------------------------------------------------------------------
\* Why the cache may be shortened instead of rebuilt.  The place of a transaction
\* in the sorted list is the number of transactions before it.
Rank(S, t) == Cardinality({u \in S : u.nonce < t.nonce})

LEMMA SplitCount ==
    ASSUME NEW S, IsFiniteSet(S), NEW L \in SUBSET S
    PROVE  /\ IsFiniteSet(L) /\ IsFiniteSet(S \ L)
           /\ Cardinality(L) \in Nat /\ Cardinality(S \ L) \in Nat
           /\ Cardinality(S) = Cardinality(L) + Cardinality(S \ L)
  <1> DEFINE H == S \ L
  <1>1. IsFiniteSet(L) /\ IsFiniteSet(H) /\ Cardinality(L) \in Nat /\ Cardinality(H) \in Nat
    BY FS_Subset, FS_CardinalityType
  <1>2. S = L \cup H /\ L \cap H = {}  OBVIOUS
  <1> HIDE DEF H
  <1>3. Cardinality(L \cup H) = Cardinality(L) + Cardinality(H) - Cardinality(L \cap H)
    BY <1>1, FS_Union
  <1>4. Cardinality(L \cap H) = 0  BY <1>2, FS_EmptySet
  <1>5. Cardinality(S) = Cardinality(L \cup H)  BY <1>2
  <1>6. Cardinality(S) = Cardinality(L) + Cardinality(H)  BY <1>1, <1>3, <1>4, <1>5
  <1> QED  BY <1>1, <1>6 DEF H

\* A list with one transaction for each nonce has as many as nonces.
LEMMA NoncesCount ==
    ASSUME NEW S, IsFiniteSet(S), \A t, u \in S : t.nonce = u.nonce => t = u
    PROVE  Cardinality(nonces(S)) = Cardinality(S)
  <1> DEFINE f == [t \in S |-> t.nonce]
  <1>1. f \in [S -> nonces(S)]  BY DEF nonces
  <1>2. \A n \in nonces(S) : \E t \in S : f[t] = n  BY DEF nonces
  <1>3. \A t, u \in S : f[t] = f[u] => t = u  OBVIOUS
  <1> HIDE DEF f
  <1>4. f \in Surjection(S, nonces(S))  BY <1>1, <1>2 DEF Surjection
  <1>5. f \in Injection(S, nonces(S))  BY <1>1, <1>3 DEF Injection, IsInjective
  <1> QED  BY <1>4, <1>5, FS_Surjection

LEMMA SortedLen ==
    ASSUME NEW S, IsFiniteSet(S)
    PROVE  DOMAIN sorted(S) = 1 .. Cardinality(S) /\ Len(sorted(S)) = Cardinality(S)
  <1> DEFINE n == Cardinality(S)
             R == {sorted(S)[i] : i \in 1 .. n}
  <1>1. n \in Nat  BY FS_CardinalityType
  <1>2. DOMAIN sorted(S) = 1 .. n  BY Zenon DEF sorted
  <1>3. sorted(S) \in [1 .. n -> R]  BY Zenon DEF sorted
  <1> HIDE DEF n
  <1> HIDE DEF R
  <1>4. sorted(S) \in Seq(R)  BY <1>1, <1>3, SeqDef
  <1>5. Len(sorted(S)) \in Nat /\ DOMAIN sorted(S) = 1 .. Len(sorted(S))  BY <1>4, LenProperties
  <1> QED  BY <1>1, <1>2, <1>5 DEF n

\* A sequence is a part of another if it agrees with it on the part.
LEMMA PartOf ==
    ASSUME NEW s, NEW a \in Nat, NEW n \in Nat, NEW k \in Nat, n = a + k - 1,
           NEW T, NEW p \in [1 .. k -> T], \A i \in 1 .. k : p[i] = s[a + i - 1]
    PROVE  p = SubSeq(s, a, n)
  <1> DEFINE R == {s[i] : i \in a .. n}
             q == SubSeq(s, a, n)
  <1>1. \A i \in a .. n : s[i] \in R  OBVIOUS
  <1> HIDE DEF R
  <1>2. /\ q \in Seq(R)
        /\ Len(q) = IF a <= n THEN n - a + 1 ELSE 0
        /\ \A i \in 1 .. n - a + 1 : q[i] = s[a + i - 1]
    BY <1>1, SubSeqProperties
  <1> HIDE DEF q
  <1>3. Len(q) = k /\ n - a + 1 = k  BY <1>2
  <1>4. q = [i \in 1 .. k |-> q[i]]  BY <1>2, <1>3, LenProperties
  <1>5. \A i \in 1 .. k : q[i] = p[i]  BY <1>2, <1>3
  <1> QED  BY <1>4, <1>5 DEF q

\* What stands where in a sorted list.
LEMMA SortedAt ==
    ASSUME NEW S, IsFiniteSet(S)
    PROVE  /\ \E T : sorted(S) \in [1 .. Cardinality(S) -> T]
           /\ \A i \in 1 .. Cardinality(S) : sorted(S)[i] = CHOOSE t \in S : Rank(S, t) = i - 1
  <1>1. sorted(S) = [i \in 1 .. Cardinality(S) |-> CHOOSE t \in S : Rank(S, t) = i - 1]
    BY Zenon DEF sorted, Rank
  <1>2. sorted(S) \in [1 .. Cardinality(S) -> {sorted(S)[i] : i \in 1 .. Cardinality(S)}]
    BY <1>1, Zenon
  <1> QED  BY <1>1, <1>2, Zenon

\* The part of a list up to a nonce is the beginning of it, sorted.
LEMMA SortedLow ==
    ASSUME NEW S, IsFiniteSet(S), NEW L \in SUBSET S, \A t \in S : t.nonce \in Nat,
           \A t \in L, u \in S \ L : t.nonce < u.nonce
    PROVE  sorted(L) = SubSeq(sorted(S), 1, Cardinality(L))
  <1> DEFINE l == Cardinality(L)
  <1>1. IsFiniteSet(L) /\ l \in Nat  BY FS_Subset, FS_CardinalityType
  <1>2. ASSUME NEW i \in 1 .. l, NEW t
        PROVE  (t \in S /\ Rank(S, t) = i - 1) <=> (t \in L /\ Rank(L, t) = i - 1)
    <2>1. CASE t \in L
      <3>1. {u \in S : u.nonce < t.nonce} = {u \in L : u.nonce < t.nonce}  BY <2>1
      <3> QED  BY <2>1, <3>1 DEF Rank
    <2>2. CASE t \in S \ L
      <3>1. L \subseteq {u \in S : u.nonce < t.nonce}  BY <2>2
      <3>2. IsFiniteSet({u \in S : u.nonce < t.nonce})  BY FS_Subset
      <3>3. l <= Rank(S, t) /\ Rank(S, t) \in Nat  BY <3>1, <3>2, FS_Subset, FS_CardinalityType DEF Rank
      <3> QED  BY <1>1, <2>2, <3>3
    <2> QED  BY <2>1, <2>2
  <1>3. l <= Cardinality(S) /\ Cardinality(S) \in Nat  BY FS_Subset, FS_CardinalityType
  <1>4. ASSUME NEW i \in 1 .. l PROVE sorted(L)[i] = sorted(S)[i]
    <2>1. (CHOOSE t \in S : Rank(S, t) = i - 1) = (CHOOSE t \in L : Rank(L, t) = i - 1)
      BY <1>2
    <2>2. i \in 1 .. Cardinality(S)  BY <1>1, <1>3
    <2> QED  BY <1>1, <2>1, <2>2, SortedAt
  <1>5. PICK T : sorted(L) \in [1 .. l -> T]  BY <1>1, SortedAt
  <1> HIDE DEF l
  <1>6. \A i \in 1 .. l : sorted(L)[i] = sorted(S)[1 + i - 1]  BY <1>1, <1>4
  <1>7. l = 1 + l - 1  BY <1>1
  <1>8. sorted(L) = SubSeq(sorted(S), 1, l)  BY <1>1, <1>5, <1>6, <1>7, PartOf
  <1> QED  BY <1>8 DEF l

\* The rest of it is the end.
LEMMA SortedHigh ==
    ASSUME NEW S, IsFiniteSet(S), NEW L \in SUBSET S, \A t \in S : t.nonce \in Nat,
           \A t \in L, u \in S \ L : t.nonce < u.nonce
    PROVE  sorted(S \ L) = SubSeq(sorted(S), Cardinality(L) + 1, Cardinality(S))
  <1> DEFINE l == Cardinality(L)
             H == S \ L
             h == Cardinality(H)
  <1>1. IsFiniteSet(L) /\ IsFiniteSet(H) /\ l \in Nat /\ h \in Nat
    BY FS_Subset, FS_CardinalityType
  <1>2. Cardinality(S) = l + h  BY SplitCount
  <1>3. ASSUME NEW i \in 1 .. h, NEW t
        PROVE  (t \in S /\ Rank(S, t) = l + i - 1) <=> (t \in H /\ Rank(H, t) = i - 1)
    <2>1. CASE t \in L
      <3> DEFINE B == {u \in S : u.nonce < t.nonce}
      <3>1. B \subseteq L \ {t}  BY <2>1
      <3>2. IsFiniteSet(L \ {t}) /\ Cardinality(L \ {t}) = l - 1
        BY <1>1, <2>1, FS_RemoveElement
      <3>3. Cardinality(B) <= l - 1 /\ Cardinality(B) \in Nat
        BY <3>1, <3>2, FS_Subset, FS_CardinalityType
      <3> QED  BY <1>1, <2>1, <3>3 DEF Rank
    <2>2. CASE t \in H
      <3> DEFINE B == {u \in H : u.nonce < t.nonce}
      <3>1. {u \in S : u.nonce < t.nonce} = L \cup B /\ L \cap B = {}  BY <2>2
      <3>2. IsFiniteSet(B) /\ Cardinality(B) \in Nat  BY <1>1, FS_Subset, FS_CardinalityType
      <3>3. Cardinality(L \cup B) = l + Cardinality(B) - Cardinality(L \cap B)
        BY <1>1, <3>2, FS_Union
      <3>4. Cardinality(L \cup B) = l + Cardinality(B)
        <4>1. Cardinality(L \cap B) = 0  BY <3>1, FS_EmptySet
        <4> QED  BY <1>1, <3>2, <3>3, <4>1
      <3>5. Rank(S, t) = l + Rank(H, t) /\ Rank(H, t) \in Nat  BY <3>1, <3>2, <3>4 DEF Rank
      <3> QED  BY <1>1, <2>2, <3>5
    <2> QED  BY <2>1, <2>2
  <1> HIDE DEF l, h, H
  <1>4. ASSUME NEW i \in 1 .. h PROVE sorted(H)[i] = sorted(S)[l + i]
    <2>1. PICK j \in 1 .. Cardinality(S) : j = l + i  BY <1>1, <1>2
    <2>2. (CHOOSE t \in S : Rank(S, t) = j - 1) = (CHOOSE t \in H : Rank(H, t) = i - 1)
      <3>1. \A t : (t \in S /\ Rank(S, t) = j - 1) <=> (t \in H /\ Rank(H, t) = i - 1)
        <4>1. j - 1 = l + i - 1  BY <1>1, <2>1
        <4>2. \A t : (t \in S /\ Rank(S, t) = l + i - 1) <=> (t \in H /\ Rank(H, t) = i - 1)
          BY <1>3, Zenon
        <4> QED  BY <4>1, <4>2, Zenon
      <3> QED  BY <3>1, Zenon
    <2>3. sorted(S)[j] = sorted(H)[i]  BY <1>1, <2>2, SortedAt DEF h
    <2> QED  BY <2>1, <2>3
  <1>5. PICK T : sorted(H) \in [1 .. h -> T]  BY <1>1, SortedAt DEF h
  <1>6. PICK a \in Nat, n \in Nat : a = l + 1 /\ n = l + h  BY <1>1
  <1>7. \A i \in 1 .. h : sorted(H)[i] = sorted(S)[a + i - 1]
    <2> TAKE i \in 1 .. h
    <2>1. l + i = a + i - 1  BY <1>1, <1>6
    <2> QED  BY <1>4, <2>1
  <1>8. n = a + h - 1  BY <1>1, <1>6
  <1>9. sorted(H) = SubSeq(sorted(S), a, n)  BY <1>1, <1>5, <1>7, <1>8, PartOf
  <1> QED  BY <1>2, <1>6, <1>9 DEF l, h, H


-----------------------------------------------------------------------------
\* The map is finite, whatever was added, so that places can be counted.
CacheInv == ListInv /\ IsFiniteSet(items) /\ CacheFresh

\* Forward removes the beginning of the list, from map and cache alike.
LEMMA ForwardFresh ==
    ASSUME CacheInv, NEW n \in Nat, Forward(n) PROVE CacheFresh'
  <1> DEFINE removed == {k \in index : k < n}
             L == {t \in items : t.nonce < n}
  <1>1. \A t \in items : t.nonce \in Nat
    BY ListAssumption, CostNat DEF CacheInv, ListInv, Typed, Nonces
  <1>2. removed = nonces(L) /\ items' = items \ L
    BY DEF CacheInv, ListInv, IndexMatches, nonces, Forward
  <1>3. IsFiniteSet(L)  BY FS_Subset DEF CacheInv
  <1>4. Cardinality(removed) = Cardinality(L)
    <2>1. \A t, u \in L : t.nonce = u.nonce => t = u  BY DEF CacheInv, ListInv, IndexMatches
    <2> HIDE DEF L, removed
    <2>2. Cardinality(nonces(L)) = Cardinality(L)  BY <1>3, <2>1, NoncesCount
    <2> QED  BY <1>2, <2>2, Zenon
  <1>5. sorted(items \ L) = SubSeq(sorted(items), Cardinality(L) + 1, Cardinality(items))
    <2>1. \A t \in L, u \in items \ L : t.nonce < u.nonce  BY <1>1
    <2> HIDE DEF L
    <2> QED  BY <1>1, <2>1, SortedHigh DEF L, CacheInv
  <1>6. CASE cache = Nil  BY <1>6 DEF Forward, CacheFresh
  <1>7. CASE cache # Nil
    <2>1. cache = sorted(items) /\ Len(cache) = Cardinality(items)
      BY <1>7, SortedLen DEF CacheInv, CacheFresh
    <2>2. cache' = SubSeq(cache, Cardinality(removed) + 1, Len(cache))
      BY <1>7 DEF Forward
    <2> QED  BY <1>2, <1>4, <1>5, <2>1, <2>2, Zenon DEF CacheFresh
  <1> QED  BY <1>6, <1>7

\* Cap removes the end of it: a nonce has the place in the heap that its
\* transaction has in the map.
LEMMA CapFresh ==
    ASSUME CacheInv, NEW n \in Nat, Cap(n) PROVE CacheFresh'
  <1> DEFINE drops == {k \in index : Cardinality({m \in index : m < k}) >= n}
             L == {t \in items : Rank(items, t) < n}
             H == items \ L
  <1>1. \A t \in items : t.nonce \in Nat
    BY ListAssumption, CostNat DEF CacheInv, ListInv, Typed, Nonces
  <1>2. ASSUME NEW t \in items
        PROVE  Cardinality({m \in index : m < t.nonce}) = Rank(items, t) /\ Rank(items, t) \in Nat
    <2> DEFINE B == {u \in items : u.nonce < t.nonce}
    <2>1. {m \in index : m < t.nonce} = nonces(B)
      BY DEF CacheInv, ListInv, IndexMatches, nonces
    <2>2. IsFiniteSet(B) /\ Cardinality(B) \in Nat  BY FS_Subset, FS_CardinalityType DEF CacheInv
    <2>3. \A u, v \in B : u.nonce = v.nonce => u = v  BY DEF CacheInv, ListInv, IndexMatches
    <2> HIDE DEF B
    <2>4. Cardinality(nonces(B)) = Cardinality(B)  BY <2>2, <2>3, NoncesCount
    <2> QED  BY <2>1, <2>2, <2>4 DEF B, Rank
  <1>3. \A t \in items : t.nonce \in drops <=> t \in H
    BY <1>2 DEF CacheInv, ListInv, IndexMatches, nonces
  <1>4. drops = nonces(H)
    <2>1. drops \subseteq index /\ index = nonces(items)  BY DEF CacheInv, ListInv, IndexMatches
    <2> HIDE DEF drops
    <2> QED  BY <1>3, <2>1 DEF nonces
  <1>5. items' = L  BY <1>3 DEF Cap
  <1>6. \A t \in L, u \in H : t.nonce < u.nonce
    <2> SUFFICES ASSUME NEW t \in L, NEW u \in H, u.nonce <= t.nonce PROVE FALSE
      BY <1>1
    <2> DEFINE T == {v \in items : v.nonce < t.nonce}
               U == {v \in items : v.nonce < u.nonce}
    <2>1. U \subseteq T  BY <1>1
    <2>2. IsFiniteSet(T)  BY FS_Subset DEF CacheInv
    <2>3. Cardinality(U) <= Cardinality(T)  BY <2>1, <2>2, FS_Subset
    <2>4. Rank(items, u) <= Rank(items, t)  BY <2>3 DEF Rank
    <2>5. Rank(items, t) \in Nat /\ Rank(items, u) \in Nat  BY <1>2
    <2>6. Rank(items, t) < n /\ ~(Rank(items, u) < n)  OBVIOUS
    <2> QED  BY <2>4, <2>5, <2>6
  <1> HIDE DEF L, drops
  <1>7. L \subseteq items /\ IsFiniteSet(H)  BY FS_Subset DEF L, CacheInv
  <1>8. sorted(L) = SubSeq(sorted(items), 1, Cardinality(L))
    BY <1>1, <1>6, <1>7, SortedLow DEF CacheInv
  <1>9. Cardinality(items) - Cardinality(drops) = Cardinality(L)
    <2>1. Cardinality(drops) = Cardinality(H)
      BY <1>4, <1>7, NoncesCount DEF CacheInv, ListInv, IndexMatches
    <2>2. /\ Cardinality(L) \in Nat /\ Cardinality(H) \in Nat
          /\ Cardinality(items) = Cardinality(L) + Cardinality(H)
      BY <1>7, SplitCount DEF CacheInv
    <2> QED  BY <2>1, <2>2
  <1>10. CASE cache = Nil  BY <1>10 DEF Cap, CacheFresh
  <1>11. CASE cache # Nil
    <2>1. cache = sorted(items) /\ Len(cache) = Cardinality(items)
      BY <1>11, SortedLen DEF CacheInv, CacheFresh
    <2>2. cache' = SubSeq(cache, 1, Len(cache) - Cardinality(drops))
      BY <1>11 DEF Cap, drops
    <2> QED  BY <1>5, <1>8, <1>9, <2>1, <2>2, Zenon DEF CacheFresh
  <1> QED  BY <1>10, <1>11

\* What drop leaves of the cache is Nil, or the cache of an unchanged map.
LEMMA DropFresh ==
    ASSUME CacheFresh, NEW R, NEW I, drop(R, I) PROVE CacheFresh'
  <1>1. CASE R \cup I = {}
    <2>1. items' = items /\ cache' = cache  BY <1>1 DEF drop
    <2> QED  BY <2>1 DEF CacheFresh
  <1>2. CASE R \cup I # {}
    <2>1. cache' = Nil  BY <1>2 DEF drop
    <2> QED  BY <2>1 DEF CacheFresh
  <1> QED  BY <1>1, <1>2


\* The cache of every list of core/tx_list.go, when there is one, is the sorted
\* list of its map: Flatten never hands out what Forward, Cap, Filter, Remove,
\* Ready or Add has made stale.
THEOREM CacheIsFresh == Spec => []CacheFresh
  <1>1. Init => CacheInv
    <2>1. Init => ListInv  BY DEF Init, ListInv, Typed, IndexMatches, Covered, nonces
    <2>2. Init => IsFiniteSet(items) /\ CacheFresh  BY FS_EmptySet DEF Init, CacheFresh
    <2> QED  BY <2>1, <2>2 DEF CacheInv
  <1>2. CacheInv /\ [Next]_vars => CacheInv'
    <2> SUFFICES ASSUME CacheInv, [Next]_vars PROVE CacheInv'
      OBVIOUS
    <2>1. ListInv'  BY NextKeeps DEF CacheInv
    <2>2. ASSUME NEW t \in Tx, Add(t) PROVE IsFiniteSet(items)' /\ CacheFresh'
      <3>1. cache' = Nil  BY <2>2 DEF Add
      <3>2. items' \subseteq items \cup {t}  BY <2>2 DEF Add
      <3>3. IsFiniteSet(items \cup {t})  BY FS_AddElement DEF CacheInv
      <3> QED  BY <3>1, <3>2, <3>3, FS_Subset DEF CacheFresh
    <2>3. ASSUME NEW n \in Nat, Forward(n) PROVE items' \subseteq items /\ CacheFresh'
      BY <2>3, ForwardFresh DEF Forward
    <2>4. ASSUME NEW n \in Nat, Cap(n) PROVE items' \subseteq items /\ CacheFresh'
      BY <2>4, CapFresh DEF Cap
    <2>5. ASSUME NEW n \in Nonces, Remove(n) PROVE items' \subseteq items /\ CacheFresh'
      <3>1. PICK R, I : drop(R, I)  BY <2>5 DEF Remove
      <3> QED  BY <3>1, DropFresh DEF CacheInv, drop
    <2>6. ASSUME NEW n \in Nonces, Ready(n) PROVE items' \subseteq items /\ CacheFresh'
      BY <2>6 DEF Ready, CacheFresh
    <2>7. ASSUME NEW b \in Balances, NEW g \in Gases, Filter(b, g)
          PROVE  items' \subseteq items /\ CacheFresh'
      <3>1. PICK R, I : drop(R, I)  BY <2>7 DEF Filter
      <3> QED  BY <3>1, DropFresh DEF CacheInv, drop
    <2>8. ASSUME Flatten PROVE items' \subseteq items /\ CacheFresh'
      BY <2>8 DEF Flatten, CacheInv, CacheFresh
    <2>9. ASSUME UNCHANGED vars PROVE items' \subseteq items /\ CacheFresh'
      BY <2>9 DEF vars, CacheInv, CacheFresh
    <2>10. 0 .. (MaxNonce + 1) \subseteq Nat  BY ListAssumption
    <2>11. (IsFiniteSet(items) /\ CacheFresh)'
      BY <2>2, <2>3, <2>4, <2>5, <2>6, <2>7, <2>8, <2>9, <2>10, FS_Subset DEF Next, CacheInv
    <2> QED  BY <2>1, <2>11 DEF CacheInv
  <1>3. CacheInv => CacheFresh  BY DEF CacheInv
  <1> QED  BY <1>1, <1>2, <1>3, PTL DEF Spec
-----------------------------------------------------------------------------
(* The list of prices.                                                     *)

\* The heap pops its entries by price; copies of one transaction in their order.
Precedes(d, e) == d[1] < e[1] \/ (d[1] = e[1] /\ d[2] < e[2])

Place(e) == Priced!Cardinality({d \in entries : Precedes(d, e)})

PricedType == entries \subseteq (1 .. N) \X Nat /\ IsFiniteSet(entries) /\ all \subseteq 1 .. N

\* Every transaction of A has an entry in I.
Found(I, A) == \A t \in A : \E e \in I : e[1] = t

Sole(I) == \A d, e \in I : d[1] = e[1] => d = e

Gone(I, A) == {e \in I : e[1] \notin A}

\* As long as no transaction has come back, none has two entries, what has an
\* entry has been seen, and the counter of Removed is exact.
Counted ==
    ~returned => /\ Sole(entries)
                 /\ all \subseteq seen /\ \A e \in entries : e[1] \in seen
                 /\ stales = Cardinality(Gone(entries, all))

PricedInv == PricedType /\ Found(entries, all) /\ Counted

-----------------------------------------------------------------------------
\* PricedList counts as this module does.
LEMMA SameCount == \A S : Priced!Cardinality(S) = Cardinality(S)
  BY DEF Priced!Cardinality, Cardinality

\* A set of numbers has a least one: < is well-founded on Nat.
Less == {p \in Nat \X Nat : p[1] < p[2]}

LEMMA LeastOf ==
    ASSUME NEW T \in SUBSET Nat, T # {}
    PROVE  \E n \in T : \A k \in T : n <= k
  <1>1. IsWellFoundedOn(Less, Nat)  BY NatLessThanWellFounded DEF OpToRel, Less
  <1>2. PICK n \in T : \A k \in T : ~(<<k, n>> \in Less)  BY <1>1, WFMin, Zenon
  <1>3. \A k \in T : ~(k < n)  BY <1>2 DEF Less
  <1> QED  BY <1>3

\* Where a loop over the heap ends is the least of the places it may end at.
LEMMA MinIsLeast ==
    ASSUME NEW T \in SUBSET Nat, T # {}
    PROVE  Priced!Min(T) \in T /\ \A k \in T : Priced!Min(T) <= k
  <1>1. \E n \in T : \A k \in T : n <= k  BY LeastOf
  <1> QED  BY <1>1, Zenon DEF Priced!Min

\* The heap yields every entry once, and the cheaper ones before the others.
LEMMA HeapOrder ==
    ASSUME PricedType
    PROVE  /\ Cardinality(entries) \in Nat
           /\ DOMAIN Priced!heap = 1 .. Cardinality(entries)
           /\ Len(Priced!heap) = Cardinality(entries)
           /\ \A i \in 1 .. Cardinality(entries) : Priced!heap[i] \in entries
           /\ \A i, j \in 1 .. Cardinality(entries) : Priced!heap[i] = Priced!heap[j] => i = j
           /\ \A e \in entries : \E i \in 1 .. Cardinality(entries) : Priced!heap[i] = e
           /\ \A i, j \in 1 .. Cardinality(entries) :
                  i <= j => Priced!heap[i][1] <= Priced!heap[j][1]
  <1> DEFINE n == Cardinality(entries)
             B(e) == {d \in entries : Precedes(d, e)}
             r == [e \in entries |-> Place(e)]
  <1>1. n \in Nat  BY FS_CardinalityType DEF PricedType
  <1>2. ASSUME NEW e \in entries PROVE IsFiniteSet(B(e)) /\ Place(e) \in 0 .. (n - 1)
    <2>1. e[1] \in Int /\ e[2] \in Int  BY PricedAssumption DEF PricedType
    <2>2. B(e) \subseteq entries \ {e}  BY <2>1 DEF Precedes
    <2>3. IsFiniteSet(entries \ {e}) /\ Cardinality(entries \ {e}) = n - 1
      BY FS_RemoveElement DEF PricedType
    <2>4. IsFiniteSet(B(e)) /\ Cardinality(B(e)) <= n - 1  BY <2>2, <2>3, FS_Subset
    <2>5. Cardinality(B(e)) \in Nat  BY <2>4, FS_CardinalityType
    <2>6. Place(e) = Cardinality(B(e))  BY SameCount, Zenon DEF Place
    <2> QED  BY <1>1, <2>4, <2>5, <2>6
  <1>3. ASSUME NEW d \in entries, NEW e \in entries, Precedes(d, e) PROVE Place(d) < Place(e)
    <2>1. d[1] \in Int /\ d[2] \in Int /\ e[1] \in Int /\ e[2] \in Int
      BY PricedAssumption DEF PricedType
    <2>2. \A c \in entries : c[1] \in Int /\ c[2] \in Int  BY PricedAssumption DEF PricedType
    <2>3. B(d) \cup {d} \subseteq B(e)  BY <1>3, <2>1, <2>2 DEF Precedes
    <2>4. d \notin B(d)  BY <2>1 DEF Precedes
    <2>5. IsFiniteSet(B(d)) /\ IsFiniteSet(B(e))  BY <1>2
    <2>6. Cardinality(B(d) \cup {d}) = Cardinality(B(d)) + 1  BY <2>4, <2>5, FS_AddElement
    <2>7. Cardinality(B(d) \cup {d}) <= Cardinality(B(e))  BY <2>3, <2>5, FS_Subset
    <2>8. Place(d) = Cardinality(B(d)) /\ Place(e) = Cardinality(B(e))
      BY SameCount, Zenon DEF Place
    <2>9. Place(d) \in 0 .. (n - 1) /\ Place(e) \in 0 .. (n - 1)  BY <1>2
    <2> QED  BY <1>1, <2>6, <2>7, <2>8, <2>9
  <1>4. ASSUME NEW d \in entries, NEW e \in entries, d # e PROVE Precedes(d, e) \/ Precedes(e, d)
    <2>1. d = <<d[1], d[2]>> /\ e = <<e[1], e[2]>>  BY DEF PricedType
    <2>2. d[1] \in Int /\ d[2] \in Int /\ e[1] \in Int /\ e[2] \in Int
      BY PricedAssumption DEF PricedType
    <2>3. d[1] # e[1] \/ d[2] # e[2]  BY <1>4, <2>1, Zenon
    <2> QED  BY <2>2, <2>3 DEF Precedes
  <1>5. ASSUME NEW d \in entries, NEW e \in entries, Place(d) = Place(e) PROVE d = e
    <2>1. Place(d) \in 0 .. (n - 1) /\ Place(e) \in 0 .. (n - 1)  BY <1>2
    <2>2. ~(Place(d) < Place(e)) /\ ~(Place(e) < Place(d))  BY <1>1, <1>5, <2>1
    <2> QED  BY <1>3, <1>4, <2>2
  <1>6. \A k \in 0 .. (n - 1) : \E e \in entries : Place(e) = k
    <2>1. r \in [entries -> 0 .. (n - 1)]  BY <1>2
    <2>2. \A d, e \in entries : r[d] = r[e] => d = e  BY <1>5
    <2>3. \A e \in entries : r[e] = Place(e)  OBVIOUS
    <2> HIDE DEF r
    <2>4. r \in Injection(entries, 0 .. (n - 1))  BY <2>1, <2>2 DEF Injection, IsInjective
    <2>5. IsFiniteSet(0 .. (n - 1)) /\ Cardinality(0 .. (n - 1)) = n
      <3>1. 0 \in Int /\ n - 1 \in Int  BY <1>1
      <3>2. /\ IsFiniteSet(0 .. (n - 1))
            /\ Cardinality(0 .. (n - 1)) = IF 0 > n - 1 THEN 0 ELSE (n - 1) - 0 + 1
        BY <3>1, FS_Interval
      <3> QED  BY <1>1, <3>2
    <2>6. r \in Surjection(entries, 0 .. (n - 1))  BY <2>4, <2>5, FS_Injection
    <2> QED  BY <2>3, <2>6 DEF Surjection
  <1>7. Priced!heap = [i \in 1 .. n |-> CHOOSE e \in entries : Place(e) = i - 1]
    BY SameCount, Zenon DEF Priced!heap, Place, Precedes
  <1> HIDE DEF n, B, r
  <1>8. ASSUME NEW i \in 1 .. n PROVE Priced!heap[i] \in entries /\ Place(Priced!heap[i]) = i - 1
    <2>1. i - 1 \in 0 .. (n - 1)  BY <1>1
    <2>2. \E e \in entries : Place(e) = i - 1  BY <1>6, <2>1
    <2>3. Priced!heap[i] = CHOOSE e \in entries : Place(e) = i - 1  BY <1>7, Zenon
    <2> QED  BY <2>2, <2>3, Zenon
  <1>9. DOMAIN Priced!heap = 1 .. n  BY <1>7, Zenon
  <1>10. Len(Priced!heap) = n
    <2>1. Priced!heap \in [1 .. n -> entries]  BY <1>7, <1>8, <1>9, Zenon
    <2>2. Priced!heap \in Seq(entries)  BY <1>1, <2>1, SeqDef
    <2>3. Len(Priced!heap) \in Nat /\ DOMAIN Priced!heap = 1 .. Len(Priced!heap)
      BY <2>2, LenProperties
    <2> QED  BY <1>1, <1>9, <2>3
  <1>11. \A i, j \in 1 .. n : Priced!heap[i] = Priced!heap[j] => i = j
    <2> SUFFICES ASSUME NEW i \in 1 .. n, NEW j \in 1 .. n, Priced!heap[i] = Priced!heap[j]
                 PROVE  i = j
      OBVIOUS
    <2>1. Place(Priced!heap[i]) = i - 1 /\ Place(Priced!heap[j]) = j - 1  BY <1>8
    <2>2. i - 1 = j - 1  BY <2>1
    <2> QED  BY <1>1, <2>2
  <1>12. \A e \in entries : \E i \in 1 .. n : Priced!heap[i] = e
    <2> TAKE e \in entries
    <2>1. Place(e) \in 0 .. (n - 1)  BY <1>2 DEF n
    <2>2. PICK i \in 1 .. n : i - 1 = Place(e)
      <3>1. Place(e) + 1 \in 1 .. n /\ (Place(e) + 1) - 1 = Place(e)  BY <1>1, <2>1
      <3> QED  BY <3>1, Zenon
    <2>3. Priced!heap[i] \in entries /\ Place(Priced!heap[i]) = Place(e)  BY <1>8, <2>2
    <2> QED  BY <1>5, <2>3
  <1>13. \A i, j \in 1 .. n : i <= j => Priced!heap[i][1] <= Priced!heap[j][1]
    <2> SUFFICES ASSUME NEW i \in 1 .. n, NEW j \in 1 .. n, i <= j
                 PROVE  Priced!heap[i][1] <= Priced!heap[j][1]
      OBVIOUS
    <2>1. PICK d \in entries : d = Priced!heap[i] /\ Place(d) = i - 1  BY <1>8
    <2>2. PICK e \in entries : e = Priced!heap[j] /\ Place(e) = j - 1  BY <1>8
    <2>3. d[1] \in Int /\ d[2] \in Int /\ e[1] \in Int /\ e[2] \in Int
      BY PricedAssumption DEF PricedType
    <2>4. ~(Place(e) < Place(d))  BY <1>1, <2>1, <2>2
    <2>5. ~Precedes(e, d)  BY <1>3, <2>4
    <2>6. d[1] <= e[1]  BY <2>3, <2>5 DEF Precedes
    <2> QED  BY <2>1, <2>2, <2>6
  <1> QED  BY <1>1, <1>8, <1>9, <1>10, <1>11, <1>12, <1>13 DEF n

\* Popping k times yields k entries.
LEMMA PoppedCount ==
    ASSUME PricedType, NEW k \in 0 .. Cardinality(entries)
    PROVE  /\ Priced!popped(k) \subseteq entries
           /\ IsFiniteSet(Priced!popped(k)) /\ Cardinality(Priced!popped(k)) = k
  <1> DEFINE n == Cardinality(entries)
             P == Priced!popped(k)
             f == [i \in 1 .. k |-> Priced!heap[i]]
  <1>1. n \in Nat /\ k \in Nat /\ 1 .. k \subseteq 1 .. n  BY HeapOrder
  <1>2. P = {Priced!heap[i] : i \in 1 .. k}  BY DEF Priced!popped
  <1>3. \A i \in 1 .. k : Priced!heap[i] \in entries  BY <1>1, HeapOrder
  <1>4. \A i, j \in 1 .. k : Priced!heap[i] = Priced!heap[j] => i = j  BY <1>1, HeapOrder
  <1> HIDE DEF P
  <1>5. f \in [1 .. k -> P] /\ \A e \in P : \E i \in 1 .. k : f[i] = e  BY <1>2
  <1>6. \A i, j \in 1 .. k : f[i] = f[j] => i = j  BY <1>4
  <1> HIDE DEF f
  <1>7. f \in Surjection(1 .. k, P)  BY <1>5 DEF Surjection
  <1>8. f \in Injection(1 .. k, P)  BY <1>5, <1>6 DEF Injection, IsInjective
  <1>9. IsFiniteSet(1 .. k) /\ Cardinality(1 .. k) = k
    <2>1. /\ IsFiniteSet(1 .. k)
          /\ Cardinality(1 .. k) = IF 1 > k THEN 0 ELSE k - 1 + 1
      BY <1>1, FS_Interval
    <2> QED  BY <1>1, <2>1
  <1>10. IsFiniteSet(P) /\ Cardinality(P) = k  BY <1>7, <1>8, <1>9, FS_Surjection
  <1>11. P \subseteq entries  BY <1>2, <1>3
  <1> QED  BY <1>10, <1>11 DEF P

\* Each loop over the heap ends within it.
LEMMA Ends ==
    ASSUME PricedType
    PROVE  /\ \A c : Priced!discardEnd(c) \in 0 .. Cardinality(entries)
           /\ /\ Priced!topEnd \in 0 .. Cardinality(entries)
              /\ \A i \in 1 .. Priced!topEnd : Priced!heap[i][1] \notin all
           /\ \A c : LET k == Priced!capEnd(c) IN
                     /\ k \in 0 .. Cardinality(entries)
                     /\ k # Cardinality(entries) =>
                            k + 1 \in 1 .. Cardinality(entries) /\ Priced!heap[k + 1][1] >= c
  <1> DEFINE n == Cardinality(entries)
  <1>1. n \in Nat /\ DOMAIN Priced!heap = 1 .. n /\ Len(Priced!heap) = n  BY HeapOrder
  <1> HIDE DEF n
  <1>2. ASSUME NEW c PROVE Priced!discardEnd(c) \in 0 .. n
    <2> DEFINE T == {k \in 0 .. n : Priced!Cardinality(Priced!remote(Priced!popped(k))) >= c} \cup {n}
    <2>1. T \subseteq 0 .. n /\ T # {} /\ T \subseteq Nat
      <3>1. n \in T /\ T \subseteq (0 .. n) \cup {n}  OBVIOUS
      <3>2. n \in 0 .. n /\ 0 .. n \subseteq Nat  BY <1>1
      <3> HIDE DEF T
      <3> QED  BY <3>1, <3>2
    <2>2. Priced!discardEnd(c) = Priced!Min(T)  BY <1>1 DEF Priced!discardEnd
    <2> HIDE DEF T
    <2> QED  BY <2>1, <2>2, MinIsLeast
  <1>3. /\ Priced!topEnd \in 0 .. n
        /\ \A i \in 1 .. Priced!topEnd : Priced!heap[i][1] \notin all
    <2> DEFINE J == {j \in 1 .. n : Priced!heap[j][1] \in all}
               T == {i - 1 : i \in J} \cup {n}
    <2>1. T \subseteq 0 .. n /\ T # {} /\ T \subseteq Nat  BY <1>1
    <2>2. Priced!topEnd = Priced!Min(T)  BY <1>1 DEF Priced!topEnd
    <2>3. \A i \in J : i - 1 \in T  OBVIOUS
    <2> HIDE DEF T
    <2>4. Priced!topEnd \in 0 .. n /\ \A k \in T : Priced!topEnd <= k  BY <2>1, <2>2, MinIsLeast
    <2>5. ASSUME NEW i \in 1 .. Priced!topEnd PROVE Priced!heap[i][1] \notin all
      <3>1. i \in 1 .. n /\ ~(Priced!topEnd <= i - 1)  BY <1>1, <2>4
      <3>2. i \notin J  BY <2>3, <2>4, <3>1
      <3> QED  BY <3>1, <3>2
    <2> QED  BY <2>4, <2>5
  <1>4. ASSUME NEW c
        PROVE  /\ Priced!capEnd(c) \in 0 .. n
               /\ Priced!capEnd(c) # n => /\ Priced!capEnd(c) + 1 \in 1 .. n
                                          /\ Priced!heap[Priced!capEnd(c) + 1][1] >= c
    <2> DEFINE J == {j \in 1 .. n : Priced!heap[j][1] \in all /\ Priced!heap[j][1] >= c}
               T == {i - 1 : i \in J} \cup {n}
    <2>1. T \subseteq 0 .. n /\ T # {} /\ T \subseteq Nat  BY <1>1
    <2>2. Priced!capEnd(c) = Priced!Min(T)  BY <1>1 DEF Priced!capEnd
    <2>3. \A k \in T : k = n \/ \E i \in J : k = i - 1  OBVIOUS
    <2> HIDE DEF T
    <2>4. Priced!capEnd(c) \in 0 .. n /\ Priced!capEnd(c) \in T  BY <2>1, <2>2, MinIsLeast
    <2>5. CASE Priced!capEnd(c) # n
      <3>1. PICK i \in J : Priced!capEnd(c) = i - 1  BY <2>3, <2>4, <2>5
      <3>2. Priced!capEnd(c) + 1 = i  BY <1>1, <3>1
      <3> QED  BY <2>4, <3>2
    <2> QED  BY <2>4, <2>5
  <1> QED  BY <1>2, <1>3, <1>4, Zenon DEF n

\* What Discard and Cap leave: every transaction that stays keeps its entry, and
\* the counter goes down by the stale entries met.
LEMMA Popping ==
    ASSUME PricedInv, NEW k \in 0 .. Cardinality(entries)
    PROVE  LET P    == Priced!popped(k)
               live == all \ {e[1] : e \in Priced!remote(P)}
           IN  /\ Priced!left(k) \subseteq entries
               /\ Found(Priced!left(k), live)
               /\ ~returned => Cardinality(Gone(Priced!left(k), live))
                                 = stales - Cardinality(Priced!stale(P))
  <1> DEFINE P == Priced!popped(k)
             S == Priced!stale(P)
             R == Priced!remote(P)
             live == all \ {e[1] : e \in R}
             rest == Priced!left(k)
  <1>1. P \subseteq entries /\ IsFiniteSet(entries)  BY PoppedCount DEF PricedInv, PricedType
  <1>2. rest = entries \ (S \cup R)  BY DEF Priced!left
  <1>3. S = {e \in P : e[1] \notin all}  BY DEF Priced!stale
  <1>4. R \subseteq P /\ \A e \in R : e[1] \in all  BY DEF Priced!remote
  <1> HIDE DEF rest, S, R, P
  <1>5. Found(rest, live)
    <2> SUFFICES ASSUME NEW t \in live PROVE \E e \in rest : e[1] = t
      BY DEF Found
    <2>1. PICK e \in entries : e[1] = t  BY DEF PricedInv, Found
    <2>2. e \notin S /\ e \notin R  BY <1>3, <2>1
    <2> QED  BY <1>2, <2>1, <2>2
  <1>6. ASSUME ~returned PROVE Cardinality(Gone(rest, live)) = stales - Cardinality(S)
    <2> DEFINE G == Gone(entries, all)
    <2>1. Sole(entries) /\ stales = Cardinality(G)  BY <1>6 DEF PricedInv, Counted
    <2>2. S \subseteq G  BY <1>1, <1>3 DEF Gone
    <2>3. ASSUME NEW e PROVE e \in Gone(rest, live) <=> e \in G \ S
      <3>1. CASE e \in rest /\ e[1] \in all
        <4>1. ASSUME NEW d \in R PROVE d[1] # e[1]
          <5>1. d \in entries /\ e \in entries /\ e \notin R  BY <1>1, <1>2, <1>4, <3>1
          <5> QED  BY <2>1, <5>1 DEF Sole
        <4> QED  BY <3>1, <4>1 DEF Gone
      <3>2. CASE e \in rest /\ e[1] \notin all  BY <1>2, <3>2 DEF Gone
      <3>3. CASE e \notin rest
        <4>1. e \in G => e \in S  BY <1>2, <1>4, <3>3 DEF Gone
        <4> QED  BY <3>3, <4>1 DEF Gone
      <3> QED  BY <3>1, <3>2, <3>3
    <2>4. PICK D : D = G \ S /\ Gone(rest, live) = D  BY <2>3
    <2>5. IsFiniteSet(G)  BY <1>1, FS_Subset DEF Gone
    <2> HIDE DEF G
    <2>6. /\ Cardinality(S) \in Nat /\ Cardinality(D) \in Nat
          /\ Cardinality(G) = Cardinality(S) + Cardinality(D)
      BY <2>2, <2>4, <2>5, SplitCount
    <2>7. Cardinality(Gone(rest, live)) = Cardinality(G) - Cardinality(S)
      <3>1. Cardinality(D) = Cardinality(G) - Cardinality(S)  BY <2>6
      <3> QED  BY <2>4, <3>1, Zenon
    <2> QED  BY <2>1, <2>7, Zenon
  <1> QED  BY <1>2, <1>5, <1>6 DEF rest, S, R, P

\* Put adds an entry that was not there.
LEMMA PutAdds ==
    ASSUME NEW I, IsFiniteSet(I), NEW t \in 1 .. N,
           Cardinality(Priced!copies(I, t)) < MaxCopies
    PROVE  \E k \in Nat : <<t, k>> \notin I /\ Priced!Put(I, t) = I \cup {<<t, k>>}
  <1> DEFINE m == N + MaxCopies
             C == Priced!copies(I, t)
             T == {k \in 1 .. m : <<t, k>> \notin I}
  <1>1. m \in Nat /\ m >= MaxCopies  BY PricedAssumption
  <1>2. C = {e \in I : e[1] = t} /\ IsFiniteSet(C) /\ Cardinality(C) \in Nat
    BY FS_Subset, FS_CardinalityType DEF Priced!copies
  <1>3. T # {}
    <2> SUFFICES ASSUME T = {} PROVE FALSE  OBVIOUS
    <2> DEFINE f == [k \in 1 .. m |-> <<t, k>>]
    <2> HIDE DEF m
    <2> HIDE DEF C
    <2>1. \A k \in 1 .. m : <<t, k>> \in I  OBVIOUS
    <2>2. f \in [1 .. m -> C]  BY <1>2, <2>1
    <2>3. \A j, k \in 1 .. m : f[j] = f[k] => j = k  OBVIOUS
    <2> HIDE DEF f
    <2>4. f \in Injection(1 .. m, C)  BY <2>2, <2>3 DEF Injection, IsInjective
    <2>5. Cardinality(1 .. m) <= Cardinality(C)  BY <1>2, <2>4, FS_Injection
    <2>6. Cardinality(1 .. m) = IF 1 > m THEN 0 ELSE m - 1 + 1  BY <1>1, FS_Interval
    <2>7. m <= Cardinality(C)  BY <1>1, <2>5, <2>6
    <2>8. Cardinality(C) < MaxCopies  BY DEF C
    <2> QED  BY <1>1, <1>2, <2>7, <2>8, PricedAssumption
  <1>4. PICK k \in T : \A j \in T : k <= j
    <2>1. T \subseteq Nat  BY <1>1
    <2> HIDE DEF T
    <2> QED  BY <1>3, <2>1, LeastOf
  <1>5. \A j \in 1 .. (k - 1) : <<t, j>> \in I
    <2> SUFFICES ASSUME NEW j \in 1 .. (k - 1), j \notin {i \in 1 .. m : <<t, i>> \in I} PROVE FALSE
      OBVIOUS
    <2>1. j \in T /\ j < k  BY <1>1
    <2> QED  BY <1>1, <1>4, <2>1
  <1> DEFINE W(i) == <<t, i>> \notin I /\ \A j \in 1 .. (i - 1) : <<t, j>> \in I
             c == CHOOSE i \in 1 .. m : W(i)
  <1>6. W(k) /\ k \in 1 .. m  BY <1>5
  <1> HIDE DEF W
  <1>7. c \in 1 .. m /\ W(c)  BY <1>6, Zenon
  <1>8. Priced!Put(I, t) = I \cup {<<t, c>>}  BY Zenon DEF Priced!Put, W
  <1> HIDE DEF c
  <1>9. <<t, c>> \notin I /\ c \in Nat  BY <1>1, <1>7 DEF W
  <1> QED  BY <1>8, <1>9

\* A transaction that enters the pool is found in the heap, and the others as before.
LEMMA Adding ==
    ASSUME NEW I, I \subseteq (1 .. N) \X Nat, IsFiniteSet(I), NEW A, Found(I, A),
           NEW t \in 1 .. N, t \notin A, Cardinality(Priced!copies(I, t)) < MaxCopies
    PROVE  LET J == Priced!Put(I, t) IN
           /\ J \subseteq (1 .. N) \X Nat /\ IsFiniteSet(J)
           /\ Found(J, A \cup {t})
           /\ \A e \in J : e \in I \/ e[1] = t
           /\ (\A e \in I : e[1] # t) =>
                 /\ Sole(I) => Sole(J)
                 /\ Gone(J, A \cup {t}) = Gone(I, A)
  <1> DEFINE J == Priced!Put(I, t)
  <1>1. PICK k \in Nat : <<t, k>> \notin I /\ J = I \cup {<<t, k>>}  BY PutAdds
  <1> HIDE DEF J
  <1>2. PICK n \in (1 .. N) \X Nat : n = <<t, k>> /\ n[1] = t
    <2>1. <<t, k>> \in (1 .. N) \X Nat /\ <<t, k>>[1] = t  OBVIOUS
    <2> QED  BY <2>1, Zenon
  <1>3. J = I \cup {n}  BY <1>1, <1>2
  <1>4. IsFiniteSet(J)  BY <1>3, FS_AddElement
  <1>5. Found(J, A \cup {t})  BY <1>2, <1>3 DEF Found
  <1>6. ASSUME \A e \in I : e[1] # t, Sole(I) PROVE Sole(J)  BY <1>2, <1>3, <1>6 DEF Sole
  <1>7. ASSUME \A e \in I : e[1] # t PROVE Gone(J, A \cup {t}) = Gone(I, A)
    BY <1>2, <1>3, <1>7 DEF Gone
  <1>8. J \subseteq (1 .. N) \X Nat /\ \A e \in J : e \in I \/ e[1] = t  BY <1>2, <1>3
  <1> QED  BY <1>4, <1>5, <1>6, <1>7, <1>8 DEF J

-----------------------------------------------------------------------------
\* A transaction that enters keeps the count: the entry is live, and no other
\* entry is its own unless it has been in the pool before.
LEMMA EntersKeeps ==
    ASSUME NEW I, I \subseteq entries, NEW A, A \subseteq all, NEW t \in 1 .. N, PricedInv,
           Found(I, A), t \notin all, Cardinality(Priced!copies(entries, t)) < MaxCopies,
           ~returned => stales' = Cardinality(Gone(I, A)),
           entries' = Priced!Put(I, t), all' = A \cup {t}, seen' = seen \cup {t},
           returned' = (returned \/ t \in seen)
    PROVE  PricedInv'
  <1> DEFINE C == Priced!copies(entries, t)
  <1>1. Cardinality(Priced!copies(I, t)) < MaxCopies
    <2>1. IsFiniteSet(C) /\ Cardinality(C) \in Nat
      BY FS_Subset, FS_CardinalityType DEF Priced!copies, PricedInv, PricedType
    <2>2. Priced!copies(I, t) \subseteq C  BY DEF Priced!copies
    <2> HIDE DEF C
    <2>3. /\ Cardinality(Priced!copies(I, t)) <= Cardinality(C)
          /\ Cardinality(Priced!copies(I, t)) \in Nat
      BY <2>1, <2>2, FS_Subset, FS_CardinalityType
    <2>4. Cardinality(C) < MaxCopies  BY DEF C
    <2> QED  BY <2>1, <2>3, <2>4, PricedAssumption
  <1>2. I \subseteq (1 .. N) \X Nat /\ IsFiniteSet(I) /\ A \subseteq 1 .. N
    BY FS_Subset DEF PricedInv, PricedType
  <1>3. t \notin A  OBVIOUS
  <1>4. /\ entries' \subseteq (1 .. N) \X Nat /\ IsFiniteSet(entries')
        /\ Found(entries', all')
        /\ \A e \in entries' : e \in I \/ e[1] = t
        /\ (\A e \in I : e[1] # t) =>
              /\ Sole(I) => Sole(entries')
              /\ Gone(entries', all') = Gone(I, A)
    BY <1>1, <1>2, <1>3, Adding
  <1>5. PricedType'  BY <1>2, <1>4 DEF PricedType
  <1>6. Found(entries, all)'  BY <1>4 DEF Found
  <1>7. ASSUME ~returned'
        PROVE  /\ Sole(entries') /\ all' \subseteq seen' /\ \A e \in entries' : e[1] \in seen'
               /\ stales' = Cardinality(Gone(entries', all'))
    <2>1. ~returned /\ t \notin seen  BY <1>7, Zenon
    <2>2. Sole(entries) /\ all \subseteq seen /\ \A e \in entries : e[1] \in seen
      BY <2>1 DEF PricedInv, Counted
    <2>3. Sole(I) /\ \A e \in I : e[1] # t /\ e[1] \in seen  BY <2>1, <2>2 DEF Sole
    <2>4. Sole(entries') /\ Gone(entries', all') = Gone(I, A)  BY <1>4, <2>3
    <2>5. all' \subseteq seen'  BY <2>2
    <2>6. \A e \in entries' : e[1] \in seen'  BY <1>4, <2>3
    <2> QED  BY <2>1, <2>4, <2>5, <2>6
  <1>8. Counted'  BY <1>7, Zenon DEF Counted, Sole, Gone
  <1> QED  BY <1>5, <1>6, <1>8 DEF PricedInv

\* Shrinking the heap and the pool keeps the rest of the invariant.
LEMMA LeavesKeep ==
    ASSUME PricedInv, entries' \subseteq entries, all' \subseteq all,
           Found(entries', all'), UNCHANGED <<seen, returned>>,
           ~returned => stales' = Cardinality(Gone(entries', all'))
    PROVE  PricedInv'
  <1>1. PricedType'  BY FS_Subset DEF PricedInv, PricedType
  <1>2. Found(entries, all)'  BY DEF Found
  <1>3. ASSUME ~returned
        PROVE  /\ Sole(entries') /\ all' \subseteq seen /\ \A e \in entries' : e[1] \in seen
               /\ stales' = Cardinality(Gone(entries', all'))
    BY <1>3 DEF PricedInv, Counted, Sole
  <1>4. Counted'  BY <1>3, Zenon DEF Counted, Sole, Gone
  <1> QED  BY <1>1, <1>2, <1>4 DEF PricedInv

\* Removed counts the one entry of the transaction, or collects what is left.
LEMMA DropKeeps ==
    ASSUME PricedInv, NEW t \in 1 .. N, Priced!Drop(t) PROVE PricedInv'
  <1> DEFINE r == Priced!Removed(entries, stales, all \ {t})
  <1>1. /\ t \in all /\ all' = all \ {t} /\ entries' = r.items /\ stales' = r.stales
        /\ seen' = seen /\ returned' = returned
    BY Zenon DEF Priced!Drop
  <1>2. \/ entries' = entries /\ stales' = stales + 1
        \/ entries' = all' \X {1} /\ stales' = 0
    BY <1>1 DEF Priced!Removed
  <1>3. CASE entries' = entries /\ stales' = stales + 1
    <2>1. Found(entries', all')  BY <1>1, <1>3 DEF PricedInv, Found
    <2>2. ASSUME ~returned PROVE stales' = Cardinality(Gone(entries', all'))
      <3>1. Sole(entries) /\ stales = Cardinality(Gone(entries, all))
        BY <2>2 DEF PricedInv, Counted
      <3>2. PICK e \in entries : e[1] = t  BY <1>1 DEF PricedInv, Found
      <3>3. Gone(entries', all') = Gone(entries, all) \cup {e}
        BY <1>1, <1>3, <3>1, <3>2 DEF Gone, Sole
      <3>4. e \notin Gone(entries, all)  BY <1>1, <3>2 DEF Gone
      <3>5. IsFiniteSet(Gone(entries, all))  BY FS_Subset DEF Gone, PricedInv, PricedType
      <3>6. Cardinality(Gone(entries', all')) = Cardinality(Gone(entries, all)) + 1
        BY <3>3, <3>4, <3>5, FS_AddElement
      <3> QED  BY <1>3, <3>1, <3>6
    <2> QED  BY <1>1, <1>3, <2>1, <2>2, LeavesKeep
  <1>4. CASE entries' = all' \X {1} /\ stales' = 0
    <2>1. all' \subseteq 1 .. N  BY <1>1 DEF PricedInv, PricedType
    <2>2. IsFiniteSet(all')
      <3>1. 1 \in Int /\ N \in Int  BY PricedAssumption
      <3>2. IsFiniteSet(1 .. N)  BY <3>1, FS_Interval
      <3> QED  BY <2>1, <3>2, FS_Subset
    <2>3. IsFiniteSet(entries')
      <3>1. IsFiniteSet({1})  BY FS_Singleton
      <3>2. IsFiniteSet(all' \X {1})  BY <2>2, <3>1, FS_Product, Zenon
      <3> QED  BY <1>4, <3>2, Zenon
    <2>4. PricedType'
      <3>1. all' \X {1} \subseteq (1 .. N) \X Nat
        <4> SUFFICES ASSUME NEW u \in all' PROVE <<u, 1>> \in (1 .. N) \X Nat
          OBVIOUS
        <4>1. u \in 1 .. N /\ 1 \in Nat  BY <2>1
        <4> QED  BY <4>1
      <3> QED  BY <1>4, <2>1, <2>3, <3>1, Zenon DEF PricedType
    <2>5. Found(entries, all)'
      <3> SUFFICES ASSUME NEW u \in all' PROVE \E e \in entries' : e[1] = u
        BY DEF Found
      <3>1. <<u, 1>> \in entries' /\ <<u, 1>>[1] = u  BY <1>4
      <3> QED  BY <3>1, Zenon
    <2>6. \A e \in entries' : e[1] \in all' /\ e = <<e[1], 1>>  BY <1>4
    <2>7. Sole(entries')  BY <2>6, Zenon DEF Sole
    <2>8. Gone(entries', all') = {}  BY <2>6 DEF Gone
    <2>9. ASSUME ~returned
          PROVE  /\ all' \subseteq seen /\ \A e \in entries' : e[1] \in seen
                 /\ stales' = Cardinality(Gone(entries', all'))
      <3>1. all \subseteq seen  BY <2>9 DEF PricedInv, Counted
      <3>2. stales' = Cardinality(Gone(entries', all'))  BY <1>4, <2>8, FS_EmptySet
      <3> QED  BY <1>1, <2>6, <3>1, <3>2
    <2>10. Counted'  BY <1>1, <2>7, <2>9, Zenon DEF Counted, Sole, Gone
    <2> QED  BY <2>4, <2>5, <2>10 DEF PricedInv
  <1> QED  BY <1>2, <1>3, <1>4

\* Underpriced pops nothing but stale entries, and counts each.
LEMMA RefuseKeeps ==
    ASSUME PricedInv, NEW t \in 1 .. N, Priced!Refuse(t) PROVE PricedInv'
  <1> DEFINE k == Priced!topEnd
             P == Priced!popped(k)
  <1>1. /\ entries' = entries \ P /\ stales' = stales - k
        /\ all' = all /\ seen' = seen /\ returned' = returned
    BY Zenon DEF Priced!Refuse
  <1>2. k \in 0 .. Cardinality(entries)  BY Ends DEF PricedInv
  <1>3. \A e \in P : e[1] \notin all  BY Ends DEF PricedInv, Priced!popped
  <1>4. P \subseteq entries /\ Cardinality(P) = k  BY <1>2, PoppedCount DEF PricedInv
  <1> HIDE DEF P
  <1>5. Found(entries', all')  BY <1>1, <1>3 DEF PricedInv, Found
  <1>6. ASSUME ~returned PROVE stales' = Cardinality(Gone(entries', all'))
    <2> DEFINE G == Gone(entries, all)
    <2>1. stales = Cardinality(G)  BY <1>6 DEF PricedInv, Counted
    <2>2. P \subseteq G /\ Gone(entries', all') = G \ P  BY <1>1, <1>3, <1>4 DEF Gone
    <2> DEFINE D == G \ P
    <2>3. IsFiniteSet(G)  BY FS_Subset DEF Gone, PricedInv, PricedType
    <2> HIDE DEF G
    <2>4. /\ Cardinality(P) \in Nat /\ Cardinality(D) \in Nat
          /\ Cardinality(G) = Cardinality(P) + Cardinality(D)
      BY <2>2, <2>3, SplitCount
    <2>5. Cardinality(Gone(entries', all')) = Cardinality(D)  BY <2>2, Zenon
    <2> HIDE DEF D
    <2>6. Cardinality(D) = Cardinality(G) - Cardinality(P)  BY <2>3, <2>4
    <2> QED  BY <1>1, <1>4, <2>1, <2>5, <2>6, Zenon
  <1> QED  BY <1>1, <1>5, <1>6, LeavesKeep

\* Every use that the pool makes of the list keeps the invariant.
LEMMA PricedKeeps ==
    ASSUME PricedInv, Priced!Next PROVE PricedInv'
  <1>1. ASSUME NEW t \in 1 .. N, Priced!Add(t) PROVE PricedInv'
    <2>1. t \notin all /\ Cardinality(Priced!copies(entries, t)) < MaxCopies
      BY <1>1, SameCount, Zenon DEF Priced!Add, Priced!Fresh
    <2>2. /\ all' = all \cup {t} /\ entries' = Priced!Put(entries, t) /\ seen' = seen \cup {t}
          /\ returned' = (returned \/ t \in seen) /\ stales' = stales
      BY <1>1, Zenon DEF Priced!Add
    <2>3. ~returned => stales' = Cardinality(Gone(entries, all))
      BY <2>2, Zenon DEF PricedInv, Counted
    <2>4. Found(entries, all)  BY DEF PricedInv
    <2> QED  BY <2>1, <2>2, <2>3, <2>4, EntersKeeps
  <1>2. ASSUME NEW t \in 1 .. N, Priced!Replace(t) PROVE PricedInv'
    <2> DEFINE k == Priced!discardEnd(Cardinality(all) - (Limit - 1))
               P == Priced!popped(k)
               live == all \ {e[1] : e \in Priced!remote(P)}
    <2>1. t \notin all /\ Cardinality(Priced!copies(entries, t)) < MaxCopies
      BY <1>2, SameCount, Zenon DEF Priced!Replace, Priced!Fresh
    <2>2. /\ all' = live \cup {t} /\ entries' = Priced!Put(Priced!left(k), t)
          /\ stales' = stales - Cardinality(Priced!stale(P))
          /\ seen' = seen \cup {t} /\ returned' = (returned \/ t \in seen)
      BY <1>2, SameCount, Zenon DEF Priced!Replace
    <2>3. k \in 0 .. Cardinality(entries)  BY Ends DEF PricedInv
    <2> HIDE DEF k
    <2>4. /\ Priced!left(k) \subseteq entries /\ Found(Priced!left(k), live)
          /\ ~returned => Cardinality(Gone(Priced!left(k), live))
                            = stales - Cardinality(Priced!stale(P))
      BY <2>3, Popping
    <2>5. live \subseteq all  OBVIOUS
    <2> HIDE DEF live, P
    <2>6. ~returned => stales' = Cardinality(Gone(Priced!left(k), live))  BY <2>2, <2>4, Zenon
    <2> QED  BY <2>1, <2>2, <2>4, <2>5, <2>6, EntersKeeps
  <1>3. ASSUME NEW c \in 1 .. (N + 1), Priced!Cap(c) PROVE PricedInv'
    <2> DEFINE k == Priced!capEnd(c)
               P == Priced!popped(k)
               live == all \ {e[1] : e \in Priced!remote(P)}
    <2>1. /\ all' = live /\ entries' = Priced!left(k)
          /\ stales' = stales - Cardinality(Priced!stale(P))
          /\ seen' = seen /\ returned' = returned
      BY <1>3, SameCount, Zenon DEF Priced!Cap
    <2>2. k \in 0 .. Cardinality(entries)  BY Ends DEF PricedInv
    <2> HIDE DEF k
    <2>3. /\ Priced!left(k) \subseteq entries /\ Found(Priced!left(k), live)
          /\ ~returned => Cardinality(Gone(Priced!left(k), live))
                            = stales - Cardinality(Priced!stale(P))
      BY <2>2, Popping
    <2>4. live \subseteq all  OBVIOUS
    <2> HIDE DEF live, P
    <2>5. ~returned => stales' = Cardinality(Gone(entries', all'))  BY <2>1, <2>3, Zenon
    <2>6. UNCHANGED <<seen, returned>>  BY <2>1
    <2>7. entries' \subseteq entries /\ all' \subseteq all /\ Found(entries', all')
      BY <2>1, <2>3, <2>4, Zenon
    <2> QED  BY <2>5, <2>6, <2>7, LeavesKeep
  <1> QED  BY <1>1, <1>2, <1>3, DropKeeps, RefuseKeeps DEF Priced!Next

\* The list of prices alone, as the list of an account next to it does nothing.
LEMMA PricedAlways == MCSpec => []PricedInv
  <1>1. MCInit => PricedInv
    BY FS_EmptySet
       DEF MCInit, Priced!Init, PricedInv, PricedType, Found, Counted, Sole, Gone
  <1>2. PricedInv /\ [MCNext]_<<vars, priced>> => PricedInv'
    <2>1. ASSUME PricedInv, UNCHANGED priced PROVE PricedInv'
      BY <2>1, Zenon DEF priced, PricedInv, PricedType, Found, Counted, Sole, Gone
    <2> QED  BY <2>1, PricedKeeps DEF MCNext
  <1> QED  BY <1>1, <1>2, PTL DEF MCSpec

\* No sequence of Put, Removed, Underpriced, Discard and Cap loses a transaction that
\* is in the pool, and the counter of stale entries is exact until one comes back.
THEOREM PricesAreTracked == MCSpec => []Tracked
  <1>1. PricedInv => Tracked
    <2> SUFFICES ASSUME PricedInv PROVE Tracked
      OBVIOUS
    <2>1. \A t \in all : Priced!copies(entries, t) # {}
      BY DEF PricedInv, Found, Priced!copies
    <2>2. ASSUME ~returned PROVE Cardinality(entries) - stales = Cardinality(all)
      <3> DEFINE G == Gone(entries, all)
                 L == entries \ G
                 f == [e \in L |-> e[1]]
      <3>1. Sole(entries) /\ stales = Cardinality(G)  BY <2>2 DEF PricedInv, Counted
      <3>2. G \subseteq entries /\ IsFiniteSet(entries)  BY DEF Gone, PricedInv, PricedType
      <3>3. L = {e \in entries : e[1] \in all}  BY DEF Gone
      <3> HIDE DEF G
      <3>4. /\ IsFiniteSet(L) /\ Cardinality(G) \in Nat /\ Cardinality(L) \in Nat
            /\ Cardinality(entries) = Cardinality(G) + Cardinality(L)
        BY <3>2, SplitCount
      <3> HIDE DEF L
      <3>5. f \in [L -> all] /\ \A t \in all : \E e \in L : f[e] = t
        BY <3>3 DEF PricedInv, Found
      <3>6. \A d, e \in L : f[d] = f[e] => d = e  BY <3>1, <3>3 DEF Sole
      <3> HIDE DEF f
      <3>7. f \in Surjection(L, all)  BY <3>5 DEF Surjection
      <3>8. f \in Injection(L, all)  BY <3>5, <3>6 DEF Injection, IsInjective
      <3>9. Cardinality(all) = Cardinality(L)  BY <3>4, <3>7, <3>8, FS_Surjection
      <3> QED  BY <3>1, <3>4, <3>9
    <2> QED  BY <2>1, <2>2, SameCount, Zenon DEF Tracked, Priced!Tracked
  <1> QED  BY <1>1, PricedAlways, PTL

\* SetGasPrice leaves no cheaper transaction of a remote account: one that is left has an
\* entry that Cap has not popped, behind a live one that is not below the price.
THEOREM CapClearsPool == MCSpec => CapClears
  <1> DEFINE Clears == \A threshold \in 1 .. (N + 1) :
                 Priced!Cap(threshold) => \A t \in all' : t \in Local \/ t >= threshold
  <1>1. ASSUME PricedInv PROVE Clears
    <2> SUFFICES ASSUME NEW c \in 1 .. (N + 1), Priced!Cap(c), NEW t \in all', t \notin Local
                 PROVE  t >= c
      OBVIOUS
    <2> DEFINE n == Cardinality(entries)
               k == Priced!capEnd(c)
               P == Priced!popped(k)
    <2>1. all' = all \ {e[1] : e \in Priced!remote(P)}  BY Zenon DEF Priced!Cap
    <2>2. PICK e \in entries : e[1] = t  BY <1>1, <2>1 DEF PricedInv, Found
    <2>3. e \notin P  BY <2>1, <2>2 DEF Priced!remote
    <2>4. /\ k \in 0 .. n
          /\ k # n => k + 1 \in 1 .. n /\ Priced!heap[k + 1][1] >= c
      BY <1>1, Ends DEF PricedInv
    <2>5. n \in Nat  BY <1>1, HeapOrder DEF PricedInv
    <2>6. PICK i \in 1 .. n : Priced!heap[i] = e  BY <1>1, HeapOrder DEF PricedInv
    <2>7. i \notin 1 .. k  BY <2>3, <2>6 DEF Priced!popped
    <2> HIDE DEF k, n
    <2>8. k # n /\ k + 1 <= i  BY <2>4, <2>5, <2>7
    <2>9. Priced!heap[k + 1][1] <= Priced!heap[i][1]
      BY <1>1, <2>4, <2>8, HeapOrder DEF PricedInv, n
    <2>10. /\ Priced!heap[k + 1] \in entries /\ \A d \in entries : d[1] \in Int
      BY <1>1, <2>4, <2>8, HeapOrder, PricedAssumption DEF PricedInv, PricedType, n
    <2> QED  BY <2>2, <2>4, <2>6, <2>8, <2>9, <2>10, PricedAssumption
  <1>2. PricedInv => [Clears]_priced  BY <1>1
  <1> HIDE DEF Clears
  <1>3. MCSpec => [][Clears]_priced  BY <1>2, PricedAlways, PTL
  <1> QED  BY <1>3, Zenon DEF CapClears, Priced!CapClears, Priced!vars, priced, Clears
=============================================================================
