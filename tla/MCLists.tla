------------------------------- MODULE MCLists -------------------------------
(***************************************************************************)
(* The two data structures of core/tx_list.go for TLC: the list of one     *)
(* account (TxList) and the list of prices of the pool (PricedList).  They *)
(* share nothing, so that one is explored while the other is still empty.  *)
(***************************************************************************)
EXTENDS TxList

CONSTANTS N, Local, Limit, MaxCopies

ASSUME PricedAssumption == N \in Nat /\ MaxCopies \in Nat

VARIABLES all, entries, stales, seen, returned

priced == <<all, entries, stales, seen, returned>>

Priced == INSTANCE PricedList WITH items <- entries

MCInit == Init /\ Priced!Init

MCNext ==
    \/ Priced!Init /\ Next /\ UNCHANGED priced
    \/ Init /\ Priced!Next /\ UNCHANGED vars

MCSpec == MCInit /\ [][MCNext]_<<vars, priced>>

-----------------------------------------------------------------------------
\* Every transaction of the pool has an entry in the heap of prices: lazy
\* removal never loses one that is still there or came back; and the heap's size
\* less the stale entries is the number of transactions, as long as none has come
\* back.
Tracked == Priced!Tracked

\* After SetGasPrice no cheaper transaction of a remote account is left,
\* whatever stale entries the heap holds.
CapClears == Priced!CapClears

=============================================================================
