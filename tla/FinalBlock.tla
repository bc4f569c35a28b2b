----------------------------- MODULE FinalBlock -----------------------------
(***************************************************************************)
(* Which block wins a vote: verify.ValidationFinalBlockHash, evaluated by  *)
(* the fairnode when it counts and by every miner when it gets the voters, *)
(* and Deb.SelectWinningBlock, by which a miner picks the block it votes   *)
(* for.  The first walks over a Go map, so each evaluation meets the       *)
(* blocks in an order of its own.                                          *)
(*                                                                         *)
(* The headers of one vote have one number; a sealer makes one block, so a *)
(* header is named by its coinbase.                                        *)
(***************************************************************************)
EXTENDS Integers

CONSTANTS
    Coinbase,               \* the sealers' addresses, as numbers
    Evaluator,              \* who evaluates: the fairnode and the miners
    Numbers,                \* bound: block numbers
    MaxCount,               \* bound: ballots for one block
    MaxField,               \* bound: difficulty and nonce
    NoBlock                 \* the zero voteRes: top.Header == nil

ASSUME CoinbaseAssumption == Coinbase \subseteq Nat /\ NoBlock \notin Coinbase
ASSUME FieldAssumption == Numbers \subseteq Nat /\ MaxCount \in Nat /\ MaxField \in Nat

VARIABLES
    number,                 \* header.Number of all blocks
    Difficulty, Nonce,      \* header fields, by block
    Count,                  \* voteRes.Count; 0 for a block nobody voted for
    left,                   \* by evaluation: the map entries not visited yet
    top                     \* by evaluation: the best entry so far

headers == <<number, Difficulty, Nonce, Count>>
vars == <<headers, left, top>>

\* The keys of voteResult.
voteResult == {c \in Coinbase : Count[c] > 0}

\* Variants: the nonce is forgotten; a later entry wins a tie of the counts.
KeepAnyNonce(t, c) ==
    \/ Count[t] < Count[c]
    \/ Count[t] = Count[c] /\ Difficulty[t] <= Difficulty[c]
KeepLast(t, c) == Count[t] <= Count[c]

\* The loop body: does entry c replace t?  Both parities compare alike.
Replaces(t, c) ==
    \/ Count[t] < Count[c]
    \/ /\ Count[t] = Count[c]
       /\ \/ Difficulty[t] < Difficulty[c]
          \/ /\ Difficulty[t] = Difficulty[c]
             /\ \/ Nonce[t] < Nonce[c]
                \/ /\ Nonce[t] = Nonce[c]
                   /\ IF number % 2 = 0 THEN t < c ELSE t < c

\* Variant: the lower nonce is preferred.
PrefersLowNonce(p, r) ==
    \/ Difficulty[r] > Difficulty[p]
    \/ Difficulty[r] = Difficulty[p] /\ Nonce[r] < Nonce[p]

\* SelectWinningBlock(p, r): does the received block r replace p?
Prefers(p, r) ==
    \/ Difficulty[r] > Difficulty[p]
    \/ /\ Difficulty[r] = Difficulty[p]
       /\ \/ Nonce[r] > Nonce[p]
          \/ /\ Nonce[r] = Nonce[p]
             /\ IF number % 2 = 0 THEN r > p ELSE r < p

Init ==
    /\ number \in Numbers
    /\ Difficulty \in [Coinbase -> 0 .. MaxField]
    /\ Nonce \in [Coinbase -> 0 .. MaxField]
    /\ Count \in [Coinbase -> 0 .. MaxCount]
    /\ left = [e \in Evaluator |-> voteResult]
    /\ top = [e \in Evaluator |-> NoBlock]

\* One turn of the loop over voteResult, for any entry not seen yet.
Visit(e, c) ==
    /\ c \in left[e]
    /\ left' = [left EXCEPT ![e] = @ \ {c}]
    /\ top' = IF top[e] = NoBlock \/ Replaces(top[e], c)
              THEN [top EXCEPT ![e] = c] ELSE top
    /\ UNCHANGED headers

Next == \E e \in Evaluator : \E c \in left[e] : Visit(e, c)

Spec == Init /\ [][Next]_vars

-----------------------------------------------------------------------------
\* Every variable has its type.
TypeOK ==
    /\ number \in Nat
    /\ Difficulty \in [Coinbase -> Nat] /\ Nonce \in [Coinbase -> Nat]
    /\ Count \in [Coinbase -> Nat]
    /\ left \in [Evaluator -> SUBSET Coinbase]
    /\ top \in [Evaluator -> Coinbase \cup {NoBlock}]

\* The order the comment above the loop describes, but for its fourth line:
\* more votes, then higher difficulty, then higher nonce.
Criteria(c) == <<Count[c], Difficulty[c], Nonce[c]>>
Below(s, t) == \E i \in 1 .. 3 : s[i] < t[i] /\ \A j \in 1 .. i - 1 : s[j] = t[j]

\* The result of a finished evaluation is a block that was voted for and that
\* no other block surpasses, and without votes there is none.
Maximum(e) ==
    IF voteResult = {} THEN top[e] = NoBlock
    ELSE /\ top[e] \in voteResult
         /\ \A c \in voteResult : ~Below(Criteria(top[e]), Criteria(c))
EvaluationIsMaximum == \A e \in Evaluator : left[e] = {} => Maximum(e)

\* The fairnode and the miners agree on the winner of the same ballots,
\* although each walks its map in its own order.
EvaluationsAgree ==
    \A e, f \in Evaluator : left[e] = {} /\ left[f] = {} => top[e] = top[f]

\* In a round in which every block got the same number of ballots the count
\* confirms the preference the miners voted by, unless difficulty and nonce
\* are tied as well.
CountConfirmsPreference ==
    \A e \in Evaluator : left[e] = {} =>
        \A c \in voteResult : Count[c] = Count[top[e]] /\ Prefers(top[e], c)
            => Difficulty[c] = Difficulty[top[e]] /\ Nonce[c] = Nonce[top[e]]

=============================================================================
