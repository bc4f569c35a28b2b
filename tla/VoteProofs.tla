----------------------------- MODULE VoteProofs -----------------------------
(***************************************************************************)
(* Theorems about the vote of a round: about FinalBlock, for any number of *)
(* blocks, ballots and evaluations, and about LeagueGossip, by which the   *)
(* miners come to the block they vote for, for any graph of nodes, any     *)
(* number of rounds and every combination of faults.                       *)
(*                                                                         *)
(* The walk over the vote map finds the maximum in whatever order the map  *)
(* is visited: the loop invariant Best.                                    *)
(*                                                                         *)
(* A block on its way may be one of an earlier round, which the worker has *)
(* to tell from one of this round.  The invariant GInv says that           *)
(* everything on its way that carries the otprn of this round was sealed   *)
(* in it.                                                                  *)
(***************************************************************************)
EXTENDS FinalBlock, LeagueGossip, TLAPS

-----------------------------------------------------------------------------
\* Replaces is a strict total order on the blocks of a vote.
LEMMA ReplacesAsymmetric ==
    ASSUME TypeOK, NEW c \in Coinbase, NEW d \in Coinbase, Replaces(c, d)
    PROVE  ~Replaces(d, c)
BY CoinbaseAssumption DEF TypeOK, Replaces

LEMMA ReplacesTotal ==
    ASSUME TypeOK, NEW c \in Coinbase, NEW d \in Coinbase, c # d
    PROVE  Replaces(c, d) \/ Replaces(d, c)
BY CoinbaseAssumption DEF TypeOK, Replaces

LEMMA ReplacesTransitive ==
    ASSUME TypeOK, NEW b \in Coinbase, NEW c \in Coinbase, NEW d \in Coinbase,
           Replaces(b, c), Replaces(c, d)
    PROVE  Replaces(b, d)
BY CoinbaseAssumption DEF TypeOK, Replaces

\* A block that replaces another is not below it in the documented criteria.
LEMMA ReplacesRespectsCriteria ==
    ASSUME TypeOK, NEW c \in Coinbase, NEW d \in Coinbase, Replaces(c, d)
    PROVE  ~Below(Criteria(d), Criteria(c))
<1>1. Count[c] \in Nat /\ Count[d] \in Nat /\ Nonce[c] \in Nat /\ Nonce[d] \in Nat
      /\ Difficulty[c] \in Nat /\ Difficulty[d] \in Nat
  BY DEF TypeOK
<1>2. Below(Criteria(d), Criteria(c)) =>
         \/ Count[d] < Count[c]
         \/ Count[d] = Count[c] /\ Difficulty[d] < Difficulty[c]
         \/ Count[d] = Count[c] /\ Difficulty[d] = Difficulty[c] /\ Nonce[d] < Nonce[c]
  BY DEF Below, Criteria
<1> QED BY <1>1, <1>2 DEF Replaces

-----------------------------------------------------------------------------
\* The loop invariant: top is the best of the entries visited so far.
Best(e) ==
    /\ left[e] \subseteq voteResult
    /\ top[e] = NoBlock => left[e] = voteResult
    /\ top[e] # NoBlock =>
           /\ top[e] \in voteResult \ left[e]
           /\ \A c \in voteResult \ left[e] : c = top[e] \/ Replaces(c, top[e])
IInv == TypeOK /\ \A e \in Evaluator : Best(e)

LEMMA InitIInv == Init => IInv
<1> SUFFICES ASSUME Init PROVE IInv
  OBVIOUS
<1>1. TypeOK
  BY FieldAssumption DEF Init, TypeOK, voteResult
<1> QED BY <1>1 DEF Init, IInv, Best

LEMMA NextIInv == IInv /\ [Next]_vars => IInv'
<1> SUFFICES ASSUME IInv, [Next]_vars PROVE IInv'
  OBVIOUS
<1>1. ASSUME NEW e \in Evaluator, NEW c \in left[e], Visit(e, c) PROVE IInv'
  <2>1. /\ number' = number /\ Difficulty' = Difficulty /\ Nonce' = Nonce
        /\ Count' = Count
    BY <1>1 DEF Visit, headers
  <2>2. voteResult' = voteResult /\ voteResult \subseteq Coinbase
    BY <2>1 DEF voteResult
  <2>3. c \in Coinbase /\ NoBlock \notin Coinbase
    BY CoinbaseAssumption DEF IInv, TypeOK
  <2>4. TypeOK'
    BY <1>1, <2>1, <2>3 DEF IInv, TypeOK, Visit
  <2>5. ASSUME NEW g \in Evaluator PROVE Best(g)'
    <3>1. CASE g # e
      <4>1. left'[g] = left[g] /\ top'[g] = top[g]
        BY <1>1, <3>1 DEF Visit, IInv, TypeOK
      <4> QED BY <2>1, <2>2, <4>1 DEF IInv, Best, Replaces
    <3>2. CASE g = e
      <4>1. left'[e] = left[e] \ {c} /\ c \in voteResult
        BY <1>1 DEF Visit, IInv, TypeOK, Best
      <4>2. CASE top[e] = NoBlock
        <5>1. top'[e] = c
          BY <1>1, <4>2 DEF Visit, IInv, TypeOK
        <5>2. left[e] = voteResult
          BY <4>2 DEF IInv, Best
        <5> QED BY <2>2, <2>3, <3>2, <4>1, <5>1, <5>2 DEF Best
      <4>3. CASE top[e] # NoBlock
        <5>1. top[e] \in voteResult \ left[e] /\ left[e] \subseteq voteResult
          BY <4>3 DEF IInv, Best
        <5>2. \A d \in voteResult \ left[e] : d = top[e] \/ Replaces(d, top[e])
          BY <4>3 DEF IInv, Best
        <5>3. CASE Replaces(top[e], c)
          <6>1. top'[e] = c
            BY <1>1, <5>3 DEF Visit, IInv, TypeOK
          <6>2. \A d \in voteResult \ left'[e] : d = c \/ Replaces(d, c)
            BY <2>2, <2>3, <4>1, <5>1, <5>2, <5>3, ReplacesTransitive DEF IInv
          <6>3. \A d : Replaces(d, c)' <=> Replaces(d, c)
            BY <2>1 DEF Replaces
          <6> QED BY <2>2, <2>3, <3>2, <4>1, <5>1, <6>1, <6>2, <6>3 DEF Best
        <5>4. CASE ~Replaces(top[e], c)
          <6>1. top'[e] = top[e]
            BY <1>1, <4>3, <5>4 DEF Visit
          <6>2. Replaces(c, top[e])
            BY <2>2, <2>3, <5>1, <5>4, ReplacesTotal DEF IInv
          <6>3. \A d \in voteResult \ left'[e] : d = top[e] \/ Replaces(d, top[e])
            BY <4>1, <5>2, <6>2
          <6> QED BY <2>1, <2>2, <3>2, <4>1, <4>3, <5>1, <6>1, <6>3 DEF Best, Replaces
        <5> QED BY <5>3, <5>4
      <4> QED BY <4>2, <4>3
    <3> QED BY <3>1, <3>2
  <2> QED BY <2>4, <2>5 DEF IInv
<1>2. CASE UNCHANGED vars
  BY <1>2 DEF vars, headers, IInv, TypeOK, Best, voteResult, Replaces
<1> QED BY <1>1, <1>2 DEF Next

LEMMA Inductive == Spec => []IInv
BY InitIInv, NextIInv, PTL DEF Spec

-----------------------------------------------------------------------------
\* The fairnode and every miner find the same winner in the same ballots,
\* however Go orders the map they walk over.
THEOREM Agreement == Spec => []EvaluationsAgree
<1>1. IInv => EvaluationsAgree
  <2> SUFFICES ASSUME IInv, NEW e \in Evaluator, NEW f \in Evaluator,
                      left[e] = {}, left[f] = {}
               PROVE  top[e] = top[f]
    BY DEF EvaluationsAgree
  <2>1. voteResult \subseteq Coinbase /\ NoBlock \notin voteResult
    BY CoinbaseAssumption DEF voteResult
  <2>2. CASE voteResult = {}
    BY <2>2 DEF IInv, Best
  <2>3. CASE voteResult # {}
    <3>1. top[e] \in voteResult /\ top[f] \in voteResult
      BY <2>3 DEF IInv, Best
    <3>2. /\ top[f] = top[e] \/ Replaces(top[f], top[e])
          /\ top[e] = top[f] \/ Replaces(top[e], top[f])
      BY <2>1, <3>1 DEF IInv, Best
    <3> QED BY <2>1, <3>1, <3>2, ReplacesAsymmetric DEF IInv
  <2> QED BY <2>2, <2>3
<1> QED BY <1>1, Inductive, PTL

\* The winner has the most votes, among those the highest difficulty, and
\* among those the highest nonce.
THEOREM WinnerIsMaximum == Spec => []EvaluationIsMaximum
<1>1. IInv => EvaluationIsMaximum
  <2> SUFFICES ASSUME IInv, NEW e \in Evaluator, left[e] = {}
               PROVE  Maximum(e)
    BY DEF EvaluationIsMaximum
  <2>1. voteResult \subseteq Coinbase /\ NoBlock \notin voteResult
    BY CoinbaseAssumption DEF voteResult
  <2>2. CASE voteResult = {}
    BY <2>2 DEF IInv, Best, Maximum
  <2>3. CASE voteResult # {}
    <3>1. top[e] \in voteResult
      BY <2>3 DEF IInv, Best
    <3>2. \A c \in voteResult : c = top[e] \/ Replaces(c, top[e])
      BY <2>1, <3>1 DEF IInv, Best
    <3>3. ~Below(Criteria(top[e]), Criteria(top[e]))
      BY <2>1, <3>1 DEF Below, Criteria, IInv, TypeOK
    <3> QED BY <2>1, <2>3, <3>1, <3>2, <3>3, ReplacesRespectsCriteria DEF IInv, Maximum
  <2> QED BY <2>2, <2>3
<1> QED BY <1>1, Inductive, PTL

\* Where the ballots are level the fairnode's winner is the block the miners
\* preferred when they voted (SelectWinningBlock), unless difficulty and nonce
\* are level too.
THEOREM VoteConfirmsPreference == Spec => []CountConfirmsPreference
<1>1. IInv => CountConfirmsPreference
  <2> SUFFICES ASSUME IInv, NEW e \in Evaluator, left[e] = {}, NEW c \in voteResult,
                      Count[c] = Count[top[e]], Prefers(top[e], c)
               PROVE  Difficulty[c] = Difficulty[top[e]] /\ Nonce[c] = Nonce[top[e]]
    BY DEF CountConfirmsPreference
  <2>1. top[e] \in voteResult /\ (c = top[e] \/ Replaces(c, top[e]))
    BY DEF IInv, Best
  <2>2. /\ Difficulty[c] \in Nat /\ Difficulty[top[e]] \in Nat
        /\ Nonce[c] \in Nat /\ Nonce[top[e]] \in Nat /\ Count[c] \in Nat
    BY <2>1 DEF IInv, TypeOK, voteResult
  <2> QED BY <2>1, <2>2 DEF Prefers, Replaces
<1> QED BY <1>1, Inductive, PTL

-----------------------------------------------------------------------------
\* The blocks that may be on their way.
Known == {b \in Block : b.otprn < round \/ b \in made}

Counters == round \in Nat /\ nextNumber \in Nat

MadeNow == made \subseteq {b \in Block : b.otprn = round}

Preferred == possible \in [Node -> made \cup {Nil}]

Travelling ==
    /\ feed \in [Node -> Seq(Known)]
    /\ net \in [Channel -> Seq(Known)]
    /\ DOMAIN handler = Channel
    /\ \A c \in Channel : handler[c] = Free
                          \/ (\E p \in {"relay", "store"} : \E b \in Known :
                                handler[c] = [pc |-> p, block |-> b])

GInv == Counters /\ MadeNow /\ Preferred /\ Travelling

-----------------------------------------------------------------------------
\* What may be on its way may still be after a step: nothing that was sealed in
\* this round is forgotten before the round ends.
LEMMA KnownGrows ==
    ASSUME Counters, MadeNow, Counters',
           \/ round' = round /\ made \subseteq made'
           \/ round' = round + 1
    PROVE  Known \subseteq Known'
BY DEF Counters, MadeNow, Known, Block

\* Sequences over a set are sequences over a larger one.
LEMMA SeqMonotone ==
    ASSUME NEW S, NEW T, S \subseteq T
    PROVE  Seq(S) \subseteq Seq(T)
OBVIOUS

\* A step that only adds to Known keeps what travels, if it touches none of it.
LEMMA TravelKept ==
    ASSUME Travelling, Known \subseteq Known', UNCHANGED <<feed, net, handler>>
    PROVE  Travelling'
<1>1. Seq(Known) \subseteq Seq(Known')
  BY SeqMonotone
<1>2. feed' \in [Node -> Seq(Known')] /\ net' \in [Channel -> Seq(Known')]
  BY <1>1 DEF Travelling
<1>3. DOMAIN handler' = Channel
  BY DEF Travelling
<1>4. ASSUME NEW c \in Channel
      PROVE  handler'[c] = Free
             \/ (\E p \in {"relay", "store"} : \E b \in Known' :
                   handler'[c] = [pc |-> p, block |-> b])
  BY DEF Travelling
<1> QED
  BY <1>2, <1>3, <1>4 DEF Travelling, Channel, Peers, Node, Free

\* Sending a known block to all peers leaves known blocks on the channels.
LEMMA SendKnown ==
    ASSUME NEW n, NEW b \in Known, net \in [Channel -> Seq(Known)]
    PROVE  SendMakeLeagueBlock(n, b) \in [Channel -> Seq(Known)]
<1>1. \A c \in Channel : Append(net[c], b) \in Seq(Known)
  OBVIOUS
<1> QED
  BY <1>1 DEF SendMakeLeagueBlock

\* The initial state.
LEMMA GInvInit == GossipInit => GInv
<1> SUFFICES ASSUME GossipInit PROVE GInv
  OBVIOUS
<1>1. << >> \in Seq(Known)
  OBVIOUS
<1> QED
  BY <1>1 DEF GossipInit, GInv, Counters, MadeNow, Preferred, Travelling

\* Every action keeps the invariant.
LEMMA GInvNext == GInv /\ [GossipNext]_gossipVars => GInv'
<1> SUFFICES ASSUME GInv, [GossipNext]_gossipVars PROVE GInv'
  OBVIOUS
<1> USE DEF GInv
<1>1. ASSUME NEW n \in Members, takeResult(n) PROVE GInv'
  <2>1. PICK w \in Weights :
          /\ made' = made \cup {[otprn |-> round, number |-> nextNumber,
                                  coinbase |-> n, weight |-> w]}
          /\ possible' = [possible EXCEPT ![n] =
               [otprn |-> round, number |-> nextNumber, coinbase |-> n, weight |-> w]]
    BY <1>1 DEF takeResult
  <2>2. Counters' /\ MadeNow'
    BY <1>1, <2>1 DEF Counters, MadeNow, takeResult, Block
  <2>3. Preferred'
    BY <2>1 DEF Preferred, Node
  <2>4. Travelling'
    BY <1>1, <2>1, <2>2, KnownGrows, TravelKept DEF takeResult
  <2> QED
    BY <2>2, <2>3, <2>4
<1>2. ASSUME NEW n \in Members, takeBroadCast(n) PROVE GInv'
  <2>1. Counters' /\ MadeNow' /\ Preferred' /\ Known' = Known
    BY <1>2 DEF Counters, MadeNow, Preferred, Known, takeBroadCast
  <2>2. ASSUME possible[n] # Nil PROVE Append(feed[n], possible[n]) \in Seq(Known)
    <3>1. possible[n] \in Known /\ feed[n] \in Seq(Known)
      BY <2>2 DEF Preferred, MadeNow, Known, Travelling, Node
    <3> QED
      BY <3>1
  <2>3. feed' \in [Node -> Seq(Known)]
    BY <1>2, <2>2 DEF takeBroadCast, Travelling
  <2> QED
    BY <1>2, <2>1, <2>3 DEF takeBroadCast, Travelling
<1>3. ASSUME NEW n \in Node, leagueBroadCast(n) PROVE GInv'
  <2>1. Counters' /\ MadeNow' /\ Preferred' /\ Known' = Known
    BY <1>3 DEF Counters, MadeNow, Preferred, Known, leagueBroadCast
  <2>2. feed[n] \in Seq(Known) /\ feed[n] # << >>
    BY <1>3 DEF Travelling, leagueBroadCast
  <2>3. Head(feed[n]) \in Known /\ Tail(feed[n]) \in Seq(Known)
    BY <2>2
  <2>4. net' \in [Channel -> Seq(Known)]
    BY <1>3, <2>3, SendKnown DEF leagueBroadCast, Travelling
  <2>5. feed' \in [Node -> Seq(Known)]
    BY <1>3, <2>3 DEF leagueBroadCast, Travelling
  <2> QED
    BY <1>3, <2>1, <2>4, <2>5 DEF leagueBroadCast, Travelling
<1>4. ASSUME NEW c \in Channel, handleMsg(c) PROVE GInv'
  <2> DEFINE b == Head(net[c])
  <2>1. net[c] \in Seq(Known) /\ net[c] # << >> /\ c[2] \in Node
    BY <1>4 DEF Travelling, handleMsg, Channel, Peers
  <2>2. b \in Known /\ Tail(net[c]) \in Seq(Known)
    BY <2>1
  <2>3. Counters' /\ MadeNow' /\ Known' = Known
    BY <1>4 DEF Counters, MadeNow, Known, handleMsg
  <2>4. Preferred' /\ feed' \in [Node -> Seq(Known)]
    <3>1. CASE UNCHANGED <<possible, feed>>
      BY <1>4, <3>1 DEF Preferred, Travelling, handleMsg
    <3>2. CASE /\ ValidationLeagueBlock(b)
               /\ possible' = [possible EXCEPT ![c[2]] = b]
               /\ feed' = [feed EXCEPT ![c[2]] = Append(@, b)]
      <4>1. b \in made
        BY <2>2, <3>2 DEF ValidationLeagueBlock, Known, Counters
      <4>2. Preferred'
        BY <1>4, <3>2, <4>1 DEF Preferred, handleMsg
      <4>3. Append(feed[c[2]], b) \in Seq(Known)
        BY <2>1, <2>2 DEF Travelling
      <4> QED
        BY <3>2, <4>2, <4>3 DEF Travelling
    <3> QED
      BY <1>4, <3>1, <3>2 DEF handleMsg, takeLeagueBlock
  <2>5. net' \in [Channel -> Seq(Known)]
    BY <1>4, <2>2 DEF handleMsg, Travelling
  <2>6. handler' = [handler EXCEPT ![c] = [pc |-> "relay", block |-> b]]
    BY <1>4 DEF handleMsg
  <2> QED
    BY <2>2, <2>3, <2>4, <2>5, <2>6 DEF Travelling
<1>5. ASSUME NEW c \in Channel, relay(c) PROVE GInv'
  <2>1. Counters' /\ MadeNow' /\ Preferred' /\ Known' = Known
    BY <1>5 DEF Counters, MadeNow, Preferred, Known, relay
  <2>2. PICK b \in Known : handler[c] = [pc |-> "relay", block |-> b]
    BY <1>5 DEF Travelling, relay, Free
  <2>3. [handler[c] EXCEPT !.pc = "store"] = [pc |-> "store", block |-> b]
    BY <2>2
  <2>4. PICK h \in {Free, [handler[c] EXCEPT !.pc = "store"]} :
          handler' = [handler EXCEPT ![c] = h]
    BY <1>5 DEF relay
  <2>5. DOMAIN handler' = Channel /\ handler'[c] = h
        /\ \A d \in Channel \ {c} : handler'[d] = handler[d]
    BY <2>4 DEF Travelling
  <2>6. Travelling'
    <3>1. UNCHANGED <<feed, net>>
      BY <1>5 DEF relay
    <3>2. ASSUME NEW d \in Channel
          PROVE  handler'[d] = Free
                 \/ (\E p \in {"relay", "store"} : \E e \in Known :
                       handler'[d] = [pc |-> p, block |-> e])
      <4>1. CASE d = c
        <5>1. h = Free \/ h = [pc |-> "store", block |-> b]  BY <2>3, <2>4
        <5> QED  BY <2>2, <2>5, <4>1, <5>1
      <4>2. CASE d # c
        <5>1. handler'[d] = handler[d]  BY <2>5, <4>2
        <5> QED  BY <5>1 DEF Travelling
      <4> QED  BY <4>1, <4>2
    <3> QED
      BY <2>1, <2>5, <3>1, <3>2 DEF Travelling, Free
  <2> QED
    BY <2>1, <2>6
<1>6. ASSUME NEW c \in Channel, store(c) PROVE GInv'
  <2>1. Counters' /\ MadeNow' /\ Preferred' /\ Known' = Known
    BY <1>6 DEF Counters, MadeNow, Preferred, Known, store
  <2>2. handler[c].block \in Known
    BY <1>6 DEF Travelling, store, Free
  <2>3. net' \in [Channel -> Seq(Known)]
    BY <1>6, <2>2, SendKnown DEF store, Travelling
  <2> QED
    BY <1>6, <2>1, <2>3 DEF store, Travelling
<1>7. ASSUME NEW n \in 1 .. Rounds, Close(n) PROVE GInv'
  <2>1. Counters' /\ MadeNow' /\ Preferred'
    BY <1>7 DEF Counters, MadeNow, Preferred, Close
  <2>2. Travelling'
    BY <1>7, <2>1, KnownGrows, TravelKept DEF Close
  <2> QED
    BY <2>1, <2>2
<1>8. CASE UNCHANGED gossipVars
  <2>1. Counters' /\ MadeNow' /\ Preferred' /\ Known' = Known
    BY <1>8 DEF gossipVars, Counters, MadeNow, Preferred, Known
  <2> QED
    BY <1>8, <2>1, TravelKept DEF gossipVars
<1> QED
  BY <1>1, <1>2, <1>3, <1>4, <1>5, <1>6, <1>7, <1>8 DEF GossipNext

-----------------------------------------------------------------------------
\* In every execution a member prefers no block but one sealed in this round:
\* the two checks of ValidationLeagueBlock keep out what resultLoop gets late.
THEOREM PreferredOfRound == GossipSpec => []PrefersOfRound
<1>1. GInv => PrefersOfRound
  BY DEF GInv, Preferred, PrefersOfRound, Node
<1> QED
  BY <1>1, GInvInit, GInvNext, PTL DEF GossipSpec

=============================================================================
