---------------------------- MODULE MinerProofs ----------------------------
(***************************************************************************)
(* Theorems about the miner, for any number of leagues and rounds, any lag *)
(* of the status stream and every combination of faults: what it writes is *)
(* what the fairnode has decided, and the worker's answers are taken.  The *)
(* last section is about its connection, module DebClient.                 *)
(***************************************************************************)
EXTENDS DebMiner, DebClient, TLAPS

-----------------------------------------------------------------------------
(* Why the chain is the decided one.  A signature is asked for while the   *)
(* fairnode is at REQ_FAIRNODE_SIGN, for a block it had as the elected one *)
(* when the seal was confirmed; a block that is decided stays decided.     *)

\* x has its place on the chain.
Signed(x) == x.block.number \in 1 .. Len(Decided) /\ Decided[x.block.number] = x

\* The league has its hashes from the count to FINALIZE.
FairnodeInv ==
    /\ league \in Nat
    /\ finals \in Seq(Ballots) /\ current = Len(finals)
    /\ IF status \in {"VOTE_COMPLETE", "SEND_BLOCK", "REQ_FAIRNODE_SIGN"}
       THEN elected \in Ballots /\ elected.block.number = current + 1
       ELSE elected = Nil

\* The goroutines of reqSealConfirm.
Seals == [o : Otprn, sealed : Ballots, at : {"open", "recv", "feed"},
          code : {"PENDING", "SEND_BLOCK", "REQ_FAIRNODE_SIGN"}]

\* A seal that is confirmed is of the elected block, of one decided since, or of
\* a league that was given up; one with a signature is decided.
ConfirmInv ==
    \A c \in confirm :
        /\ c \in Seals
        /\ c.at = "recv" =>
               /\ c.o <= league
               /\ c.o = league => c.sealed = elected \/ Signed(c.sealed) \/ status = "REJECT"
        /\ c.at = "feed" => Signed(c.sealed)

\* What the goroutines hand to each other on the way to a seal are blocks.
HandedOn ==
    /\ DOMAIN loop = Otprn /\ DOMAIN stCode = Otprn /\ DOMAIN voters = Otprn
    /\ DOMAIN lsl = {"at", "o", "x"}
    /\ \A o \in Otprn : loop[o] = "send" /\ stCode[o] = "VOTE_COMPLETE" => voters[o] \in Ballots
    /\ lsl.at = "voteResult" => lsl.x \in Ballots
    /\ result # "idle" => possibleFinalBlock \in Ballots

\* The worker keeps only a signed block.
WorkerInv ==
    /\ lsl.at = "fnSign" => Signed(lsl.x)
    /\ finalBlock # Nil => /\ finalBlock = [sealed |-> finalBlock.sealed, sign |-> finalBlock.sealed]
                           /\ Signed(finalBlock.sealed)

\* A height that was worked on is not above the next one.
ChainInv ==
    /\ chain \in Seq([sealed : Ballots, sign : Ballots])
    /\ workNumber \in Nat /\ workNumber <= Len(chain) + 1
    /\ WritesFinal

WritesInv == FairnodeInv /\ ConfirmInv /\ HandedOn /\ WorkerInv /\ ChainInv

-----------------------------------------------------------------------------
\* The statuses before and after the one a league has its block signed in.
LEMMA FollowsFacts ==
    ASSUME NEW s, NEW t \in Follows(s)
    PROVE  /\ t = "VOTE_COMPLETE" => s = "VOTE_COUNTING"
           /\ t = "SEND_BLOCK" => s = "VOTE_COMPLETE"
           /\ t = "REQ_FAIRNODE_SIGN" => s = "SEND_BLOCK"
           /\ t = "FINALIZE" => s = "REQ_FAIRNODE_SIGN"
           /\ s = "VOTE_COMPLETE" => t = "SEND_BLOCK"
           /\ s = "SEND_BLOCK" => t \in {"REQ_FAIRNODE_SIGN", "REJECT"}
           /\ s = "REQ_FAIRNODE_SIGN" => t = "FINALIZE"
           /\ s = "REJECT" => t = "PENDING"
           /\ t = "PENDING" => s = "REJECT"
<1>1. CASE s \in {"PENDING", "MAKE_LEAGUE", "FINALIZE", "REJECT"}
  BY <1>1 DEF Follows
<1>2. CASE s \notin {"PENDING", "MAKE_LEAGUE", "FINALIZE", "REJECT"}
  <2>1. \/ \E i \in 1 .. 8 : Round[i] = s /\ t = Round[i + 1]
        \/ t = "REJECT" /\ s \in {"VOTE_COUNTING", "SEND_BLOCK"}
    BY <1>2 DEF Follows
  <2>2. ASSUME NEW i \in 1 .. 8, Round[i] = s, t = Round[i + 1]
        PROVE  \/ s = "MAKE_JOIN_TX" /\ t = "MAKE_BLOCK"
               \/ s = "MAKE_BLOCK" /\ t = "LEAGUE_BROADCASTING"
               \/ s = "LEAGUE_BROADCASTING" /\ t = "VOTE_START"
               \/ s = "VOTE_START" /\ t = "VOTE_COUNTING"
               \/ s = "VOTE_COUNTING" /\ t = "VOTE_COMPLETE"
               \/ s = "VOTE_COMPLETE" /\ t = "SEND_BLOCK"
               \/ s = "SEND_BLOCK" /\ t = "REQ_FAIRNODE_SIGN"
               \/ s = "REQ_FAIRNODE_SIGN" /\ t = "FINALIZE"
    BY <2>2 DEF Round
  <2> QED BY <2>1, <2>2
<1> QED BY <1>1, <1>2

\* What is decided is a sequence of ballots, the elected block its next one.
LEMMA DecidedType ==
    ASSUME FairnodeInv
    PROVE  /\ Decided \in Seq(Ballots)
           /\ Len(Decided) >= Len(finals)
           /\ \A i \in 1 .. Len(finals) : Decided[i] = finals[i]
           /\ status = "REQ_FAIRNODE_SIGN" => Signed(elected)
           /\ \A x : Signed(x) => x \in Ballots
<1>1. /\ Decided \in Seq(Ballots)
      /\ Len(Decided) >= Len(finals)
      /\ \A i \in 1 .. Len(finals) : Decided[i] = finals[i]
  BY DEF FairnodeInv, Decided
<1>2. status = "REQ_FAIRNODE_SIGN" => Signed(elected)
  BY DEF FairnodeInv, Decided, Signed
<1>3. ASSUME NEW x, Signed(x) PROVE x \in Ballots
  BY <1>1, <1>3 DEF Signed
<1> QED BY <1>1, <1>2, <1>3

\* What is decided stays decided: the list only gets longer.
Longer == /\ Len(Decided) <= Len(Decided')
          /\ \A i \in 1 .. Len(Decided) : Decided'[i] = Decided[i]

LEMMA SignedStays ==
    ASSUME FairnodeInv, Longer, NEW x, Signed(x)
    PROVE  Signed(x)'
<1>1. Decided \in Seq(Ballots)
  BY DecidedType
<1> QED BY <1>1 DEF Longer, Signed

LEMMA FairnodeSame ==
    ASSUME FairnodeInv, UNCHANGED <<league, status, current, elected, finals>>
    PROVE  FairnodeInv' /\ Longer
<1>1. FairnodeInv' /\ Decided' = Decided
  BY DEF FairnodeInv, Decided
<1>2. Decided \in Seq(Ballots)
  BY DecidedType
<1> QED BY <1>1, <1>2 DEF Longer

LEMMA AdvanceFairnode ==
    ASSUME FairnodeInv, Advance
    PROVE  /\ FairnodeInv' /\ Longer
           /\ league' \in {league, league + 1}
           /\ league' = league => elected' = elected \/ elected = Nil \/ status' \in {"FINALIZE", "REJECT"}
           /\ status' = "FINALIZE" => status = "REQ_FAIRNODE_SIGN"
           /\ status = "REJECT" => league' # league
<1>1. PICK s \in Follows(status) :
         /\ status' = s
         /\ league' = IF s = "PENDING" THEN league + 1 ELSE league
         /\ current' = IF s = "FINALIZE" THEN current + 1 ELSE current
         /\ \/ s = "VOTE_COMPLETE" /\ \E b \in Winners :
                   elected' = [block |-> b, votes |-> "counted"]
            \/ s # "VOTE_COMPLETE"
                   /\ elected' = IF s \in {"FINALIZE", "REJECT"} THEN Nil ELSE elected
         /\ finals' = IF s = "FINALIZE" THEN Append(finals, elected) ELSE finals
  BY DEF Advance
<1> HIDE DEF Follows
<1>2. /\ s = "VOTE_COMPLETE" => status = "VOTE_COUNTING"
      /\ s = "SEND_BLOCK" => status = "VOTE_COMPLETE"
      /\ s = "REQ_FAIRNODE_SIGN" => status = "SEND_BLOCK"
      /\ s = "FINALIZE" => status = "REQ_FAIRNODE_SIGN"
      /\ status = "VOTE_COMPLETE" => s = "SEND_BLOCK"
      /\ status = "SEND_BLOCK" => s \in {"REQ_FAIRNODE_SIGN", "REJECT"}
      /\ status = "REQ_FAIRNODE_SIGN" => s = "FINALIZE"
      /\ status = "REJECT" => s = "PENDING"
      /\ s = "PENDING" => status = "REJECT"
  BY FollowsFacts, Zenon
<1>3. CASE s = "VOTE_COMPLETE"
  <2>1. PICK b \in Winners : elected' = [block |-> b, votes |-> "counted"]
    BY <1>1, <1>3
  <2>2. b \in Blocks /\ b.number = current + 1
    BY DEF Winners
  <2>3. elected' \in Ballots /\ elected'.block.number = current + 1
    BY <2>1, <2>2 DEF Ballots
  <2>4. elected = Nil /\ finals' = finals /\ current' = current /\ league' = league
    BY <1>1, <1>2, <1>3 DEF FairnodeInv
  <2>5. FairnodeInv'
    BY <1>1, <1>3, <2>3, <2>4 DEF FairnodeInv
  <2>6. Decided' = finals /\ Decided = finals
    BY <1>1, <1>2, <1>3, <2>4 DEF Decided
  <2> QED BY <1>1, <1>2, <1>3, <2>4, <2>5, <2>6 DEF Longer, FairnodeInv
<1>4. CASE s = "FINALIZE"
  <2>1. elected \in Ballots /\ finals' = Append(finals, elected) /\ current' = current + 1
        /\ league' = league /\ elected' = Nil /\ status' = "FINALIZE"
    BY <1>1, <1>2, <1>4 DEF FairnodeInv
  <2>2. FairnodeInv'
    BY <2>1 DEF FairnodeInv
  <2>3. Decided' = Decided /\ Decided \in Seq(Ballots)
    BY <1>2, <1>4, <2>1, DecidedType DEF Decided
  <2> QED BY <1>2, <1>4, <2>1, <2>2, <2>3 DEF Longer
<1>5. CASE s \notin {"VOTE_COMPLETE", "FINALIZE"}
  <2>1. finals' = finals /\ current' = current
        /\ elected' = (IF s = "REJECT" THEN Nil ELSE elected)
    BY <1>1, <1>5
  <2>2. FairnodeInv'
    BY <1>1, <1>2, <1>5, <2>1 DEF FairnodeInv
  <2>3. status # "REQ_FAIRNODE_SIGN" /\ Decided = finals
    BY <1>2, <1>5 DEF Decided
  <2>4. Longer
    BY <1>1, <1>5, <2>1, <2>2, <2>3, DecidedType DEF Longer, Decided, FairnodeInv
  <2> QED BY <1>1, <1>2, <1>5, <2>1, <2>2, <2>4
<1> QED BY <1>3, <1>4, <1>5

-----------------------------------------------------------------------------
\* Steps that leave the fairnode alone decide nothing.
decides == <<league, status, current, elected, finals>>

LEMMA Undecided ==
    ASSUME UNCHANGED decides
    PROVE  Decided' = Decided /\ \A x : Signed(x)' <=> Signed(x)
<1>1. Decided' = Decided
  BY DEF decides, Decided
<1> QED BY <1>1 DEF Signed

LEMMA InitWrites == Init => WritesInv
<1> SUFFICES ASSUME Init PROVE WritesInv
  OBVIOUS
<1>1. FairnodeInv
  BY DEF Init, FairnodeInv
<1>2. ConfirmInv
  BY DEF Init, ConfirmInv
<1>3. HandedOn
  BY DEF Init, HandedOn, Idle
<1>4. WorkerInv
  BY DEF Init, WorkerInv, Idle
<1>5. ChainInv
  BY DEF Init, ChainInv, WritesFinal
<1> QED BY <1>1, <1>2, <1>3, <1>4, <1>5 DEF WritesInv

\* The parts of the invariant that a step leaves alone.
LEMMA SameParts ==
    ASSUME WritesInv, UNCHANGED decides
    PROVE  /\ FairnodeInv'
           /\ confirm' \subseteq confirm => ConfirmInv'
           /\ UNCHANGED <<loop, stCode, voters, lsl, result, possibleFinalBlock>> => HandedOn'
           /\ UNCHANGED <<lsl, finalBlock>> => WorkerInv'
           /\ UNCHANGED <<chain, workNumber>> => ChainInv'
<1>0. Decided' = Decided /\ \A x : Signed(x)' <=> Signed(x)
  BY Undecided
<1>1. FairnodeInv'
  BY FairnodeSame DEF WritesInv, decides
<1>2. ASSUME confirm' \subseteq confirm PROVE ConfirmInv'
  BY <1>0, <1>2 DEF WritesInv, ConfirmInv, decides
<1>3. ASSUME UNCHANGED <<loop, stCode, voters, lsl, result, possibleFinalBlock>> PROVE HandedOn'
  BY <1>3 DEF WritesInv, HandedOn
<1>4. ASSUME UNCHANGED <<lsl, finalBlock>> PROVE WorkerInv'
  BY <1>0, <1>4 DEF WritesInv, WorkerInv, Signed
<1>5. ASSUME UNCHANGED <<chain, workNumber>> PROVE ChainInv'
  BY <1>0, <1>5 DEF WritesInv, ChainInv, WritesFinal
<1> QED BY <1>1, <1>2, <1>3, <1>4, <1>5

LEMMA AdvanceWrites == WritesInv /\ Advance => WritesInv'
<1> SUFFICES ASSUME WritesInv, Advance PROVE WritesInv'
  OBVIOUS
<1>0. /\ FairnodeInv' /\ Longer
      /\ league' \in {league, league + 1}
      /\ league' = league => elected' = elected \/ elected = Nil \/ status' \in {"FINALIZE", "REJECT"}
      /\ status' = "FINALIZE" => status = "REQ_FAIRNODE_SIGN"
      /\ status = "REJECT" => league' # league
  BY AdvanceFairnode DEF WritesInv
<1>1. \A x : Signed(x) => Signed(x)'
  BY <1>0, SignedStays DEF WritesInv
<1>2. UNCHANGED <<confirm, loop, stCode, voters, lsl, result, possibleFinalBlock, finalBlock,
                  chain, workNumber>>
  BY DEF Advance, channels, blocks, worker, node
<1>3. ConfirmInv'
  <2> SUFFICES ASSUME NEW c \in confirm
               PROVE  /\ c \in Seals
                      /\ c.at = "recv" =>
                            /\ c.o <= league'
                            /\ c.o = league' => \/ c.sealed = elected'
                                                \/ Signed(c.sealed)'
                                                \/ status' = "REJECT"
                      /\ c.at = "feed" => Signed(c.sealed)'
    BY <1>2 DEF ConfirmInv
  <2>1. /\ c \in Seals
        /\ c.at = "recv" =>
              /\ c.o <= league
              /\ c.o = league => c.sealed = elected \/ Signed(c.sealed) \/ status = "REJECT"
        /\ c.at = "feed" => Signed(c.sealed)
    BY DEF WritesInv, ConfirmInv
  <2>0. c.o \in Nat /\ c.sealed \in Ballots
    BY <2>1, MinerAssumption DEF Seals, Otprn
  <2>2. c.at = "feed" => Signed(c.sealed)'
    BY <1>1, <2>1
  <2>3. ASSUME c.at = "recv", c.o = league'
        PROVE  c.sealed = elected' \/ Signed(c.sealed)' \/ status' = "REJECT"
    <3>1. league' = league
      BY <1>0, <2>0, <2>1, <2>3 DEF WritesInv, FairnodeInv
    <3>2. c.sealed = elected \/ Signed(c.sealed)
      BY <1>0, <2>1, <2>3, <3>1
    <3>3. CASE c.sealed = elected
      <4>1. elected # Nil
        BY <2>0, <3>3, NilAssumption
      <4>2. CASE status' = "FINALIZE"
        <5>1. Signed(elected)
          BY <1>0, <4>2, DecidedType DEF WritesInv
        <5> QED BY <1>1, <3>3, <5>1
      <4> QED BY <1>0, <3>1, <3>3, <4>1, <4>2
    <3> QED BY <1>1, <3>2, <3>3
  <2>4. c.at = "recv" => c.o <= league'
    BY <1>0, <2>0, <2>1 DEF WritesInv, FairnodeInv
  <2> QED BY <2>1, <2>2, <2>3, <2>4
<1>4. HandedOn'
  BY <1>2 DEF WritesInv, HandedOn
<1>5. WorkerInv'
  BY <1>1, <1>2 DEF WritesInv, WorkerInv, Signed
<1>6. ChainInv'
  <2>1. Decided \in Seq(Ballots) /\ Decided' \in Seq(Ballots)
    BY <1>0, DecidedType DEF WritesInv, Decided, FairnodeInv
  <2>2. WritesFinal'
    <3> SUFFICES ASSUME NEW i \in 1 .. Len(chain)
                 PROVE  /\ i <= Len(Decided')
                        /\ chain[i] = [sealed |-> Decided'[i], sign |-> Decided'[i]]
      BY <1>2, Zenon DEF WritesFinal
    <3>1. i <= Len(Decided) /\ chain[i] = [sealed |-> Decided[i], sign |-> Decided[i]]
      BY DEF WritesInv, ChainInv, WritesFinal
    <3>2. i \in 1 .. Len(Decided) /\ Len(Decided) \in Nat /\ Len(Decided') \in Nat
      BY <2>1, <3>1 DEF WritesInv, ChainInv
    <3> QED BY <1>0, <3>1, <3>2 DEF Longer
  <2> QED BY <1>2, <2>2 DEF WritesInv, ChainInv
<1> QED BY <1>0, <1>3, <1>4, <1>5, <1>6 DEF WritesInv

\* The status loops: a VOTE_COMPLETE without an answer is not passed on.
LEMMA StatusLoopWrites ==
    ASSUME WritesInv, NEW o \in Otprn, requestOtprn(o) \/ statusRecv(o) \/ statusFeedSend(o) \/ vote(o)
    PROVE  WritesInv'
<1>0. UNCHANGED <<decides, confirm, result, possibleFinalBlock, finalBlock, chain, workNumber>>
  BY DEF requestOtprn, statusRecv, statusFeedSend, vote, decides, fairnode, blocks, worker, node
<1>1. FairnodeInv' /\ ConfirmInv' /\ ChainInv' /\ (lsl' = lsl => WorkerInv')
  BY <1>0, SameParts
<1>2. CASE requestOtprn(o)
  <2>1. UNCHANGED <<stCode, voters, lsl>> /\ loop' = [loop EXCEPT ![o] = "recv"]
    BY <1>2 DEF requestOtprn, worker
  <2>2. HandedOn'
    BY <1>0, <2>1 DEF WritesInv, HandedOn
  <2> QED BY <1>1, <2>1, <2>2 DEF WritesInv
<1>3. CASE statusRecv(o)
  <2>1. PICK code, s :
           /\ lsl' = lsl
           /\ stCode' = [stCode EXCEPT ![o] = code]
           /\ \/ loop' = [loop EXCEPT ![o] = s] /\ code # "VOTE_COMPLETE" /\ voters' = voters
              \/ /\ code = "VOTE_COMPLETE"
                 /\ \E v \in VoteResults(o) : voters' = [voters EXCEPT ![o] = v]
                 /\ loop' = [loop EXCEPT ![o] = IF voters'[o] = Nil THEN "recv" ELSE "send"]
              \/ loop' = loop /\ voters' = voters
    BY <1>3, Zenon DEF statusRecv
  <2>2. loop[o] = "recv"
    BY <1>3, Zenon DEF statusRecv
  <2>3. VoteResults(o) \subseteq Ballots \cup {Nil}
    BY DEF VoteResults, WritesInv, FairnodeInv, Winners, Ballots
  <2>4. HandedOn'
    <3>1. DOMAIN loop' = Otprn /\ DOMAIN stCode' = Otprn /\ DOMAIN voters' = Otprn
      BY <2>1 DEF WritesInv, HandedOn
    <3>2. ASSUME NEW p \in Otprn, loop'[p] = "send", stCode'[p] = "VOTE_COMPLETE"
          PROVE  voters'[p] \in Ballots
      <4>1. CASE p # o
        BY <2>1, <3>2, <4>1 DEF WritesInv, HandedOn
      <4>2. CASE p = o
        <5>1. code = "VOTE_COMPLETE" /\ loop' # loop
          BY <2>1, <2>2, <3>2, <4>2 DEF WritesInv, HandedOn
        <5>2. PICK v \in VoteResults(o) : voters' = [voters EXCEPT ![o] = v]
          BY <2>1, <5>1
        <5>3. voters'[o] = v /\ v # Nil
          BY <2>1, <3>2, <4>2, <5>1, <5>2 DEF WritesInv, HandedOn
        <5> QED BY <2>3, <4>2, <5>3
      <4> QED BY <4>1, <4>2
    <3> QED BY <1>0, <2>1, <3>1, <3>2 DEF WritesInv, HandedOn
  <2> QED BY <1>1, <2>1, <2>4 DEF WritesInv
<1>4. CASE statusFeedSend(o)
  <2>1. /\ loop[o] = "send" /\ UNCHANGED <<stCode, voters>>
        /\ \E s \in {"vote", "submit", "recv"} : loop' = [loop EXCEPT ![o] = s]
    BY <1>4, Zenon DEF statusFeedSend
  <2>2. /\ lsl'.at # "fnSign" /\ DOMAIN lsl' = {"at", "o", "x"}
        /\ lsl'.at = "voteResult" => stCode[o] = "VOTE_COMPLETE" /\ lsl'.x = voters[o]
    BY <1>4 DEF statusFeedSend, Idle
  <2>3. HandedOn'
    BY <1>0, <2>1, <2>2 DEF WritesInv, HandedOn
  <2>4. WorkerInv'
    BY <1>0, <2>2, Undecided DEF WritesInv, WorkerInv
  <2> QED BY <1>1, <2>3, <2>4 DEF WritesInv
<1>5. CASE vote(o)
  <2>1. UNCHANGED <<stCode, voters>> /\ lsl' = Idle /\ loop' = [loop EXCEPT ![o] = "recv"]
    BY <1>5, Zenon DEF vote
  <2>2. HandedOn'
    BY <1>0, <2>1 DEF WritesInv, HandedOn, Idle
  <2>3. WorkerInv'
    BY <1>0, <2>1, Undecided DEF WritesInv, WorkerInv, Idle
  <2> QED BY <1>1, <2>2, <2>3 DEF WritesInv
<1> QED BY <1>2, <1>3, <1>4, <1>5

\* The seals: a confirmed one is the elected block, and only a block that is
\* stored gets a signature.
LEMMA ConfirmWrites ==
    ASSUME WritesInv, reqSealConfirm
    PROVE  WritesInv'
<1>1. PICK c \in confirm : \/ confirmOpen(c) \/ sendBlock(c) \/ confirmEnd(c)
                           \/ requestFairnodeSign(c) \/ confirmFeedSend(c)
  BY DEF reqSealConfirm
<1>2. UNCHANGED <<decides, loop, stCode, voters, result, possibleFinalBlock, finalBlock, chain,
                  workNumber>>
  BY <1>1, Zenon DEF confirmOpen, sendBlock, confirmEnd, requestFairnodeSign, confirmFeedSend,
              decides, fairnode, blocks, worker, node
<1>3. FairnodeInv' /\ ChainInv' /\ (confirm' \subseteq confirm => ConfirmInv')
      /\ (lsl' = lsl => HandedOn' /\ WorkerInv')
  BY <1>2, SameParts
<1>4. /\ c \in Seals
      /\ c.at = "recv" =>
            /\ c.o <= league
            /\ c.o = league => c.sealed = elected \/ Signed(c.sealed) \/ status = "REJECT"
      /\ c.at = "feed" => Signed(c.sealed)
  BY DEF WritesInv, ConfirmInv
<1>5. ASSUME NEW d, confirm' \subseteq confirm \cup {d}, d \in Seals,
             d.at = "recv" =>
                 /\ d.o <= league
                 /\ d.o = league => d.sealed = elected \/ Signed(d.sealed) \/ status = "REJECT",
             d.at = "feed" => Signed(d.sealed)
      PROVE  ConfirmInv'
  <2> SUFFICES ASSUME NEW e \in confirm'
               PROVE  /\ e \in Seals
                      /\ e.at = "recv" =>
                            /\ e.o <= league
                            /\ e.o = league => \/ e.sealed = elected \/ Signed(e.sealed)
                                               \/ status = "REJECT"
                      /\ e.at = "feed" => Signed(e.sealed)
    BY <1>2, Undecided DEF ConfirmInv, decides
  <2>1. CASE e \in confirm
    BY <2>1 DEF WritesInv, ConfirmInv
  <2>2. CASE e = d
    BY <1>4, <1>5, <2>2
  <2> QED BY <1>5, <2>1, <2>2
<1>6. CASE confirmOpen(c)
  <2>1. lsl' = lsl
    BY <1>6 DEF confirmOpen, worker
  <2>2. ASSUME c.o = league, c.sealed = elected PROVE ConfirmInv'
    <3> DEFINE d == [c EXCEPT !.at = "recv"]
    <3>1. confirm' \subseteq confirm \cup {d}
      BY <1>6, <2>2 DEF confirmOpen
    <3>2. d \in Seals /\ d.sealed = c.sealed /\ d.o = c.o /\ d.at # "feed"
      BY <1>4 DEF Seals
    <3>3. d.o <= league
      BY <2>2, <3>2 DEF WritesInv, FairnodeInv
    <3> HIDE DEF d
    <3> QED BY <1>5, <2>2, <3>1, <3>2, <3>3
  <2>3. ASSUME ~(c.o = league /\ c.sealed = elected) PROVE ConfirmInv'
    BY <1>3, <1>6, <2>3 DEF confirmOpen
  <2> QED BY <1>3, <2>1, <2>2, <2>3 DEF WritesInv
<1>7. CASE sendBlock(c)
  <2> DEFINE d == [c EXCEPT !.code = "SEND_BLOCK"]
  <2>1. lsl' = lsl /\ confirm' \subseteq confirm \cup {d}
    BY <1>7 DEF sendBlock, worker
  <2>2. d \in Seals /\ d.sealed = c.sealed /\ d.o = c.o /\ d.at = c.at
    BY <1>4 DEF Seals
  <2> HIDE DEF d
  <2>3. ConfirmInv'
    BY <1>4, <1>5, <2>1, <2>2
  <2> QED BY <1>3, <2>1, <2>3 DEF WritesInv
<1>8. CASE confirmEnd(c)
  BY <1>3, <1>8 DEF confirmEnd, worker, WritesInv
<1>9. CASE requestFairnodeSign(c)
  <2>1. PICK ok \in BOOLEAN :
          confirm' = (confirm \ {c}) \cup {[c EXCEPT !.code = "REQ_FAIRNODE_SIGN",
                                                    !.at = IF ok THEN "feed" ELSE "recv"]}
    BY <1>9, Zenon DEF requestFairnodeSign
  <2> DEFINE d == [c EXCEPT !.code = "REQ_FAIRNODE_SIGN", !.at = IF ok THEN "feed" ELSE "recv"]
  <2>2. lsl' = lsl /\ confirm' \subseteq confirm \cup {d}
    BY <1>9, <2>1 DEF requestFairnodeSign, worker
  <2>3. d \in Seals /\ d.sealed = c.sealed /\ d.o = c.o
    BY <1>4, Zenon DEF Seals
  <2>4. Signed(c.sealed) /\ c.o <= league
    BY <1>4, <1>9, DecidedType DEF requestFairnodeSign, WritesInv
  <2> HIDE DEF d
  <2>5. ConfirmInv'
    BY <1>5, <2>2, <2>3, <2>4
  <2> QED BY <1>3, <2>2, <2>5 DEF WritesInv
<1>10. CASE confirmFeedSend(c)
  <2>1. confirm' \subseteq confirm /\ lsl' = [at |-> "fnSign", o |-> c.o, x |-> c.sealed]
        /\ c.at = "feed"
    BY <1>10 DEF confirmFeedSend
  <2>2. HandedOn'
    BY <1>2, <2>1 DEF WritesInv, HandedOn
  <2>3. WorkerInv'
    BY <1>2, <1>4, <2>1, Undecided DEF WritesInv, WorkerInv
  <2> QED BY <1>3, <2>1, <2>2, <2>3 DEF WritesInv
<1> QED BY <1>1, <1>6, <1>7, <1>8, <1>9, <1>10

\* leagueStatusLoop and resultLoop: a signature is kept with the block it signs,
\* and a block that is written is decided for the height it is written at.
LEMMA WorkerWrites ==
    ASSUME WritesInv, startSend \/ setSubmitBlockCh \/ resultLoop
    PROVE  WritesInv'
<1>0. UNCHANGED decides
  BY DEF startSend, setSubmitBlockCh, resultLoop, leagueBroadCast, takeVoteResult,
         readSubmitBlockCh, takeFnSign, takeFinalize, submitBlock, lslUnchanged, decides, fairnode
<1>1. /\ FairnodeInv'
      /\ confirm' \subseteq confirm => ConfirmInv'
      /\ UNCHANGED <<lsl, finalBlock>> => WorkerInv'
      /\ UNCHANGED <<chain, workNumber>> => ChainInv'
  BY <1>0, SameParts
<1>2. CASE startSend \/ setSubmitBlockCh \/ leagueBroadCast
  <2>1. /\ lsl' = Idle
        /\ UNCHANGED <<confirm, loop, stCode, voters, result, possibleFinalBlock, finalBlock, chain,
                       workNumber>>
    BY <1>2 DEF startSend, setSubmitBlockCh, leagueBroadCast, lslUnchanged, client, blocks, node
  <2>2. HandedOn' /\ WorkerInv'
    BY <1>0, <2>1, Undecided DEF WritesInv, HandedOn, WorkerInv, Idle
  <2> QED BY <1>1, <2>1, <2>2 DEF WritesInv
<1>3. CASE takeVoteResult
  <2>1. UNCHANGED <<confirm, loop, stCode, voters, finalBlock, chain, workNumber>>
    BY <1>3 DEF takeVoteResult, lslUnchanged, client, node
  <2>2. /\ lsl.at = "voteResult" /\ lsl' = [lsl EXCEPT !.at = "setSubmit"]
        /\ result = "idle"
        /\ \/ possibleFinalBlock' = lsl.x
           \/ UNCHANGED <<result, possibleFinalBlock>>
    BY <1>3 DEF takeVoteResult
  <2>3. HandedOn'
    BY <2>1, <2>2 DEF WritesInv, HandedOn
  <2>4. WorkerInv'
    BY <1>0, <2>1, <2>2, Undecided DEF WritesInv, WorkerInv
  <2> QED BY <1>1, <2>1, <2>3, <2>4 DEF WritesInv
<1>4. CASE readSubmitBlockCh
  <2>1. UNCHANGED <<confirm, loop, stCode, voters, lsl, possibleFinalBlock, finalBlock, chain,
                    workNumber>> /\ result = "read"
    BY <1>4 DEF readSubmitBlockCh, lslUnchanged, client, blocks, node
  <2>2. HandedOn'
    BY <2>1 DEF WritesInv, HandedOn
  <2> QED BY <1>1, <2>1, <2>2 DEF WritesInv
<1>5. ASSUME NEW o \in Otprn, submitBlock(o) PROVE WritesInv'
  <2> DEFINE d == [o |-> o, sealed |-> possibleFinalBlock, at |-> "open", code |-> "PENDING"]
  <2>1. /\ UNCHANGED <<stCode, voters, lsl, possibleFinalBlock, finalBlock, chain, workNumber>>
        /\ loop' = [loop EXCEPT ![o] = "recv"] /\ result' = "idle" /\ result = "send"
        /\ confirm' = confirm \cup {d}
    BY <1>5 DEF submitBlock, node
  <2>2. HandedOn'
    BY <2>1 DEF WritesInv, HandedOn
  <2>3. d \in Seals /\ d.at = "open"
    BY <2>1 DEF WritesInv, HandedOn, Seals
  <2> HIDE DEF d
  <2>4. ConfirmInv'
    BY <1>0, <2>1, <2>3, Undecided DEF WritesInv, ConfirmInv, decides
  <2> QED BY <1>1, <2>1, <2>2, <2>4 DEF WritesInv
<1>6. CASE takeFnSign
  <2>1. /\ UNCHANGED <<confirm, loop, stCode, voters, result, possibleFinalBlock, chain, workNumber>>
        /\ lsl' = Idle /\ lsl.at = "fnSign"
    BY <1>6 DEF takeFnSign, lslUnchanged, client, node
  <2>2. finalBlock' = [sealed |-> lsl.x, sign |-> lsl.x] \/ finalBlock' = finalBlock
    BY <1>6 DEF takeFnSign
  <2>3. HandedOn'
    BY <2>1 DEF WritesInv, HandedOn, Idle
  <2>4. WorkerInv'
    BY <1>0, <2>1, <2>2, Undecided DEF WritesInv, WorkerInv, Idle
  <2> QED BY <1>1, <2>1, <2>3, <2>4 DEF WritesInv
<1>7. CASE takeFinalize
  <2>1. /\ UNCHANGED <<confirm, loop, stCode, voters, result, workNumber>>
        /\ lsl' = Idle /\ result = "idle" /\ finalBlock' \in {finalBlock, Nil}
    BY <1>7 DEF takeFinalize, lslUnchanged, client
  <2>2. HandedOn' /\ WorkerInv'
    BY <1>0, <2>1, Undecided DEF WritesInv, HandedOn, WorkerInv, Idle
  <2>3. ASSUME chain' # chain PROVE ChainInv'
    <3> DEFINE x == finalBlock.sealed
               n == workNumber
    <3>1. /\ finalBlock = [sealed |-> x, sign |-> x] /\ Signed(x) /\ x.block.number = n
          /\ chain' = IF n = Len(chain) + 1 THEN Append(chain, finalBlock)
                      ELSE [chain EXCEPT ![n] = finalBlock]
      BY <1>7, <2>3 DEF takeFinalize, WritesInv, WorkerInv
    <3>2. /\ x \in Ballots /\ Decided \in Seq(Ballots) /\ n \in 1 .. Len(Decided)
          /\ Decided[n] = x /\ Decided' = Decided
      BY <1>0, <3>1, DecidedType, Undecided DEF WritesInv, Signed
    <3>3. finalBlock \in [sealed : Ballots, sign : Ballots]
      BY <3>1, <3>2
    <3>4. /\ chain \in Seq([sealed : Ballots, sign : Ballots])
          /\ n \in Nat /\ n <= Len(chain) + 1 /\ n' = n
          /\ \A i \in 1 .. Len(chain) :
                i <= Len(Decided) /\ chain[i] = [sealed |-> Decided[i], sign |-> Decided[i]]
      BY <2>1 DEF WritesInv, ChainInv, WritesFinal
    <3> HIDE DEF x, n
    <3>5. chain' \in Seq([sealed : Ballots, sign : Ballots]) /\ Len(chain') >= Len(chain)
      <4> DEFINE R == [sealed : Ballots, sign : Ballots]
      <4>1. finalBlock \in R /\ chain \in Seq(R)
        BY <3>3, <3>4
      <4> HIDE DEF R
      <4>2. CASE n = Len(chain) + 1
        <5>1. chain' \in Seq(R) /\ Len(chain') = Len(chain) + 1
          BY <3>1, <4>1, <4>2
        <5> QED BY <4>1, <5>1 DEF R
      <4>3. CASE n # Len(chain) + 1
        <5>1. chain' = [chain EXCEPT ![n] = finalBlock] /\ n \in 1 .. Len(chain)
          BY <3>1, <3>2, <3>4, <4>3
        <5>2. chain' \in Seq(R) /\ Len(chain') = Len(chain)
          BY <4>1, <5>1
        <5> QED BY <4>1, <5>2 DEF R
      <4> QED BY <4>2, <4>3
    <3>6. ASSUME NEW i \in 1 .. Len(chain')
          PROVE  i <= Len(Decided) /\ chain'[i] = [sealed |-> Decided[i], sign |-> Decided[i]]
      <4>1. CASE i = n
        <5>1. chain'[n] = finalBlock
          BY <3>1, <3>2, <3>3, <3>4
        <5> QED BY <3>1, <3>2, <4>1, <5>1
      <4>2. CASE i # n
        <5>1. i \in 1 .. Len(chain) /\ chain'[i] = chain[i]
          BY <3>1, <3>2, <3>3, <3>4, <4>2
        <5> QED BY <3>4, <5>1
      <4> QED BY <4>1, <4>2
    <3>7. WritesFinal'
      BY <3>2, <3>6 DEF WritesFinal
    <3> QED BY <3>4, <3>5, <3>7 DEF ChainInv, n
  <2> QED BY <1>1, <2>1, <2>2, <2>3 DEF WritesInv
<1> QED BY <1>2, <1>3, <1>4, <1>5, <1>6, <1>7, Zenon DEF resultLoop

\* The steps that make blocks, and those of the network.
LEMMA OtherWrites ==
    ASSUME WritesInv,
           \/ PeerSends \/ Import \/ takeResult \/ (\E b \in Blocks : takeLeagueBlock(b))
           \/ newWorkLoop \/ mainLoop
    PROVE  WritesInv'
<1>0. UNCHANGED <<decides, confirm, loop, stCode, voters, lsl, result>>
  BY Zenon DEF PeerSends, Import, takeResult, takeLeagueBlock, newWorkLoop, takeStart, takeChainHead,
         clearPending, commit, mainLoop, commitNewWork, Seal, lslUnchanged, decides, fairnode,
         client, worker
<1>1. /\ FairnodeInv' /\ ConfirmInv'
      /\ UNCHANGED possibleFinalBlock => HandedOn'
      /\ UNCHANGED finalBlock => WorkerInv'
      /\ UNCHANGED <<chain, workNumber>> => ChainInv'
  BY <1>0, SameParts
<1>2. CASE PeerSends \/ takeResult \/ (\E b \in Blocks : takeLeagueBlock(b))
           \/ takeStart \/ takeChainHead \/ commit \/ Seal
  BY <1>1, <1>2, Zenon DEF PeerSends, takeResult, takeLeagueBlock, takeStart, takeChainHead, commit, Seal,
                    lslUnchanged, blocks, worker, node, WritesInv
<1>3. CASE Import
  <2> DEFINE R == [sealed : Ballots, sign : Ballots]
             n == Len(chain) + 1
             f == [sealed |-> finals[n], sign |-> finals[n]]
  <2>1. /\ UNCHANGED <<possibleFinalBlock, finalBlock, workNumber>>
        /\ Len(chain) < Len(finals) /\ chain' = Append(chain, f)
    BY <1>3 DEF Import, blocks, worker
  <2>2. /\ finals \in Seq(Ballots) /\ Decided \in Seq(Ballots) /\ Decided' = Decided
        /\ Len(finals) <= Len(Decided)
        /\ \A i \in 1 .. Len(finals) : Decided[i] = finals[i]
    BY <1>0, DecidedType, Undecided DEF WritesInv, FairnodeInv
  <2>3. chain \in Seq(R) /\ workNumber \in Nat /\ workNumber <= n
        /\ \A i \in 1 .. Len(chain) :
              i <= Len(Decided) /\ chain[i] = [sealed |-> Decided[i], sign |-> Decided[i]]
    BY DEF WritesInv, ChainInv, WritesFinal
  <2>4. n \in 1 .. Len(finals)
    BY <2>1, <2>2, <2>3
  <2>5. f \in R /\ f = [sealed |-> Decided[n], sign |-> Decided[n]] /\ n <= Len(Decided)
    BY <2>2, <2>4
  <2> HIDE DEF R, f
  <2>6. /\ chain' \in Seq(R) /\ Len(chain') = n /\ chain'[n] = f
        /\ \A i \in 1 .. Len(chain) : chain'[i] = chain[i]
    BY <2>1, <2>3, <2>5
  <2>7. WritesFinal'
    <3> SUFFICES ASSUME NEW i \in 1 .. n
                 PROVE  /\ i <= Len(Decided)
                        /\ chain'[i] = [sealed |-> Decided[i], sign |-> Decided[i]]
      BY <2>2, <2>6 DEF WritesFinal
    <3>1. CASE i = n
      BY <2>5, <2>6, <3>1
    <3>2. CASE i # n
      <4>1. i \in 1 .. Len(chain)
        BY <2>3, <3>2
      <4> QED BY <2>3, <2>6, <4>1, Zenon
    <3> QED BY <3>1, <3>2
  <2>8. ChainInv'
    BY <2>1, <2>3, <2>6, <2>7 DEF ChainInv, R
  <2> QED BY <1>1, <2>1, <2>8 DEF WritesInv
<1>4. CASE clearPending
  <2>1. result = "idle" /\ finalBlock' = Nil /\ UNCHANGED <<chain, workNumber>>
    BY <1>4 DEF clearPending, pendingMuFree, node
  <2>2. HandedOn' /\ WorkerInv'
    BY <1>0, <2>1, Undecided DEF WritesInv, HandedOn, WorkerInv
  <2> QED BY <1>1, <2>1, <2>2 DEF WritesInv
<1>5. CASE commitNewWork
  <2>1. /\ UNCHANGED <<possibleFinalBlock, finalBlock, chain>>
        /\ workNumber' \in {workNumber, Len(chain) + 1}
    BY <1>5 DEF commitNewWork, blocks, node
  <2>2. ChainInv'
    BY <1>0, <2>1, Undecided DEF WritesInv, ChainInv, WritesFinal
  <2> QED BY <1>1, <2>1, <2>2 DEF WritesInv
<1> QED BY <1>2, <1>3, <1>4, <1>5 DEF newWorkLoop, mainLoop

LEMMA NextWrites == WritesInv /\ [Next /\ UNCHANGED scenario]_<<vars, scenario>> => WritesInv'
<1> SUFFICES ASSUME WritesInv, [Next /\ UNCHANGED scenario]_<<vars, scenario>> PROVE WritesInv'
  OBVIOUS
<1>1. CASE Advance
  BY <1>1, AdvanceWrites
<1>2. CASE \E o \in Otprn : requestOtprn(o) \/ statusLoop(o) \/ vote(o)
  BY <1>2, StatusLoopWrites DEF statusLoop
<1>3. CASE reqSealConfirm
  BY <1>3, ConfirmWrites
<1>4. CASE startSend \/ setSubmitBlockCh \/ resultLoop
  BY <1>4, WorkerWrites
<1>5. CASE \/ PeerSends \/ Import \/ takeResult \/ (\E b \in Blocks : takeLeagueBlock(b))
           \/ newWorkLoop \/ mainLoop
  BY <1>5, OtherWrites
<1>6. CASE UNCHANGED <<vars, scenario>>
  BY <1>6, SameParts DEF vars, fairnode, client, blocks, worker, node, decides, WritesInv
<1> QED BY <1>1, <1>2, <1>3, <1>4, <1>5, <1>6 DEF Next, leagueStatusLoop

\* The chain of a miner is the decided one: whatever is late, lost or overtaken,
\* resultLoop writes at finalizeCh only the block that the fairnode stored and
\* signed for that height, with the votes that were counted.
THEOREM WritesDecided == Spec => []WritesFinal
<1>1. WritesInv => WritesFinal
  BY DEF WritesInv, ChainInv
<1> QED BY <1>1, InitWrites, NextWrites, PTL DEF Spec

-----------------------------------------------------------------------------
(* Why the answers are taken.                                              *)

\* Somebody waits on ch, and its votes are not still to be handed over.
Heard(ch) ==
    \E o \in Otprn : /\ loop[o] = "submit" /\ ch = submitTo(o)
                     /\ ~(lsl.at = "voteResult" /\ lsl.o = o)

\* The channel of the answer is the stored one from the moment leagueStatusLoop
\* is past voteResultCh, and resultLoop does not send before.
HeardInv ==
    /\ DOMAIN loop = Otprn /\ DOMAIN voters = Otprn /\ DOMAIN lsl = {"at", "o", "x"}
    /\ lsl.at = "vote" => lsl.o \in Otprn /\ loop[lsl.o] = "vote"
    /\ "race" \notin faults =>
           /\ lsl.at \in {"voteResult", "setSubmit"} => lsl.o \in Otprn /\ loop[lsl.o] = "submit"
           /\ lsl.at = "setSubmit" => result # "send"
           /\ result = "read" /\ lsl.at # "setSubmit" => Heard(submitBlockCh)
           /\ result = "send" => Heard(sendCh)

\* A loop that waits for its answer goes on waiting, and only the votes of
\* another loop are handed over in the meantime.
LEMMA HeardStays ==
    ASSUME NEW ch, Heard(ch),
           \A p \in Otprn : loop[p] = "submit" => loop'[p] = "submit" /\ voters'[p] = voters[p],
           lsl'.at = "voteResult" => lsl' = lsl \/ loop[lsl'.o] # "submit"
    PROVE  Heard(ch)'
BY DEF Heard, submitTo

\* Steps that touch the status loops and leagueStatusLoop only.
LEMMA StatusLoopHeard ==
    ASSUME HeardInv, UNCHANGED scenario, NEW o \in Otprn,
           requestOtprn(o) \/ statusRecv(o) \/ statusFeedSend(o) \/ vote(o)
    PROVE  HeardInv'
<1>0. UNCHANGED <<result, sendCh, submitBlockCh>>
  BY DEF requestOtprn, statusRecv, statusFeedSend, vote, channels, worker
<1>1. /\ loop[o] # "submit"
      /\ DOMAIN loop' = Otprn /\ \A p \in Otprn \ {o} : loop'[p] = loop[p]
      /\ DOMAIN voters' = Otprn /\ \A p \in Otprn \ {o} : voters'[p] = voters[p]
  BY DEF requestOtprn, statusRecv, statusFeedSend, vote, HeardInv
<1>2. CASE requestOtprn(o) \/ statusRecv(o)
  <2>1. lsl' = lsl /\ loop[o] # "vote"
    BY <1>2, Zenon DEF requestOtprn, statusRecv, worker
  <2>2. \A ch : Heard(ch) => Heard(ch)'
    BY <1>1, <2>1, HeardStays, Zenon
  <2> QED BY <1>0, <1>1, <2>1, <2>2, Zenon DEF HeardInv, faults, Heard, submitTo
<1>3. CASE statusFeedSend(o)
  <2>1. /\ lsl = Idle
        /\ DOMAIN lsl' = {"at", "o", "x"}
        /\ lsl'.at \notin {"vote", "voteResult", "setSubmit"}
           \/ (lsl'.at = "vote" /\ lsl'.o = o /\ loop'[o] = "vote")
           \/ (lsl'.at = "voteResult" /\ lsl'.o = o /\ loop'[o] = "submit")
    BY <1>3 DEF statusFeedSend, Idle, HeardInv
  <2>2. \A ch : Heard(ch) => Heard(ch)'
    BY <1>1, <2>1, HeardStays, Zenon
  <2>3. "race" \notin faults =>
            /\ result' = "read" => Heard(submitBlockCh)'
            /\ result' = "send" => Heard(sendCh)'
    <3>1. result' = result /\ lsl.at # "setSubmit"
      BY <1>0, <2>1 DEF Idle
    <3>2. "race" \notin faults =>
              /\ result = "read" => Heard(submitBlockCh)
              /\ result = "send" => Heard(sendCh)
      BY <3>1, Zenon DEF HeardInv
    <3> QED BY <1>0, <2>2, <3>1, <3>2, Zenon DEF Heard, submitTo
  <2>4. lsl.at # "setSubmit" /\ lsl'.at # "setSubmit"
    BY <2>1, Zenon DEF Idle
  <2> QED BY <1>1, <2>1, <2>3, <2>4, Zenon DEF HeardInv, faults
<1>4. CASE vote(o)
  <2>1. lsl' = Idle /\ lsl.at = "vote"
    BY <1>4, Zenon DEF vote
  <2>2. \A ch : Heard(ch) => Heard(ch)'
    BY <1>1, <2>1, HeardStays, Zenon DEF Idle
  <2> QED BY <1>0, <1>1, <2>1, <2>2, Zenon DEF HeardInv, faults, Heard, submitTo, Idle
<1> QED BY <1>2, <1>3, <1>4

\* Steps of leagueStatusLoop and resultLoop: the channel is stored before it is
\* read, and taken by the loop that made it.
LEMMA WorkerHeard ==
    ASSUME HeardInv, UNCHANGED scenario, startSend \/ setSubmitBlockCh \/ resultLoop
    PROVE  HeardInv'
<1>1. CASE startSend \/ leagueBroadCast \/ takeFnSign \/ takeFinalize
  <2>1. /\ UNCHANGED <<loop, voters, result, sendCh, submitBlockCh>> /\ lsl' = Idle
        /\ lsl.at # "setSubmit"
    BY <1>1, Zenon DEF startSend, leagueBroadCast, takeFnSign, takeFinalize, lslUnchanged, client, channels
  <2>2. \A ch : Heard(ch) => Heard(ch)'
    BY <2>1, HeardStays DEF Idle
  <2> QED BY <2>1, <2>2, Zenon DEF HeardInv, faults, Heard, submitTo, Idle
<1>2. CASE setSubmitBlockCh
  <2>1. /\ UNCHANGED <<loop, voters, result, sendCh>> /\ lsl' = Idle
        /\ lsl.at = "setSubmit" /\ submitBlockCh' = submitTo(lsl.o)
    BY <1>2 DEF setSubmitBlockCh, lslUnchanged, client
  <2>2. "race" \notin faults => Heard(submitBlockCh)' /\ result # "send"
    BY <2>1 DEF HeardInv, Heard, submitTo, Idle
  <2> QED BY <2>1, <2>2, Zenon DEF HeardInv, faults, Idle
<1>3. CASE takeVoteResult
  <2>1. /\ UNCHANGED <<loop, voters>> /\ lsl' = [lsl EXCEPT !.at = "setSubmit"]
        /\ lsl.at = "voteResult" /\ result' \in {"idle", "read"}
    BY <1>3 DEF takeVoteResult, lslUnchanged, client
  <2>2. DOMAIN lsl' = {"at", "o", "x"} /\ lsl'.at = "setSubmit" /\ lsl'.o = lsl.o
    BY <2>1, Zenon DEF HeardInv
  <2> QED BY <2>1, <2>2 DEF HeardInv, faults
<1>4. CASE readSubmitBlockCh
  <2>1. /\ UNCHANGED <<loop, voters, lsl>> /\ result = "read" /\ result' = "send"
        /\ sendCh' = submitBlockCh
        /\ "race" \in faults \/ lsl.at # "setSubmit"
    BY <1>4, Zenon DEF readSubmitBlockCh, lslUnchanged, client
  <2>2. \A ch : Heard(ch) => Heard(ch)'
    BY <2>1, HeardStays, Zenon
  <2> QED BY <2>1, <2>2 DEF HeardInv, faults, Heard, submitTo
<1>5. ASSUME NEW o \in Otprn, submitBlock(o) PROVE HeardInv'
  <2>1. /\ UNCHANGED <<voters, lsl>> /\ result = "send" /\ result' = "idle"
        /\ loop[o] = "submit" /\ sendCh = submitTo(o) /\ loop' = [loop EXCEPT ![o] = "recv"]
    BY <1>5, Zenon DEF submitBlock
  <2>2. "race" \notin faults => lsl.at # "setSubmit" /\ ~(lsl.at = "voteResult" /\ lsl.o = o)
    BY <2>1 DEF HeardInv, Heard, submitTo
  <2> QED BY <2>1, <2>2, Zenon DEF HeardInv, faults
<1> QED BY <1>1, <1>2, <1>3, <1>4, <1>5, Zenon DEF resultLoop

LEMMA SameHeard ==
    ASSUME HeardInv, UNCHANGED <<scenario, loop, voters, result, sendCh, submitBlockCh>>,
           lsl' = lsl \/ \E c : lsl = Idle /\ lsl' = [at |-> "fnSign", o |-> c.o, x |-> c.sealed]
    PROVE  HeardInv'
<1>1. \A ch : Heard(ch) => Heard(ch)'
  BY HeardStays
<1>2. "race" \notin faults =>
          /\ result' = "read" /\ lsl.at # "setSubmit" => Heard(submitBlockCh)'
          /\ result' = "send" => Heard(sendCh)'
  BY <1>1, Zenon DEF HeardInv, Heard, submitTo
<1>3. CASE lsl' = lsl
  BY <1>2, <1>3, Zenon DEF HeardInv, faults
<1>4. CASE lsl' # lsl
  <2>1. /\ lsl.at = "idle" /\ lsl'.at = "fnSign" /\ DOMAIN lsl' = {"at", "o", "x"}
    BY <1>4 DEF Idle
  <2> QED BY <1>2, <2>1, Zenon DEF HeardInv, faults
<1> QED BY <1>3, <1>4, Zenon

LEMMA NextHeard == HeardInv /\ [Next /\ UNCHANGED scenario]_<<vars, scenario>> => HeardInv'
<1> SUFFICES ASSUME HeardInv, [Next /\ UNCHANGED scenario]_<<vars, scenario>> PROVE HeardInv'
  OBVIOUS
<1>1. CASE UNCHANGED <<vars, scenario>>
  BY <1>1, SameHeard DEF vars, client, channels, worker
<1>2. CASE Next /\ UNCHANGED scenario
  <2>1. CASE \E o \in Otprn : requestOtprn(o) \/ statusLoop(o) \/ vote(o)
    BY <1>2, <2>1, StatusLoopHeard DEF statusLoop
  <2>2. CASE startSend \/ setSubmitBlockCh \/ resultLoop
    BY <1>2, <2>2, WorkerHeard
  <2>3. CASE reqSealConfirm
    <3>1. UNCHANGED <<loop, voters, result, sendCh, submitBlockCh>>
      BY <2>3, Zenon DEF reqSealConfirm, confirmOpen, sendBlock, confirmEnd, requestFairnodeSign,
                  confirmFeedSend, channels, worker
    <3>2. lsl' = lsl \/ \E c : lsl = Idle /\ lsl' = [at |-> "fnSign", o |-> c.o, x |-> c.sealed]
      BY <2>3, Zenon DEF reqSealConfirm, confirmOpen, sendBlock, confirmEnd, requestFairnodeSign,
                  confirmFeedSend, worker
    <3> QED BY <1>2, <3>1, <3>2, SameHeard, Zenon
  <2>4. CASE \/ Advance \/ PeerSends \/ Import \/ takeResult
             \/ (\E b \in Blocks : takeLeagueBlock(b)) \/ newWorkLoop \/ mainLoop
    <3>1. UNCHANGED <<loop, voters, lsl, result, sendCh, submitBlockCh>>
      BY <2>4, Zenon DEF Advance, PeerSends, Import, takeResult, takeLeagueBlock, newWorkLoop, takeStart,
                  takeChainHead, clearPending, commit, mainLoop, commitNewWork, Seal,
                  lslUnchanged, client, channels, worker
    <3> QED BY <1>2, <3>1, SameHeard
  <2> QED BY <1>2, <2>1, <2>2, <2>3, <2>4 DEF Next, leagueStatusLoop
<1> QED BY <1>1, <1>2

\* Whatever the worker offers is taken: leagueStatusLoop's vote by the status
\* loop that asked for it, and resultLoop's block, sent while pendingMu is held,
\* by the status loop that waits on just that channel, unless resultLoop reads
\* submitBlockCh before leagueStatusLoop has stored it.
THEOREM AnswersAreTaken == Spec => []WorkerIsHeard
<1>1. Init => HeardInv
  <2>1. Init => DOMAIN loop = Otprn /\ DOMAIN voters = Otprn /\ lsl = Idle /\ result = "idle"
    BY DEF Init
  <2>2. DOMAIN Idle = {"at", "o", "x"} /\ Idle.at = "idle"
    BY DEF Idle
  <2> QED BY <2>1, <2>2 DEF HeardInv
<1>2. HeardInv => WorkerIsHeard
  BY Zenon DEF HeardInv, WorkerIsHeard, Heard
<1> QED BY <1>1, <1>2, NextHeard, PTL DEF Spec

-----------------------------------------------------------------------------
(* The connection.  Start sets dc.running after it has started heartBeat,  *)
(* and that goroutine is still there when it does.                         *)
ClientInv ==
    /\ DOMAIN beat = Beat
    /\ \A b \in started : b \in Beat /\ beat[b] = "run"
    /\ RunningIsAlive

LEMMA NextClient ==
    ASSUME Faults = {}, ClientInv, [ClientNext]_clientVars
    PROVE  ClientInv'
<1> USE DEF ClientInv, RunningIsAlive
<1>1. CASE start \/ retry \/ stopSends \/ stopEnds
           \/ clientStatusLoop \/ stopMining
  BY <1>1 DEF start, retry, stopSends, stopEnds, clientStatusLoop,
              stopMining
<1>2. ASSUME NEW t, Dial(t) PROVE ClientInv'
  <2>1. PICK b \in Beat : beat' = [beat EXCEPT ![b] = "run"] /\ started' = started \cup {b}
    BY <1>2, Zenon DEF Dial
  <2> QED BY <1>2, <2>1 DEF Dial
<1>3. ASSUME NEW b \in Beat, Started(b) PROVE ClientInv'
  BY <1>3 DEF Started
<1>4. ASSUME NEW b \in Beat, heartBeatFails(b) \/ heartBeatSends(b)
      PROVE  ClientInv'
  <2>1. started = {}
    BY <1>4 DEF heartBeatFails, heartBeatSends, Undisturbed, Stored
  <2>2. \E s \in {"send", "store"} : beat' = [beat EXCEPT ![b] = s]
    BY <1>4 DEF heartBeatFails, heartBeatSends
  <2>3. UNCHANGED <<running, stop, started>>
    BY <1>4 DEF heartBeatFails, heartBeatSends
  <2> QED BY <2>1, <2>2, <2>3
<1>5. ASSUME NEW b \in Beat, heartBeatEnds(b) PROVE ClientInv'
  BY <1>5 DEF heartBeatEnds
<1>6. CASE UNCHANGED clientVars
  BY <1>6 DEF clientVars
<1> QED BY <1>1, <1>2, <1>3, <1>4, <1>5, <1>6, Zenon
        DEF ClientNext, Start, Stop, heartBeat

\* A client that says it is running has a heartBeat that is alive, or a close that
\* is about to say otherwise, if no goroutine runs between two adjacent statements
\* of Start or close: Start does not refuse to connect a dead client for good.
THEOREM RunningHasHeartBeat == ASSUME Faults = {} PROVE ClientSpec => []RunningIsAlive
<1>1. ClientInit => ClientInv
  BY DEF ClientInit, ClientInv, RunningIsAlive
<1>2. ClientInv /\ [ClientNext]_clientVars => ClientInv'
  BY NextClient
<1>3. ClientInv => RunningIsAlive
  BY DEF ClientInv
<1> QED BY <1>1, <1>2, <1>3, PTL DEF ClientSpec
=============================================================================
