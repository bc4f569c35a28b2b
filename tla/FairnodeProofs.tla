--------------------------- MODULE FairnodeProofs ---------------------------
(***************************************************************************)
(* Theorems about Fairnode for every set of miners and otprns, every       *)
(* configuration and every combination of faults.                          *)
(***************************************************************************)
EXTENDS Fairnode, TLAPS

-----------------------------------------------------------------------------
\* Type correctness needs one fact more than the types: between the choice of
\* an otprn and SaveOtprn the goroutine holds one.
Drawn == mpc \in {"add", "save"} => otpHash \in Otprn
TypeInv == TypeOK /\ Drawn

\* Without delays, database errors and restarts.
Calm == Faults \subseteq {"silent"}

\* An insert keeps what is there and leaves a document with the hash.
LEMMA InsertAdds ==
    ASSUME NEW col, NEW f
    PROVE  /\ col \subseteq Insert(col, f)
           /\ \E g \in Insert(col, f) : g.block = f.block
           /\ \A g \in Insert(col, f) : g \in col \/ g.block = f.block
BY DEF Insert

\* The number of a stored block is a natural number.
LEMMA StoredNumber ==
    ASSUME TypeOK, NEW f \in blockChain
    PROVE  f.block.num \in Nat
<1>1. CASE f \in Final
  BY <1>1 DEF Final, Block
<1>2. CASE f \in BaseFinal
  BY <1>2, ConfigAssumption DEF BaseFinal, BaseBlock
<1> QED BY <1>1, <1>2 DEF TypeOK

\* What the database answers is a block number or nil.
LEMMA DatabaseAnswers ==
    ASSUME TypeOK
    PROVE  CurrentBlock \subseteq Nat \cup {Nil} /\ CurrentInfo \subseteq Nat \cup {Nil}
<1>1. \A xs \in SUBSET (Nat \cup {Nil}) : Answer(xs, Nil) \subseteq Nat \cup {Nil}
  BY Zenon DEF Answer
<1>2. CurrentBlock \subseteq Nat \cup {Nil}
  <2>1. {IF GetBlock(f.block) THEN f.block.num ELSE Nil : f \in Newest} \subseteq Nat \cup {Nil}
    BY StoredNumber DEF Newest
  <2> QED BY <1>1, <2>1 DEF CurrentBlock
<1>3. CurrentInfo \subseteq Nat \cup {Nil}
  <2>1. {f.block.num : f \in Newest} \subseteq Nat \cup {Nil}
    BY StoredNumber DEF Newest
  <2> QED BY <1>1, <2>1 DEF CurrentInfo
<1> QED BY <1>2, <1>3

\* The winner of a count is a voted block, or the zero hash without votes.
LEMMA WinnerIsVoted ==
    ASSUME NEW vs, NEW h \in FinalBlockHash(vs)
    PROVE  \/ vs = {} /\ h = ZeroHash
           \/ \E v \in vs : /\ v.block = h
                            /\ \A w \in vs : Count(vs, w.block) <= Count(vs, h)
BY DEF FinalBlockHash

\* GetVoters answers ballots of the league and height asked for, or none.
LEMMA VotersOfKey ==
    ASSUME TypeOK, NEW o, NEW n, NEW vs \in Answer({GetVoters(o, n)}, {})
    PROVE  /\ vs \subseteq votes
           /\ vs \in SUBSET Ballot
           /\ \A v \in vs : v.block.otprn = o /\ v.block.num = n
<1>1. vs \subseteq GetVoters(o, n)
  BY DEF Answer
<1> QED BY <1>1 DEF GetVoters, TypeOK

-----------------------------------------------------------------------------
LEMMA InitTypeInv == Init => TypeInv
<1> SUFFICES ASSUME Init PROVE TypeInv
  OBVIOUS
<1>1. lastBlock \in Nat \cup {Nil} /\ blockChain = BaseFinal /\ blockChainRaw = BaseFinal
  BY ConfigAssumption DEF Init
<1>2. otprnList \in Seq(Otprn)
  BY DEF Init
<1> QED BY <1>1, <1>2 DEF Init, TypeInv, TypeOK, Drawn, FnStatus, Round

\* The goroutine makeOtprn keeps the types.
LEMMA MakeOtprnType == TypeInv /\ MakeOtprn => TypeInv'
<1> SUFFICES ASSUME TypeInv, MakeOtprn PROVE TypeInv'
  OBVIOUS
<1> USE DEF TypeInv, TypeOK, Drawn
<1> USE DEF pointers, league, ploop, mloop, members, chain
<1>1. CASE MakeOtprnTick
  BY <1>1 DEF MakeOtprnTick
<1>2. CASE NewOtprn
  BY <1>2 DEF NewOtprn, Fresh
<1>6. CASE NoConfig
  BY <1>6, Zenon DEF NoConfig
<1>3. CASE AddLeague
  <2>1. LastNumber \in Nat
    BY DEF LastNumber
  <2> QED BY <1>3, <2>1 DEF AddLeague, FnStatus
<1>4. CASE SaveOtprn
  <2>1. otprnList' \in Seq(Otprn)
    <3>1. otprnList' = otprnList \/ otprnList' = Append(otprnList, otpHash)
      BY <1>4 DEF SaveOtprn, Answer
    <3>2. Append(otprnList, otpHash) \in Seq(Otprn)
      BY <1>4 DEF SaveOtprn
    <3> QED BY <3>1, <3>2, Zenon
  <2> QED BY <1>4, <2>1 DEF SaveOtprn
<1>5. CASE Decide
  <2>1. \A n : EpochStatus(n) \in FnStatus
    BY DEF EpochStatus, FnStatus, Round
  <2>2. Status' \in [Otprn -> FnStatus]
    <3>1. \/ Status' = Status
          \/ \E o \in Otprn, st \in FnStatus : Status' = [Status EXCEPT ![o] = st]
      BY <1>5, <2>1, Zenon DEF Decide
    <3> QED BY <3>1, Zenon
  <2>3. up' \in BOOLEAN /\ isCur' \in BOOLEAN
    BY <1>5, Zenon DEF Decide
  <2>4. mpc' \in {"select", "decide", "fresh"}
    BY <1>5, Zenon DEF Decide
  <2> QED BY <1>5, <2>2, <2>3, <2>4 DEF Decide
<1> QED BY <1>1, <1>2, <1>3, <1>4, <1>5, <1>6 DEF MakeOtprn

\* Writing a status keeps the type of the status table.
LEMMA SetStatusType ==
    ASSUME Status \in [Otprn -> FnStatus], NEW o \in Otprn, NEW st \in FnStatus,
           SetStatus(o, st)
    PROVE  Status' \in [Otprn -> FnStatus]
BY Zenon DEF SetStatus

\* The steps of processManageLoop that end a sleep or start one keep the types.
LEMMA ManageLoopSleepType ==
    ASSUME TypeInv, NEW o \in Otprn,
           \/ SleepTick(o) \/ MakeJoinTxTick(o) \/ Wake(o) \/ RejectWake(o)
           \/ FinalizeWake \/ Signal
    PROVE  TypeInv'
<1> USE DEF TypeInv, TypeOK, Drawn
<1> USE DEF pointers, league, ploop, mloop, members, chain
<1>1. CASE SleepTick(o)
  BY <1>1 DEF SleepTick, Tick
<1>2. CASE MakeJoinTxTick(o)
  BY <1>2 DEF MakeJoinTxTick, Tick
<1>3. CASE Wake(o)
  <2>1. AfterSleep[pstatus] \in FnStatus
    BY <1>3 DEF Wake, AfterSleep, FnStatus, Round
  <2>2. Status' \in [Otprn -> FnStatus]
    BY <1>3, <2>1, SetStatusType DEF Wake
  <2> QED BY <1>3, <2>2 DEF Wake
<1>4. CASE RejectWake(o)
  <2>1. CurrentBlock \subseteq Nat \cup {Nil} /\ CurrentInfo \subseteq Nat \cup {Nil}
    BY DatabaseAnswers
  <2>2. lastBlock' \in Nat \cup {Nil}
    BY <1>4, <2>1 DEF RejectWake
  <2>3. Current' \in [Otprn -> Nat]
    BY <1>4, <2>1, Zenon DEF RejectWake
  <2>4. up' \in BOOLEAN
    BY <1>4, Zenon DEF RejectWake
  <2>5. currentLeague' \in Otprn \cup {Nil} /\ pendingLeague' \in Otprn \cup {Nil}
    BY <1>4, Zenon DEF RejectWake
  <2>6. leagues' \subseteq Otprn /\ ppc' = "tick"
    BY <1>4 DEF RejectWake
  <2> QED BY <1>4, <2>2, <2>3, <2>4, <2>5, <2>6 DEF RejectWake
<1>5. CASE FinalizeWake
  BY <1>5 DEF FinalizeWake
<1>6. CASE Signal
  BY <1>6 DEF Signal
<1> QED BY <1>1, <1>2, <1>3, <1>4, <1>5, <1>6

\* The ticks of processManageLoop that write a status at once keep the types.
LEMMA ManageLoopTickType ==
    ASSUME TypeInv, NEW o \in Otprn,
           PendingTick(o) \/ VoteCountingTick(o) \/ SendBlockTick(o) \/ FinalizeTick(o)
    PROVE  TypeInv'
<1> USE DEF TypeInv, TypeOK, Drawn
<1> USE DEF pointers, league, ploop, mloop, members, chain
<1>0. "MAKE_LEAGUE" \in FnStatus /\ "REJECT" \in FnStatus /\ "REQ_FAIRNODE_SIGN" \in FnStatus
  BY Zenon DEF FnStatus, Round
<1>1. CASE PendingTick(o)
  <2>1. Status' \in [Otprn -> FnStatus]
    BY <1>0, <1>1, Zenon DEF PendingTick, SetStatus
  <2>2. pstatus' \in FnStatus /\ leageuWaitAttampt' \in Nat
    BY <1>1 DEF PendingTick, Tick, FnStatus
  <2> QED BY <1>1, <2>1, <2>2 DEF PendingTick
<1>2. CASE VoteCountingTick(o)
  <2>0. PICK voters \in Answer({GetVoters(o, Current[o] + 1)}, {}) :
          \/ SetStatus(o, "REJECT") /\ UNCHANGED <<BlockHash, Votehash, ppc>>
          \/ /\ \E h \in FinalBlockHash(voters) : BlockHash' = [BlockHash EXCEPT ![o] = h]
             /\ Votehash' = [Votehash EXCEPT ![o] = voters]
             /\ ppc' = "sleep"
             /\ UNCHANGED Status
    BY <1>2, Zenon DEF VoteCountingTick
  <2>1. voters \in SUBSET Ballot
    <3>1. voters \subseteq votes
      BY DEF Answer, GetVoters
    <3> QED BY <3>1
  <2>2. FinalBlockHash(voters) \subseteq Block \cup {Nil, ZeroHash}
    BY <2>1, WinnerIsVoted DEF Ballot
  <2>3. BlockHash' \in [Otprn -> Block \cup {Nil, ZeroHash}]
    BY <2>0, <2>2, Zenon
  <2>4. Votehash' \in [Otprn -> (SUBSET Ballot) \cup {Nil}]
    BY <2>0, <2>1, Zenon
  <2>5. Status' \in [Otprn -> FnStatus]
    BY <1>0, <2>0, Zenon DEF SetStatus
  <2>6. pstatus' \in FnStatus /\ ppc' \in {"tick", "sleep", "signal"}
    BY <1>2, <2>0 DEF VoteCountingTick, Tick, FnStatus, Round
  <2> QED BY <1>2, <2>3, <2>4, <2>5, <2>6 DEF VoteCountingTick
<1>3. CASE SendBlockTick(o)
  <2>1. Status' \in [Otprn -> FnStatus]
    BY <1>0, <1>3, Zenon DEF SendBlockTick, SetStatus
  <2>2. sendBlockAttampt' \in {0, sendBlockAttampt, sendBlockAttampt + 1}
        /\ pstatus' = "SEND_BLOCK" /\ sendBlockAttampt \in Nat
    BY <1>3, Zenon DEF SendBlockTick, Tick
  <2>3. up' \in BOOLEAN
    BY <1>3 DEF SendBlockTick
  <2>4. pstatus' \in FnStatus /\ sendBlockAttampt' \in Nat
    BY <2>2 DEF FnStatus, Round
  <2> QED BY <1>3, <2>1, <2>3, <2>4 DEF SendBlockTick
<1>4. CASE FinalizeTick(o)
  <2>1. PICK n \in CurrentBlock :
          IF n # Nil
          THEN /\ lastBlock' = n
               /\ Current' = [Current EXCEPT ![o] = n]
               /\ Votehash' = [Votehash EXCEPT ![o] = Nil]
               /\ BlockHash' = [BlockHash EXCEPT ![o] = Nil]
               /\ ppc' = "sleep"
               /\ UNCHANGED <<up, Status, chain>>
          ELSE /\ up' = (BlockHash[o] # Nil)
               /\ blockChain' \in Answer({RemoveBlock(blockChain, BlockHash[o])}, blockChain)
               /\ blockChainRaw' \in Answer({RemoveBlock(blockChainRaw, BlockHash[o])}, blockChainRaw)
               /\ IF BlockHash[o] # Nil THEN SetStatus(o, "REJECT")
                                        ELSE UNCHANGED Status
               /\ UNCHANGED <<lastBlock, Current, Votehash, BlockHash, ppc>>
    BY <1>4, Zenon DEF FinalizeTick
  <2>2. n \in Nat \cup {Nil}
    BY DatabaseAnswers, Zenon
  <2>3. pstatus' \in FnStatus
    BY <1>4, Zenon DEF FinalizeTick, Tick, FnStatus, Round
  <2>4. CASE n # Nil
    BY <1>4, <2>1, <2>2, <2>3, <2>4, Zenon DEF FinalizeTick
  <2>5. CASE n = Nil
    <3>1. Status' \in [Otprn -> FnStatus]
      BY <1>0, <2>1, <2>5, Zenon DEF SetStatus
    <3>2. up' \in BOOLEAN
      BY <2>1, <2>5, Zenon
    <3>3. blockChain' \subseteq blockChain /\ blockChainRaw' \subseteq blockChainRaw
      BY <2>1, <2>5 DEF Answer, RemoveBlock
    <3> QED BY <1>4, <2>1, <2>3, <2>5, <3>1, <3>2, <3>3, Zenon DEF FinalizeTick
  <2> QED BY <2>4, <2>5, Zenon
<1> QED BY <1>1, <1>2, <1>3, <1>4, Zenon

\* A candidate is a block.
LEMMA CandidateIsBlock ==
    ASSUME TypeOK, NEW b \in Candidates
    PROVE  b \in Block
<1>1. leagues \subseteq Otprn /\ Sealer \subseteq Miner /\ 1 .. MaxHeight \subseteq Nat
  BY ConfigAssumption DEF TypeOK
<1> QED BY <1>1 DEF Candidates, Block

\* A league that has a winner also has the list of its voters.
Counted == \A o \in Otprn : BlockHash[o] \notin {Nil, ZeroHash} => Votehash[o] \subseteq Ballot

\* The database handlers and the node registry keep the types.
LEMMA RequestsType ==
    ASSUME TypeInv, Requests, Counted
    PROVE  TypeInv'
<1> USE DEF TypeInv, TypeOK, Drawn
<1> USE DEF pointers, league, ploop, mloop, members, chain
<1>1. ASSUME NEW m \in Miner, CleanOldNode(m) PROVE TypeInv'
  BY <1>1 DEF CleanOldNode
<1>2. ASSUME NEW m \in Miner, RequestOtprn(m) PROVE TypeInv'
  BY <1>2 DEF RequestOtprn
<1>3. ASSUME NEW m \in Miner, NEW head, HeartBeat(m, head) PROVE TypeInv'
  BY <1>3 DEF HeartBeat
<1>4. ASSUME NEW m \in Miner, NEW b \in Candidates, Vote(m, b) PROVE TypeInv'
  <2>1. [voter |-> m, block |-> b] \in Ballot
    BY CandidateIsBlock DEF Ballot
  <2> QED BY <1>4, <2>1 DEF Vote
<1>5. ASSUME NEW o \in leagues, NEW b \in {BlockHash[o]} \ {Nil, ZeroHash},
             SendBlock(b, Votehash[o])
      PROVE  TypeInv'
  <2>1. b \in Block /\ Votehash[o] \in SUBSET Ballot
    BY DEF Counted
  <2> QED BY <1>5, <2>1 DEF SendBlock
<1>6. ASSUME NEW o \in leagues, NEW b \in {BlockHash[o]} \ {Nil, ZeroHash},
             RequestFairnodeSign(b, Votehash[o])
      PROVE  TypeInv'
  <2>1. b \in Block /\ Votehash[o] \in SUBSET Ballot
    BY DEF Counted
  <2>2. [block |-> b, voters |-> Votehash[o]] \in Final
    BY <2>1 DEF Final
  <2> QED BY <1>6, <2>2 DEF RequestFairnodeSign
<1>7. ASSUME NEW s \in saving, SaveIndexed(s) PROVE TypeInv'
  <2>1. [block |-> s.block, voters |-> s.voters] \in Final
    BY DEF Final
  <2>2. blockChain' \subseteq Final \cup BaseFinal
    BY <1>7, <2>1 DEF SaveIndexed, Insert
  <2>3. saving' \subseteq [block : Block, voters : SUBSET Ballot,
                           next : {"blockChain", "blockChainRaw"}]
    BY <1>7, Zenon DEF SaveIndexed
  <2> QED BY <1>7, <2>2, <2>3 DEF SaveIndexed
<1>8. ASSUME NEW s \in saving, SaveRaw(s) PROVE TypeInv'
  <2>1. [block |-> s.block, voters |-> s.voters] \in Final
    BY DEF Final
  <2>2. blockChainRaw' \subseteq Final \cup BaseFinal
    BY <1>8, <2>1 DEF SaveRaw, Insert
  <2> QED BY <1>8, <2>2 DEF SaveRaw
<1>9. ASSUME NEW s \in saving, SaveFails(s) PROVE TypeInv'
  BY <1>9 DEF SaveFails
<1> QED BY <1>1, <1>2, <1>3, <1>4, <1>5, <1>6, <1>7, <1>8, <1>9, Zenon DEF Requests

LEMMA RestartType == TypeInv /\ Restart => TypeInv'
<1> SUFFICES ASSUME TypeInv, Restart PROVE TypeInv'
  OBVIOUS
<1>1. lastBlock' \in Nat \cup {Nil}
  BY DatabaseAnswers DEF Restart, TypeInv
<1> QED BY <1>1 DEF Restart, TypeInv, TypeOK, Drawn, FnStatus, chain

-----------------------------------------------------------------------------
\* Why only elected blocks are stored: the hashes a league holds always come
\* from one count, and a SendBlock call under way carries such a pair along.
LeagueElected ==
    \A o \in Otprn : BlockHash[o] \notin {Nil, ZeroHash} =>
        Elected(votes, [block |-> BlockHash[o], voters |-> Votehash[o]])
SavingElected ==
    \A s \in saving : Elected(votes, [block |-> s.block, voters |-> s.voters])
ElectedInv == LeagueElected /\ SavingElected /\ OnlyElected
IInv == TypeInv /\ ElectedInv

\* More ballots do not undo an election: it names the ballots it counted.
LEMMA ElectedStays ==
    ASSUME NEW bs, NEW cs, bs \subseteq cs, NEW f, Elected(bs, f)
    PROVE  Elected(cs, f)
BY DEF Elected

\* A count that finds enough ballots elects its winner.
LEMMA CountElects ==
    ASSUME TypeOK, NEW o, NEW n, NEW vs \in Answer({GetVoters(o, n)}, {}),
           Cardinality(vs) >= MinMiner - 1,
           NEW h \in FinalBlockHash(vs), h # ZeroHash
    PROVE  Elected(votes, [block |-> h, voters |-> vs])
<1>1. vs \subseteq votes /\ \A v \in vs : v.block.otprn = o /\ v.block.num = n
  BY VotersOfKey
<1>2. \E v \in vs : v.block = h /\ \A w \in vs : Count(vs, w.block) <= Count(vs, h)
  BY WinnerIsVoted
<1> QED BY <1>1, <1>2 DEF Elected

\* A step that adds ballots, changes no league hash and stores nothing new.
LEMMA ElectedFrame ==
    ASSUME ElectedInv, votes \subseteq votes',
           BlockHash' = BlockHash, Votehash' = Votehash,
           saving' \subseteq saving, blockChain' \subseteq blockChain,
           blockChainRaw' \subseteq blockChainRaw, signed' \subseteq signed
    PROVE  ElectedInv'
<1>1. LeagueElected'
  BY ElectedStays DEF ElectedInv, LeagueElected
<1>2. SavingElected'
  <2> SUFFICES ASSUME NEW s \in saving'
               PROVE  Elected(votes', [block |-> s.block, voters |-> s.voters])
    BY Zenon DEF SavingElected
  <2>1. Elected(votes, [block |-> s.block, voters |-> s.voters])
    BY DEF ElectedInv, SavingElected
  <2> QED BY <2>1, ElectedStays
<1>3. OnlyElected'
  BY ElectedStays DEF ElectedInv, OnlyElected, BaseFinal, BaseBlock
<1> QED BY <1>1, <1>2, <1>3 DEF ElectedInv

LEMMA InitIInv == Init => IInv
<1> SUFFICES ASSUME Init PROVE IInv
  OBVIOUS
<1>1. LeagueElected
  BY DEF Init, LeagueElected
<1>2. SavingElected /\ OnlyElected
  BY DEF Init, SavingElected, OnlyElected
<1> QED BY InitTypeInv, <1>1, <1>2 DEF IInv, ElectedInv

\* makeOtprn and restarts store nothing and leave the league hashes alone.
LEMMA QuietSteps ==
    ASSUME ElectedInv, MakeOtprn \/ Restart
    PROVE  ElectedInv'
<1>1. /\ votes' = votes /\ BlockHash' = BlockHash /\ Votehash' = Votehash
      /\ saving' \subseteq saving /\ signed' = signed
      /\ blockChain' = blockChain /\ blockChainRaw' = blockChainRaw
  BY Zenon DEF MakeOtprn, MakeOtprnTick, NewOtprn, NoConfig, AddLeague, SaveOtprn, Decide, Restart,
         league, members, chain
<1> QED BY <1>1, ElectedFrame

\* processManageLoop: only a count gives a league new hashes.
LEMMA ManageLoopElected ==
    ASSUME IInv, ProcessManageLoop
    PROVE  ElectedInv'
<1> USE DEF pointers, league, ploop, mloop, members, chain
<1>1. ASSUME NEW o \in Otprn,
             \/ PendingTick(o) \/ SleepTick(o) \/ MakeJoinTxTick(o) \/ SendBlockTick(o)
             \/ Wake(o) \/ RejectWake(o)
      PROVE  ElectedInv'
  <2>1. /\ votes' = votes /\ BlockHash' = BlockHash /\ Votehash' = Votehash
        /\ saving' = saving /\ signed' = signed
        /\ blockChain' = blockChain /\ blockChainRaw' = blockChainRaw
    BY <1>1, Zenon DEF PendingTick, SleepTick, MakeJoinTxTick, SendBlockTick, Wake, RejectWake
  <2> QED BY <2>1, ElectedFrame DEF IInv
<1>2. ASSUME NEW o \in Otprn, VoteCountingTick(o) PROVE ElectedInv'
  <2>0. PICK vs \in Answer({GetVoters(o, Current[o] + 1)}, {}) :
          \/ UNCHANGED <<BlockHash, Votehash>>
          \/ \E h \in FinalBlockHash(vs) :
                /\ Cardinality(vs) >= MinMiner - 1
                /\ BlockHash' = [BlockHash EXCEPT ![o] = h]
                /\ Votehash' = [Votehash EXCEPT ![o] = vs]
    BY <1>2 DEF VoteCountingTick
  <2>1. /\ votes' = votes /\ saving' = saving /\ signed' = signed
        /\ blockChain' = blockChain /\ blockChainRaw' = blockChainRaw
    BY <1>2 DEF VoteCountingTick
  <2>2. CASE BlockHash' = BlockHash /\ Votehash' = Votehash
    BY <2>1, <2>2, ElectedFrame DEF IInv
  <2>3. CASE \E h \in FinalBlockHash(vs) :
                /\ Cardinality(vs) >= MinMiner - 1
                /\ BlockHash' = [BlockHash EXCEPT ![o] = h]
                /\ Votehash' = [Votehash EXCEPT ![o] = vs]
    <3>1. PICK h \in FinalBlockHash(vs) :
                /\ Cardinality(vs) >= MinMiner - 1
                /\ BlockHash' = [BlockHash EXCEPT ![o] = h]
                /\ Votehash' = [Votehash EXCEPT ![o] = vs]
      BY <2>3, Zenon
    <3>2. h # ZeroHash => Elected(votes, [block |-> h, voters |-> vs])
      BY <3>1, CountElects DEF IInv, TypeInv
    <3>3. LeagueElected'
      <4> SUFFICES ASSUME NEW p \in Otprn, BlockHash'[p] \notin {Nil, ZeroHash}
                   PROVE  Elected(votes, [block |-> BlockHash'[p], voters |-> Votehash'[p]])
        BY <2>1 DEF LeagueElected
      <4>1. CASE p = o
        <5>1. BlockHash'[p] = h /\ Votehash'[p] = vs
          BY <3>1, <4>1, Zenon DEF IInv, TypeInv, TypeOK
        <5> QED BY <3>2, <5>1
      <4>2. CASE p # o
        <5>1. BlockHash'[p] = BlockHash[p] /\ Votehash'[p] = Votehash[p]
          BY <3>1, <4>2 DEF IInv, TypeInv, TypeOK
        <5> QED BY <5>1 DEF IInv, ElectedInv, LeagueElected
      <4> QED BY <4>1, <4>2
    <3>4. SavingElected' /\ OnlyElected'
      BY <2>1 DEF IInv, ElectedInv, SavingElected, OnlyElected, BaseFinal, BaseBlock
    <3> QED BY <3>3, <3>4 DEF ElectedInv
  <2> QED BY <2>0, <2>2, <2>3
<1>3. ASSUME NEW o \in Otprn, FinalizeTick(o) PROVE ElectedInv'
  <2>1. /\ votes' = votes /\ saving' = saving /\ signed' = signed
        /\ blockChain' \subseteq blockChain /\ blockChainRaw' \subseteq blockChainRaw
    BY <1>3 DEF FinalizeTick, RemoveBlock, Answer
  <2>2. CASE BlockHash' = BlockHash /\ Votehash' = Votehash
    BY <2>1, <2>2, ElectedFrame DEF IInv
  <2>3. CASE /\ BlockHash' = [BlockHash EXCEPT ![o] = Nil]
             /\ Votehash' = [Votehash EXCEPT ![o] = Nil]
    <3>1. LeagueElected'
      <4> SUFFICES ASSUME NEW p \in Otprn, BlockHash'[p] \notin {Nil, ZeroHash}
                   PROVE  Elected(votes, [block |-> BlockHash'[p], voters |-> Votehash'[p]])
        BY <2>1 DEF LeagueElected
      <4>1. p # o /\ BlockHash'[p] = BlockHash[p] /\ Votehash'[p] = Votehash[p]
        BY <2>3 DEF IInv, TypeInv, TypeOK
      <4> QED BY <4>1 DEF IInv, ElectedInv, LeagueElected
    <3>2. SavingElected' /\ OnlyElected'
      BY <2>1 DEF IInv, ElectedInv, SavingElected, OnlyElected, BaseFinal, BaseBlock
    <3> QED BY <3>1, <3>2 DEF ElectedInv
  <2> QED BY <1>3, <2>2, <2>3 DEF FinalizeTick
<1>4. CASE FinalizeWake \/ Signal
  <2>1. /\ votes' = votes /\ BlockHash' = BlockHash /\ Votehash' = Votehash
        /\ saving' = saving /\ signed' = signed
        /\ blockChain' = blockChain /\ blockChainRaw' = blockChainRaw
    BY <1>4 DEF FinalizeWake, Signal
  <2> QED BY <2>1, ElectedFrame DEF IInv
<1> QED BY <1>1, <1>2, <1>3, <1>4 DEF ProcessManageLoop

\* The handlers: SendBlock and RequestFairnodeSign copy a league's hashes,
\* SaveFinalBlock what SendBlock accepted, and a vote only adds a ballot.
LEMMA RequestsElected ==
    ASSUME IInv, Requests
    PROVE  ElectedInv'
<1> USE DEF pointers, league, ploop, mloop, members, chain
<1>1. ASSUME NEW m \in Miner, NEW b,
             \/ CleanOldNode(m) \/ RequestOtprn(m) \/ HeartBeat(m, b) \/ Vote(m, b)
      PROVE  ElectedInv'
  <2>1. /\ votes \subseteq votes' /\ BlockHash' = BlockHash /\ Votehash' = Votehash
        /\ saving' = saving /\ signed' = signed
        /\ blockChain' = blockChain /\ blockChainRaw' = blockChainRaw
    BY <1>1 DEF CleanOldNode, RequestOtprn, HeartBeat, Vote
  <2> QED BY <2>1, ElectedFrame, Zenon DEF IInv
<1>2. ASSUME NEW s \in saving, SaveFails(s) PROVE ElectedInv'
  <2>1. /\ votes' = votes /\ BlockHash' = BlockHash /\ Votehash' = Votehash
        /\ saving' \subseteq saving /\ signed' = signed
        /\ blockChain' = blockChain /\ blockChainRaw' = blockChainRaw
    BY <1>2 DEF SaveFails
  <2> QED BY <2>1, ElectedFrame DEF IInv
<1>3. ASSUME NEW o \in leagues, NEW b \in {BlockHash[o]} \ {Nil, ZeroHash},
             SendBlock(b, Votehash[o]) \/ RequestFairnodeSign(b, Votehash[o])
      PROVE  ElectedInv'
  <2> DEFINE f == [block |-> b, voters |-> Votehash[o]]
  <2>1. Elected(votes, f)
    BY Zenon DEF IInv, TypeInv, TypeOK, ElectedInv, LeagueElected
  <2>2. /\ votes' = votes /\ BlockHash' = BlockHash /\ Votehash' = Votehash
        /\ blockChain' = blockChain /\ blockChainRaw' = blockChainRaw
        /\ signed' \subseteq signed \cup {f}
    BY <1>3 DEF SendBlock, RequestFairnodeSign
  <2>3. saving' \subseteq saving \cup
            {[block |-> b, voters |-> Votehash[o], next |-> "blockChain"]}
    BY <1>3 DEF SendBlock, RequestFairnodeSign
  <2>4. LeagueElected'
    BY <2>2 DEF IInv, ElectedInv, LeagueElected
  <2>5. SavingElected'
    <3> SUFFICES ASSUME NEW s \in saving'
                 PROVE  Elected(votes, [block |-> s.block, voters |-> s.voters])
      BY <2>2, Zenon DEF SavingElected
    <3>1. CASE s \in saving
      BY <3>1 DEF IInv, ElectedInv, SavingElected
    <3>2. CASE s = [block |-> b, voters |-> Votehash[o], next |-> "blockChain"]
      BY <3>2, <2>1
    <3> QED BY <2>3, <3>1, <3>2
  <2>6. OnlyElected'
    <3> HIDE DEF f
    <3> QED BY <2>1, <2>2 DEF IInv, ElectedInv, OnlyElected, BaseFinal, BaseBlock
  <2> QED BY <2>4, <2>5, <2>6, Zenon DEF ElectedInv
<1>4. ASSUME NEW s \in saving, SaveIndexed(s) \/ SaveRaw(s) PROVE ElectedInv'
  <2> DEFINE f == [block |-> s.block, voters |-> s.voters]
  <2>1. Elected(votes, f)
    BY DEF IInv, ElectedInv, SavingElected
  <2>2. /\ votes' = votes /\ BlockHash' = BlockHash /\ Votehash' = Votehash
        /\ signed' = signed
        /\ blockChain' \subseteq blockChain \cup {f}
        /\ blockChainRaw' \subseteq blockChainRaw \cup {f}
    BY <1>4 DEF SaveIndexed, SaveRaw, Insert
  <2>3. saving' \subseteq saving \cup {[s EXCEPT !.next = "blockChainRaw"]}
    BY <1>4 DEF SaveIndexed, SaveRaw
  <2>4. LeagueElected'
    BY <2>2 DEF IInv, ElectedInv, LeagueElected
  <2>5. SavingElected'
    <3> SUFFICES ASSUME NEW t \in saving'
                 PROVE  Elected(votes, [block |-> t.block, voters |-> t.voters])
      BY <2>2, Zenon DEF SavingElected
    <3>1. CASE t \in saving
      BY <3>1 DEF IInv, ElectedInv, SavingElected
    <3>2. CASE t = [s EXCEPT !.next = "blockChainRaw"]
      <4>1. t.block = s.block /\ t.voters = s.voters
        BY <3>2 DEF IInv, TypeInv, TypeOK
      <4> QED BY <4>1, <2>1
    <3> QED BY <2>3, <3>1, <3>2
  <2>6. OnlyElected'
    <3> HIDE DEF f
    <3> QED BY <2>1, <2>2 DEF IInv, ElectedInv, OnlyElected, BaseFinal, BaseBlock
  <2> QED BY <2>4, <2>5, <2>6 DEF ElectedInv
<1> QED BY <1>1, <1>2, <1>3, <1>4 DEF Requests

-----------------------------------------------------------------------------
\* Every step of the fairnode keeps the inductive invariant.
LEMMA NextIInv == IInv /\ [Next]_vars => IInv'
<1> SUFFICES ASSUME IInv, [Next]_vars PROVE IInv'
  OBVIOUS
<1>1. CASE MakeOtprn
  BY <1>1, MakeOtprnType, QuietSteps DEF IInv
<1>2. CASE ProcessManageLoop
  <2>1. TypeInv'
    <3>1. CASE FinalizeWake \/ Signal
      BY <3>1 DEF FinalizeWake, Signal, IInv, TypeInv, TypeOK, Drawn,
                  pointers, league, mloop, members, chain
    <3>2. CASE ~(FinalizeWake \/ Signal)
      BY <1>2, <3>2, ManageLoopSleepType, ManageLoopTickType DEF ProcessManageLoop, IInv
    <3> QED BY <3>1, <3>2, Zenon
  <2> QED BY <1>2, <2>1, ManageLoopElected DEF IInv
<1>3. CASE Requests
  <2>1. Counted
    BY Zenon DEF IInv, TypeInv, TypeOK, ElectedInv, LeagueElected, Elected, Counted
  <2> QED BY <1>3, <2>1, RequestsType, RequestsElected DEF IInv
<1>4. CASE Restart
  BY <1>4, RestartType, QuietSteps DEF IInv
<1>5. CASE UNCHANGED vars
  <2> USE <1>5 DEF vars, pointers, league, ploop, mloop, members, chain
  <2>1. TypeInv'
    BY DEF IInv, TypeInv, TypeOK, Drawn
  <2>2. ElectedInv'
    BY ElectedFrame DEF IInv
  <2> QED BY <2>1, <2>2, Zenon DEF IInv
<1> QED BY <1>1, <1>2, <1>3, <1>4, <1>5 DEF Next

LEMMA Inductive == Spec => []IInv
BY InitIInv, NextIInv, PTL DEF Spec

-----------------------------------------------------------------------------
\* While the loop sleeps before it moves a league on from its count or towards
\* SEND_BLOCK, the league has its hash: only FINALIZE clears it, in the loop
\* itself.
SleepHash ==
    ppc = "sleep" /\ pstatus \in {"VOTE_COUNTING", "VOTE_COMPLETE"} =>
        currentLeague \in Otprn /\ BlockHash[currentLeague] # Nil
HashInv == HashBeforeSend /\ SleepHash

\* The winner of a count is not nil.
LEMMA WinnerNotNil ==
    ASSUME TypeOK, NEW o, NEW n, NEW vs \in Answer({GetVoters(o, n)}, {}),
           NEW h \in FinalBlockHash(vs)
    PROVE  h # Nil
<1>1. h = ZeroHash \/ h \in Block
  BY VotersOfKey, WinnerIsVoted DEF Ballot
<1> QED BY <1>1, NilAssumption

\* makeOtprn and the handlers write neither a hash nor one of the two statuses,
\* and makeOtprn chooses a current league only where there is none.
LEMMA OthersHash ==
    ASSUME TypeInv, HashInv, MakeOtprn \/ Requests \/ Restart \/ UNCHANGED vars
    PROVE  HashInv'
<1> USE DEF vars, pointers, league, ploop, mloop, members, chain
<1>1. CASE MakeOtprn
  <2>1. BlockHash' = BlockHash /\ ppc' = ppc /\ pstatus' = pstatus
    BY <1>1, Zenon DEF MakeOtprn, MakeOtprnTick, NewOtprn, NoConfig, AddLeague, SaveOtprn, Decide
  <2>2. currentLeague' = currentLeague \/ currentLeague = Nil
    BY <1>1, Zenon DEF MakeOtprn, MakeOtprnTick, NewOtprn, NoConfig, AddLeague, SaveOtprn, Decide
  <2>3. ASSUME NEW o \in Otprn
        PROVE  Status'[o] \in {Status[o], "PENDING", "REJECT", "MAKE_JOIN_TX"}
    <3>1. CASE Decide
      <4>1. \A n : EpochStatus(n) \in {"REJECT", "MAKE_JOIN_TX"}
        BY DEF EpochStatus
      <4>2. \/ Status' = Status
            \/ \E p \in Otprn, st \in {"REJECT", "MAKE_JOIN_TX"} :
                   Status' = [Status EXCEPT ![p] = st]
        BY <3>1, <4>1, Zenon DEF Decide, TypeInv, TypeOK
      <4> QED BY <4>2 DEF TypeInv, TypeOK
    <3>2. CASE AddLeague
      BY <3>2, Zenon DEF AddLeague, TypeInv, TypeOK
    <3>3. CASE MakeOtprnTick \/ NewOtprn \/ NoConfig \/ SaveOtprn
      BY <3>3 DEF MakeOtprnTick, NewOtprn, NoConfig, SaveOtprn
    <3> QED BY <1>1, <3>1, <3>2, <3>3 DEF MakeOtprn
  <2>4. HashBeforeSend'
    BY <2>1, <2>3, Zenon DEF HashInv, HashBeforeSend
  <2>5. SleepHash'
    BY <2>1, <2>2, NilAssumption, Zenon DEF HashInv, SleepHash
  <2> QED BY <2>4, <2>5 DEF HashInv
<1>2. CASE Requests \/ UNCHANGED vars
  <2>1. /\ BlockHash' = BlockHash /\ Status' = Status /\ ppc' = ppc
        /\ pstatus' = pstatus /\ currentLeague' = currentLeague
    BY <1>2, Zenon DEF Requests, CleanOldNode, RequestOtprn, HeartBeat, Vote, SendBlock,
                RequestFairnodeSign, SaveIndexed, SaveRaw, SaveFails
  <2> QED BY <2>1, Zenon DEF HashInv, HashBeforeSend, SleepHash
<1>3. CASE Restart
  BY <1>3, Zenon DEF Restart, HashInv, HashBeforeSend, SleepHash
<1> QED BY <1>1, <1>2, <1>3

\* What the loop writes after the sleeps, one by one.
LEMMA SleepTable ==
    /\ DOMAIN AfterSleep = {"MAKE_LEAGUE", "MAKE_JOIN_TX", "MAKE_BLOCK", "LEAGUE_BROADCASTING",
                            "VOTE_START", "VOTE_COUNTING", "VOTE_COMPLETE", "REQ_FAIRNODE_SIGN"}
    /\ AfterSleep["MAKE_LEAGUE"] = "MAKE_JOIN_TX"
    /\ AfterSleep["MAKE_JOIN_TX"] = "MAKE_BLOCK"
    /\ AfterSleep["MAKE_BLOCK"] = "LEAGUE_BROADCASTING"
    /\ AfterSleep["LEAGUE_BROADCASTING"] = "VOTE_START"
    /\ AfterSleep["VOTE_START"] = "VOTE_COUNTING"
    /\ AfterSleep["VOTE_COUNTING"] = "VOTE_COMPLETE"
    /\ AfterSleep["VOTE_COMPLETE"] = "SEND_BLOCK"
    /\ AfterSleep["REQ_FAIRNODE_SIGN"] = "FINALIZE"
BY Zenon DEF AfterSleep

\* Only the sleeps of the count and after it lead to VOTE_COMPLETE and SEND_BLOCK.
LEMMA SleepsBeforeSend ==
    ASSUME NEW s \in DOMAIN AfterSleep,
           AfterSleep[s] \in {"VOTE_COMPLETE", "SEND_BLOCK"}
    PROVE  s \in {"VOTE_COUNTING", "VOTE_COMPLETE"}
BY SleepTable

\* processManageLoop itself.
LEMMA ManageLoopHash ==
    ASSUME TypeInv, HashInv, ProcessManageLoop
    PROVE  HashInv'
<1> USE DEF pointers, league, ploop, mloop, members, chain
<1>1. ASSUME NEW o \in Otprn, PendingTick(o) \/ SendBlockTick(o) PROVE HashInv'
  <2>1. BlockHash' = BlockHash /\ ppc' = "tick"
    BY <1>1, Zenon DEF PendingTick, SendBlockTick, Tick
  <2>2. ASSUME NEW p \in Otprn
        PROVE  Status'[p] \in {Status[p], "MAKE_LEAGUE", "REJECT", "REQ_FAIRNODE_SIGN"}
    BY <1>1, Zenon DEF PendingTick, SendBlockTick, SetStatus, TypeInv, TypeOK
  <2> QED BY <2>1, <2>2 DEF HashInv, HashBeforeSend, SleepHash
<1>2. ASSUME NEW o \in Otprn, SleepTick(o) \/ MakeJoinTxTick(o) PROVE HashInv'
  <2>1. /\ BlockHash' = BlockHash /\ Status' = Status /\ pstatus' = Status[o]
        /\ currentLeague' = o /\ pstatus' # "VOTE_COUNTING"
    BY <1>2 DEF SleepTick, MakeJoinTxTick, Tick
  <2> QED BY <2>1 DEF HashInv, HashBeforeSend, SleepHash
<1>3. ASSUME NEW o \in Otprn, VoteCountingTick(o) PROVE HashInv'
  <2>0. PICK vs \in Answer({GetVoters(o, Current[o] + 1)}, {}) :
          \/ SetStatus(o, "REJECT") /\ UNCHANGED <<BlockHash, ppc>>
          \/ Status' = Status /\ \E h \in FinalBlockHash(vs) :
                                    BlockHash' = [BlockHash EXCEPT ![o] = h]
    BY <1>3, Zenon DEF VoteCountingTick
  <2>1. currentLeague' = o /\ pstatus' = "VOTE_COUNTING" /\ Status[o] = "VOTE_COUNTING"
    BY <1>3, Zenon DEF VoteCountingTick, Tick
  <2>2. CASE SetStatus(o, "REJECT") /\ UNCHANGED <<BlockHash, ppc>>
    <3>1. ppc' = "tick"
      BY <1>3, <2>2, Zenon DEF VoteCountingTick, Tick
    <3> QED BY <2>2, <3>1 DEF HashInv, HashBeforeSend, SleepHash, SetStatus, TypeInv, TypeOK
  <2>3. CASE Status' = Status /\ \E h \in FinalBlockHash(vs) :
                                    BlockHash' = [BlockHash EXCEPT ![o] = h]
    <3>1. PICK h \in FinalBlockHash(vs) : BlockHash' = [BlockHash EXCEPT ![o] = h]
      BY <2>3, Zenon
    <3>2. h # Nil
      BY WinnerNotNil DEF TypeInv
    <3> QED BY <2>1, <2>3, <3>1, <3>2, Zenon DEF HashInv, HashBeforeSend, SleepHash, TypeInv, TypeOK
  <2> QED BY <2>0, <2>2, <2>3
<1>4. ASSUME NEW o \in Otprn, FinalizeTick(o) PROVE HashInv'
  <2>1. pstatus' = "FINALIZE" /\ Status[o] = "FINALIZE"
    BY <1>4 DEF FinalizeTick, Tick
  <2>2. ASSUME NEW p \in Otprn
        PROVE  Status'[p] \in {Status[p], "REJECT"} /\ (p # o => BlockHash'[p] = BlockHash[p])
    BY <1>4, Zenon DEF FinalizeTick, SetStatus, TypeInv, TypeOK
  <2>3. Status'[o] \in {"FINALIZE", "REJECT"}
    BY <2>1, <2>2
  <2> QED BY <2>1, <2>2, <2>3 DEF HashInv, HashBeforeSend, SleepHash
<1>5. ASSUME NEW o \in Otprn, Wake(o) PROVE HashInv'
  <2>1. /\ BlockHash' = BlockHash /\ ppc' = "tick" /\ ppc = "sleep" /\ o = currentLeague
        /\ pstatus \in DOMAIN AfterSleep /\ SetStatus(o, AfterSleep[pstatus])
    BY <1>5 DEF Wake
  <2>2. AfterSleep[pstatus] \in {"VOTE_COMPLETE", "SEND_BLOCK"} =>
            pstatus \in {"VOTE_COUNTING", "VOTE_COMPLETE"}
    BY <2>1, SleepsBeforeSend
  <2>3. AfterSleep[pstatus] \in {"VOTE_COMPLETE", "SEND_BLOCK"} => BlockHash[o] # Nil
    BY <2>1, <2>2 DEF HashInv, SleepHash
  <2> HIDE DEF league
  <2>4. HashBeforeSend'
    BY <2>1, <2>3 DEF HashInv, HashBeforeSend, SetStatus, TypeInv, TypeOK
  <2> QED BY <2>1, <2>4 DEF HashInv, SleepHash
<1>6. ASSUME NEW o \in Otprn, RejectWake(o) PROVE HashInv'
  BY <1>6 DEF RejectWake, HashInv, HashBeforeSend, SleepHash
<1>7. CASE FinalizeWake \/ Signal
  BY <1>7, Zenon DEF FinalizeWake, Signal, HashInv, HashBeforeSend, SleepHash
<1> QED BY <1>1, <1>2, <1>3, <1>4, <1>5, <1>6, <1>7 DEF ProcessManageLoop

\* The fairnode's state is well typed for every set of miners and otprns and
\* under every fault: every pointer names an otprn, every height is a number,
\* what the database holds are blocks with the ballots that elected them.
THEOREM TypeCorrect == Spec => []TypeOK
<1>1. IInv => TypeOK
  BY DEF IInv, TypeInv
<1> QED BY <1>1, Inductive, PTL

\* Whatever the fairnode stores as final or signs was elected by ballots it
\* received: for every number of miners and leagues, with votes that arrive
\* after the count, SendBlock calls that are still under way when their league
\* is gone, failing inserts and restarts.
THEOREM Safety == Spec => []OnlyElected
<1>1. IInv => OnlyElected
  BY DEF IInv, ElectedInv
<1> QED BY <1>1, Inductive, PTL

\* SendBlock and the loop's SEND_BLOCK case, which dereference a league's
\* BlockHash before they check it, never meet a nil one, under any fault and
\* any interleaving of the two loops and the handlers.
THEOREM NoNilHash == Spec => []HashBeforeSend
<1>1. Init => HashInv
  BY DEF Init, HashInv, HashBeforeSend, SleepHash
<1>2. IInv /\ HashInv /\ [Next]_vars => HashInv'
  BY OthersHash, ManageLoopHash DEF Next, IInv
<1>3. HashInv => HashBeforeSend
  BY DEF HashInv
<1> QED BY <1>1, <1>2, <1>3, Inductive, PTL DEF Spec

-----------------------------------------------------------------------------
\* Why no pointer dangles.  The goroutine that adds a league still holds the
\* pointer it has set, and nothing is in the table but what the two pointers
\* name: a league that is rejected leaves nobody else behind.
Holder == mpc = "add" => otpHash = (IF isCur THEN currentLeague ELSE pendingLeague)
Distinct == currentLeague # Nil => currentLeague # pendingLeague
Owned == leagues \subseteq {currentLeague, pendingLeague}
PointerInv == PointersResolve /\ Holder /\ Distinct /\ Owned

\* The goroutine makeOtprn, which sets a pointer first and adds the league later.
LEMMA MakeOtprnPointers ==
    ASSUME TypeInv, PointerInv, MakeOtprn
    PROVE  PointerInv'
<1> USE DEF TypeInv, TypeOK, Drawn, PointerInv, PointersResolve, Holder, Distinct, Owned
<1> USE DEF pointers, league, mloop
<1> USE NilAssumption
<1>1. CASE MakeOtprnTick
  BY <1>1 DEF MakeOtprnTick
<1>2. CASE NewOtprn
  BY <1>2, Zenon DEF NewOtprn, Fresh
<1>3. CASE NoConfig
  BY <1>3, Zenon DEF NoConfig
<1>4. CASE AddLeague
  BY <1>4 DEF AddLeague
<1>5. CASE SaveOtprn
  BY <1>5, Zenon DEF SaveOtprn
<1>6. CASE Decide
  <2>1. /\ currentLeague' = currentLeague /\ pendingLeague' = pendingLeague
        /\ leagues' = leagues /\ mpc = "decide" /\ mpc' # "add"
    BY <1>6, Zenon DEF Decide
  <2> QED BY <2>1
<1> QED BY <1>1, <1>2, <1>3, <1>4, <1>5, <1>6, Zenon DEF MakeOtprn

\* A league is rejected and the pending one takes over, at the end of a sleep
\* that has outlasted newOtprn.
LEMMA RejectPointers ==
    ASSUME TypeInv, PointerInv, "delay" \notin Faults, NEW o \in Otprn, RejectWake(o)
    PROVE  PointerInv'
<1>1. /\ mpc = "select" /\ mpc' = "select" /\ o = currentLeague
      /\ leagues' = leagues \ {o}
  BY Zenon DEF RejectWake, Settled, mloop
<1>2. CASE pendingLeague = Nil
  <2>1. currentLeague' = Nil /\ pendingLeague' = Nil
    BY <1>2, Zenon DEF RejectWake
  <2> QED BY <1>1, <1>2, <2>1, NilAssumption
          DEF TypeInv, TypeOK, PointerInv, PointersResolve, Holder, Distinct, Owned
<1>3. CASE pendingLeague # Nil
  <2>1. pendingLeague \in leagues \ {o}
    BY <1>1, <1>3, NilAssumption, Zenon
       DEF TypeInv, TypeOK, PointerInv, PointersResolve, Distinct
  <2>2. currentLeague' = pendingLeague /\ pendingLeague' = Nil
    BY <1>3, <2>1 DEF RejectWake
  <2> QED BY <1>1, <1>3, <2>1, <2>2, NilAssumption
          DEF TypeInv, TypeOK, PointerInv, PointersResolve, Holder, Distinct, Owned
<1> QED BY <1>2, <1>3

\* The handlers and the other steps of the loop touch no pointer and no key of
\* the table.
LEMMA OthersPointers ==
    ASSUME PointerInv,
           \/ Requests \/ FinalizeWake \/ Signal \/ UNCHANGED vars
           \/ \E o \in Otprn : \/ PendingTick(o) \/ SleepTick(o) \/ MakeJoinTxTick(o)
                               \/ VoteCountingTick(o) \/ SendBlockTick(o)
                               \/ FinalizeTick(o) \/ Wake(o)
    PROVE  PointerInv'
<1>1. /\ currentLeague' = currentLeague /\ pendingLeague' = pendingLeague
      /\ leagues' = leagues /\ isCur' = isCur /\ otpHash' = otpHash
      /\ mpc' = mpc \/ (mpc = "select" /\ mpc' = "decide")
  BY Zenon DEF Requests, CleanOldNode, RequestOtprn, HeartBeat, Vote, SendBlock,
         RequestFairnodeSign, SaveIndexed, SaveRaw, SaveFails, FinalizeWake, Signal,
         PendingTick, SleepTick, MakeJoinTxTick, VoteCountingTick, SendBlockTick,
         FinalizeTick, Wake, vars, pointers, league, mloop
<1> QED BY <1>1 DEF PointerInv, PointersResolve, Holder, Distinct, Owned

LEMMA NextPointers ==
    ASSUME TypeInv, PointerInv, "delay" \notin Faults, [Next]_vars
    PROVE  PointerInv'
<1>1. CASE Restart
  BY <1>1 DEF Restart, PointerInv, PointersResolve, Holder, Distinct, Owned
<1>2. CASE \E o \in Otprn : RejectWake(o)
  BY <1>2, RejectPointers
<1> QED BY <1>1, <1>2, MakeOtprnPointers, OthersPointers DEF Next, ProcessManageLoop

\* A league pointer never dangles for longer than newOtprn needs to add its
\* league, for every number of leagues, through league changes, database errors
\* and restarts: so neither loop is stuck on a league that is not in the table.
THEOREM PointersNeverDangle ==
    ASSUME "delay" \notin Faults
    PROVE  Spec => []PointersResolve
<1>1. Init => PointerInv
  BY DEF Init, PointerInv, PointersResolve, Holder, Distinct, Owned
<1>2. IInv /\ PointerInv /\ [Next]_vars => PointerInv'
  BY NextPointers DEF IInv
<1>3. PointerInv => PointersResolve
  BY DEF PointerInv
<1> QED BY <1>1, <1>2, <1>3, Inductive, PTL DEF Spec

-----------------------------------------------------------------------------
\* Why the two goroutines that write statuses do not get in each other's way.
\* A league of the table has a status and one that is being added has none;
\* only the current league is past PENDING.
Named == \A o \in leagues : Status[o] # "NONE"
Unnamed == mpc = "add" => Status[otpHash] = "NONE"
Waiting == \A o \in leagues : o # currentLeague => Status[o] = "PENDING"

\* While the loop sleeps nobody else moves its league on, except in FINALIZE.
Asleep == ppc = "sleep" =>
    /\ currentLeague \in leagues
    /\ pstatus # "FINALIZE" => Status[currentLeague] = pstatus

\* No SaveFinalBlock is under way when the loop reads the chain in FINALIZE.
Saved == up /\ currentLeague \in leagues /\ Status[currentLeague] = "FINALIZE" => saving = {}

\* From the tick that sees FINALIZE until makeOtprn has answered its signal the
\* height stays what that tick has read.  The loop may run ahead and see
\* FINALIZE again; the answer to its second signal is then what the league
\* already has.
Answering == up /\ (mpc = "decide" \/ ppc = "signal" \/ (ppc = "sleep" /\ pstatus = "FINALIZE"))
Deciding == Answering =>
    /\ currentLeague \in leagues
    /\ BlockHash[currentLeague] = Nil
    /\ lastBlock = Current[currentLeague]
    /\ Status[currentLeague] \in {"FINALIZE", EpochStatus(Current[currentLeague])}
    /\ blockChain # {}
    /\ \A f \in Newest : f.block.num = Current[currentLeague]
    /\ saving = {}
OrderInv == Named /\ Unnamed /\ Waiting /\ Asleep /\ Saved /\ Deciding

\* What StatusInOrder says of one step.
InOrder == \A o \in Otprn : Status'[o] # Status[o] => Follows(Status[o], Status'[o])

\* The answer to a finished round.
LEMMA EpochAnswers == \A n : EpochStatus(n) \in {"REJECT", "MAKE_JOIN_TX"}
BY DEF EpochStatus

\* What the loop writes after a sleep is the next status of the round.
LEMMA SleepFollows ==
    ASSUME NEW st \in DOMAIN AfterSleep
    PROVE  /\ Follows(st, AfterSleep[st])
           /\ st \notin {"FINALIZE", "PENDING", "NONE"}
           /\ AfterSleep[st] \notin {"NONE", "PENDING"}
           /\ AfterSleep[st] = "FINALIZE" => st = "REQ_FAIRNODE_SIGN"
<1>2. /\ 1 \in 1 .. 8 /\ 2 \in 1 .. 8 /\ 3 \in 1 .. 8 /\ 4 \in 1 .. 8
      /\ 5 \in 1 .. 8 /\ 6 \in 1 .. 8 /\ 8 \in 1 .. 8
  OBVIOUS
<1>3. \A i \in 1 .. 8 : Follows(RoundOrder[i], RoundOrder[i + 1])
  BY DEF Follows
<1>4. /\ Follows("MAKE_JOIN_TX", "MAKE_BLOCK")
      /\ Follows("MAKE_BLOCK", "LEAGUE_BROADCASTING")
      /\ Follows("LEAGUE_BROADCASTING", "VOTE_START")
      /\ Follows("VOTE_START", "VOTE_COUNTING")
      /\ Follows("VOTE_COUNTING", "VOTE_COMPLETE")
      /\ Follows("VOTE_COMPLETE", "SEND_BLOCK")
      /\ Follows("REQ_FAIRNODE_SIGN", "FINALIZE")
  BY <1>2, <1>3 DEF RoundOrder
<1>5. Follows("MAKE_LEAGUE", "MAKE_JOIN_TX")
  BY DEF Follows
<1>6. Follows(st, AfterSleep[st])
  BY <1>4, <1>5, SleepTable, Zenon
<1> QED BY <1>6, SleepTable

\* makeOtprn: only AddLeague and Decide write a status.
LEMMA MakeOtprnOrder ==
    ASSUME TypeInv, PointerInv, OrderInv, MakeOtprn
    PROVE  OrderInv' /\ InOrder
<1> USE DEF TypeInv, TypeOK, Drawn, OrderInv, Named, Unnamed, Waiting, Asleep, Saved
<1> USE DEF pointers, league, ploop, mloop, chain
<1> USE NilAssumption
<1>1. CASE MakeOtprnTick \/ NoConfig \/ SaveOtprn
  <2>1. /\ Status' = Status /\ leagues' = leagues /\ currentLeague' = currentLeague
        /\ ppc' = ppc /\ pstatus' = pstatus /\ saving' = saving /\ mpc # "decide"
        /\ mpc' # "add" /\ mpc' # "decide" /\ BlockHash' = BlockHash /\ Current' = Current
        /\ lastBlock' = lastBlock /\ blockChain' = blockChain /\ (up' => up)
    BY <1>1, Zenon DEF MakeOtprnTick, NoConfig, SaveOtprn
  <2>2. Deciding'
    BY <2>1, Zenon DEF Deciding, Answering, Newest
  <2> QED BY <2>1, <2>2, Zenon DEF InOrder
<1>2. CASE NewOtprn
  <2>1. /\ Status' = Status /\ leagues' = leagues /\ up' = up
        /\ ppc' = ppc /\ pstatus' = pstatus /\ saving' = saving /\ mpc # "decide"
        /\ mpc' # "decide" /\ BlockHash' = BlockHash /\ Current' = Current
        /\ lastBlock' = lastBlock /\ blockChain' = blockChain
    BY <1>2, Zenon DEF NewOtprn
  <2>2. mpc' = "add" => Status'[otpHash'] = "NONE"
    BY <1>2, Zenon DEF NewOtprn, Fresh
  <2>3. \/ currentLeague' = currentLeague
        \/ currentLeague = Nil /\ currentLeague' \in Otprn /\ Status[currentLeague'] = "NONE"
    BY <1>2, Zenon DEF NewOtprn, Fresh
  <2>4. currentLeague = Nil => currentLeague \notin leagues /\ ppc # "sleep" /\ ~Answering
    BY DEF Deciding
  <2>5. Named' /\ Unnamed' /\ Asleep' /\ Saved'
    BY <2>1, <2>2, <2>3, <2>4, Zenon
  <2>6. Waiting'
    BY <2>1, <2>3, <2>4, Zenon
  <2>7. Deciding'
    BY <2>1, <2>3, <2>4, Zenon DEF Deciding, Answering, Newest
  <2> QED BY <2>1, <2>5, <2>6, <2>7, Zenon DEF InOrder
<1>3. CASE AddLeague
  <2>1. /\ leagues' = leagues \cup {otpHash} /\ otpHash \in Otprn
        /\ Status' = [Status EXCEPT ![otpHash] = "PENDING"]
        /\ Current' = [Current EXCEPT ![otpHash] = LastNumber]
        /\ Status[otpHash] = "NONE" /\ otpHash \notin leagues
        /\ mpc = "add" /\ mpc' = "save"
        /\ up' = up /\ currentLeague' = currentLeague /\ BlockHash' = BlockHash
        /\ ppc' = ppc /\ pstatus' = pstatus /\ saving' = saving
        /\ lastBlock' = lastBlock /\ blockChain' = blockChain
    BY <1>3, Zenon DEF AddLeague
  <2>2. ASSUME NEW o \in Otprn, o # otpHash
        PROVE  Status'[o] = Status[o] /\ Current'[o] = Current[o]
    BY <2>1, <2>2, Zenon
  <2>3. Status'[otpHash] = "PENDING"
    BY <2>1, Zenon
  <2>4. Named' /\ Unnamed' /\ Waiting'
    BY <2>1, <2>2, <2>3, Zenon
  <2>5. Asleep' /\ Saved'
    BY <2>1, <2>2, <2>3, Zenon
  <2>6. Deciding'
    BY <2>1, <2>2, Zenon DEF Deciding, Answering, Newest
  <2>7. InOrder
    BY <2>1, <2>2, <2>3, Zenon DEF InOrder, Follows
  <2> QED BY <2>4, <2>5, <2>6, <2>7, Zenon
<1>4. CASE Decide
  <2>1. /\ mpc = "decide" /\ up /\ mpc' \in {"fresh", "select", "decide"} /\ (mpc' = "decide" => ~up')
        /\ leagues' = leagues /\ Current' = Current
        /\ currentLeague' = currentLeague /\ BlockHash' = BlockHash
        /\ ppc' = ppc /\ pstatus' = pstatus /\ saving' = saving
        /\ lastBlock' = lastBlock /\ blockChain' = blockChain
    BY <1>4, Zenon DEF Decide
  <2>2. currentLeague \in leagues /\ saving = {}
        /\ Status[currentLeague] \in {"FINALIZE", EpochStatus(Current[currentLeague])}
    BY <2>1, Zenon DEF Deciding, Answering
  <2>3. \/ Status' = Status
        \/ Status' = [Status EXCEPT ![currentLeague] = EpochStatus(Current[currentLeague])]
    BY <1>4, Zenon DEF Decide
  <2>4. ASSUME NEW o \in Otprn, o # currentLeague PROVE Status'[o] = Status[o]
    BY <2>3, <2>4, Zenon
  <2>5. Status'[currentLeague] \in {Status[currentLeague], EpochStatus(Current[currentLeague])}
    BY <2>2, <2>3, Zenon
  <2>6. Status'[currentLeague] \in {"FINALIZE", "REJECT", "MAKE_JOIN_TX"}
    BY <2>2, <2>5, EpochAnswers
  <2>7. Named' /\ Unnamed' /\ Waiting' /\ Saved'
    BY <2>1, <2>2, <2>4, <2>6, Zenon
  <2>8. Asleep'
    BY <2>1, <2>2, <2>5, Zenon
  <2>9. Deciding'
    BY <2>1, <2>2, <2>5, Zenon DEF Deciding, Answering, Newest
  <2>10. InOrder
    BY <2>2, <2>4, <2>5, EpochAnswers, Zenon DEF InOrder, Follows
  <2> QED BY <2>7, <2>8, <2>9, <2>10, Zenon
<1> QED BY <1>1, <1>2, <1>3, <1>4, Zenon DEF MakeOtprn

\* A step of the loop that writes at most the status of its own league, which it
\* has seen in st, and changes nothing else an answer depends on.
LEMMA TickOrder ==
    ASSUME TypeInv, OrderInv, NEW o \in Otprn, NEW st, NEW st2, Tick(o, st),
           st \notin {"FINALIZE", "NONE"}, st2 \notin {"FINALIZE", "NONE", "PENDING"},
           \/ Status' = Status
           \/ Status' = [Status EXCEPT ![o] = st2] /\ ppc' = "tick" /\ Follows(st, st2)
              /\ st \notin {"REJECT", "MAKE_JOIN_TX"},
           ppc' \in {"tick", "sleep"}, up' => up,
           currentLeague' = currentLeague, leagues' = leagues, mpc' = mpc,
           otpHash' = otpHash, saving' = saving, lastBlock' = lastBlock,
           blockChain' = blockChain,
           Answering => BlockHash'[o] = BlockHash[o] /\ Current'[o] = Current[o]
    PROVE  OrderInv' /\ InOrder
<1> USE DEF TypeInv, TypeOK, Drawn, OrderInv, Named, Unnamed, Waiting, Asleep, Saved
<1>1. /\ o = currentLeague /\ o \in leagues /\ Status[o] = st /\ pstatus' = st /\ up
      /\ ppc = "tick"
  BY Zenon DEF Tick
<1>2. ASSUME NEW p \in Otprn, p # o PROVE Status'[p] = Status[p]
  BY <1>2, Zenon
<1>3. \/ Status'[o] = st
      \/ Status'[o] = st2 /\ ppc' = "tick" /\ Follows(st, st2) /\ st \notin {"REJECT", "MAKE_JOIN_TX"}
  BY <1>1, Zenon
<1>4. Named' /\ Unnamed' /\ Waiting' /\ Saved'
  BY <1>1, <1>2, <1>3, Zenon
<1>5. Asleep'
  BY <1>1, <1>3, Zenon
<1>6. Deciding'
  <2>1. Answering' => Answering /\ up
    BY <1>1, Zenon DEF Answering
  <2>2. Answering => st \in {"REJECT", "MAKE_JOIN_TX"}
    BY <1>1, EpochAnswers, Zenon DEF Deciding
  <2> QED BY <1>1, <1>3, <2>1, <2>2, Zenon DEF Deciding, Newest
<1>7. InOrder
  BY <1>1, <1>2, <1>3, Zenon DEF InOrder
<1> QED BY <1>4, <1>5, <1>6, <1>7, Zenon

\* The ticks of every status but FINALIZE.
LEMMA TicksOrder ==
    ASSUME TypeInv, OrderInv, NEW o \in Otprn,
           \/ PendingTick(o) \/ SleepTick(o) \/ MakeJoinTxTick(o)
           \/ VoteCountingTick(o) \/ SendBlockTick(o)
    PROVE  OrderInv' /\ InOrder
<1> USE DEF pointers, league, ploop, mloop, chain
<1>1. CASE PendingTick(o)
  <2>1. PICK st2 \in {"MAKE_LEAGUE", "REJECT"} :
            Status' = Status \/ Status' = [Status EXCEPT ![o] = st2]
    BY <1>1 DEF PendingTick, SetStatus
  <2>2. Follows("PENDING", st2)
    BY DEF Follows
  <2>3. Tick(o, "PENDING") /\ ppc' = "tick"
    BY <1>1, Zenon DEF PendingTick, Tick
  <2> QED BY <1>1, <2>1, <2>2, <2>3, TickOrder, Zenon DEF PendingTick
<1>2. CASE SleepTick(o)
  <2>1. PICK st \in {"MAKE_LEAGUE", "MAKE_BLOCK", "LEAGUE_BROADCASTING", "VOTE_START",
                     "VOTE_COMPLETE", "REQ_FAIRNODE_SIGN", "REJECT"} : Tick(o, st)
    BY <1>2 DEF SleepTick
  <2> QED BY <1>2, <2>1, TickOrder, Zenon DEF SleepTick
<1>3. CASE MakeJoinTxTick(o)
  <2>1. Answering => Current'[o] = Current[o]
    <3>1. o = currentLeague
      BY <1>3 DEF MakeJoinTxTick, Tick
    <3>2. Answering => lastBlock = Current[o]
      BY <3>1, Zenon DEF OrderInv, Deciding
    <3> QED BY <1>3, <3>2, Zenon DEF MakeJoinTxTick, TypeInv, TypeOK
  <2>2. /\ Tick(o, "MAKE_JOIN_TX") /\ Status' = Status /\ ppc' = "sleep" /\ up' = up
        /\ currentLeague' = currentLeague /\ leagues' = leagues /\ mpc' = mpc
        /\ otpHash' = otpHash /\ saving' = saving /\ lastBlock' = lastBlock
        /\ blockChain' = blockChain /\ BlockHash' = BlockHash
    BY <1>3 DEF MakeJoinTxTick
  <2>3. "REJECT" \notin {"FINALIZE", "NONE", "PENDING"}
    BY Zenon
  <2> QED BY <2>1, <2>2, <2>3, TickOrder, Zenon
<1>4. CASE VoteCountingTick(o)
  <2>1. ~Answering
    BY <1>4, EpochAnswers, Zenon DEF VoteCountingTick, Tick, OrderInv, Deciding
  <2>2. Tick(o, "VOTE_COUNTING") /\ ppc = "tick"
    BY <1>4, Zenon DEF VoteCountingTick, Tick
  <2>3. \/ Status' = [Status EXCEPT ![o] = "REJECT"] /\ ppc' = "tick"
        \/ Status' = Status /\ ppc' = "sleep"
    BY <1>4, <2>2 DEF VoteCountingTick, SetStatus
  <2>4. Follows("VOTE_COUNTING", "REJECT")
    BY DEF Follows
  <2> QED BY <1>4, <2>1, <2>2, <2>3, <2>4, TickOrder DEF VoteCountingTick
<1>5. CASE SendBlockTick(o)
  <2>1. Tick(o, "SEND_BLOCK") /\ up /\ ppc' = "tick"
    BY <1>5, Zenon DEF SendBlockTick, Tick
  <2>2. PICK st2 \in {"REQ_FAIRNODE_SIGN", "REJECT"} :
            Status' = Status \/ Status' = [Status EXCEPT ![o] = st2]
    BY <1>5 DEF SendBlockTick, SetStatus
  <2>3. Follows("SEND_BLOCK", st2)
    <3>1. Follows(RoundOrder[7], RoundOrder[8])
      BY DEF Follows
    <3> QED BY <3>1 DEF Follows, RoundOrder
  <2> QED BY <1>5, <2>1, <2>2, <2>3, TickOrder, Zenon DEF SendBlockTick
<1> QED BY <1>1, <1>2, <1>3, <1>4, <1>5

\* A number CurrentBlock answers is the number of every newest block.
LEMMA CurrentIsNewest ==
    ASSUME TypeOK, NEW n \in CurrentBlock, n # Nil
    PROVE  blockChain # {} /\ \A f \in Newest : f.block.num = n
<1>1. blockChain # {}
  BY DEF CurrentBlock
<1>2. PICK g \in Newest : n = g.block.num
  BY <1>1 DEF CurrentBlock, Answer
<1>3. \A f \in Newest : f.block.num <= g.block.num /\ g.block.num <= f.block.num
  BY DEF Newest
<1>4. \A f \in Newest : f.block.num \in Nat
  BY StoredNumber DEF Newest
<1> QED BY <1>1, <1>2, <1>3, <1>4

\* The tick that sees FINALIZE reads the height, or gives the league up.
LEMMA FinalizeOrder ==
    ASSUME TypeInv, OrderInv, NEW o \in Otprn, FinalizeTick(o)
    PROVE  OrderInv' /\ InOrder
<1> USE DEF TypeInv, TypeOK, Drawn, OrderInv, Named, Unnamed, Waiting, Asleep, Saved
<1>1. /\ o = currentLeague /\ o \in leagues /\ Status[o] = "FINALIZE" /\ pstatus' = "FINALIZE"
      /\ up /\ ppc = "tick" /\ currentLeague' = currentLeague /\ leagues' = leagues
      /\ mpc' = mpc /\ otpHash' = otpHash /\ saving' = saving
  BY Zenon DEF FinalizeTick, Tick, mloop
<1>2. PICK n \in CurrentBlock :
        \/ /\ n # Nil /\ lastBlock' = n /\ Current' = [Current EXCEPT ![o] = n]
           /\ BlockHash' = [BlockHash EXCEPT ![o] = Nil] /\ ppc' = "sleep"
           /\ up' = up /\ Status' = Status /\ blockChain' = blockChain
        \/ /\ up' = (BlockHash[o] # Nil) /\ ppc' = "tick"
           /\ IF BlockHash[o] # Nil THEN SetStatus(o, "REJECT") ELSE Status' = Status
  BY <1>1, Zenon DEF FinalizeTick, chain
<1>3. CASE /\ n # Nil /\ lastBlock' = n /\ Current' = [Current EXCEPT ![o] = n]
           /\ BlockHash' = [BlockHash EXCEPT ![o] = Nil] /\ ppc' = "sleep"
           /\ up' = up /\ Status' = Status /\ blockChain' = blockChain
  <2>1. blockChain # {} /\ \A f \in Newest : f.block.num = n
    BY <1>3, CurrentIsNewest, Zenon
  <2>2. Current'[o] = n /\ BlockHash'[o] = Nil
    BY <1>3, DatabaseAnswers, Zenon
  <2>3. Newest' = Newest
    BY <1>3, Zenon DEF Newest
  <2>4. Deciding'
    BY <1>1, <1>3, <2>1, <2>2, <2>3, Zenon DEF Deciding
  <2> QED BY <1>1, <1>3, <2>4, Zenon DEF InOrder
<1>4. CASE /\ up' = (BlockHash[o] # Nil) /\ ppc' = "tick"
           /\ IF BlockHash[o] # Nil THEN SetStatus(o, "REJECT") ELSE Status' = Status
  <2>1. ~Answering'
    BY <1>1, <1>4, Zenon DEF Deciding, Answering
  <2>2. Status'[o] \in {"FINALIZE", "REJECT"} /\ \A p \in Otprn : p # o => Status'[p] = Status[p]
    BY <1>1, <1>4, Zenon DEF SetStatus
  <2>3. OrderInv'
    BY <1>1, <1>4, <2>1, <2>2, Zenon DEF Deciding
  <2>4. InOrder
    BY <1>1, <2>2, Zenon DEF InOrder, Follows
  <2> QED BY <2>3, <2>4, Zenon
<1> QED BY <1>2, <1>3, <1>4, Zenon

\* The ends of the loop's sleeps, which outlast every call under way.
LEMMA WakesOrder ==
    ASSUME TypeInv, PointerInv, OrderInv, "delay" \notin Faults, NEW o \in Otprn,
           Wake(o) \/ FinalizeWake \/ Signal \/ RejectWake(o)
    PROVE  OrderInv' /\ InOrder
<1> USE DEF TypeInv, TypeOK, Drawn, OrderInv, Named, Unnamed, Waiting, Asleep, Saved
<1> USE DEF pointers, league, ploop, mloop, chain
<1>1. CASE Wake(o)
  <2>1. /\ up /\ ppc = "sleep" /\ o = currentLeague /\ mpc = "select" /\ saving = {}
        /\ pstatus \in DOMAIN AfterSleep /\ Status' = [Status EXCEPT ![o] = AfterSleep[pstatus]]
        /\ ppc' = "tick" /\ mpc' = mpc /\ leagues' = leagues /\ saving' = saving
        /\ currentLeague' = currentLeague /\ up' = up
    BY <1>1, Zenon DEF Wake, Settled, SetStatus
  <2> HIDE DEF league, pointers
  <2>2. o \in leagues /\ Status[o] = pstatus
    BY <2>1, SleepFollows, Zenon
  <2>3. Status'[o] = AfterSleep[pstatus] /\ \A p \in Otprn : p # o => Status'[p] = Status[p]
    BY <2>1, Zenon
  <2>4. ~Answering' /\ Unnamed' /\ Asleep' /\ Saved'
    BY <2>1, Zenon DEF Answering
  <2>5. Named' /\ Waiting'
    <3>1. AfterSleep[pstatus] # "NONE"
      BY <2>1, SleepFollows, Zenon
    <3>2. leagues \subseteq Otprn
      BY Zenon DEF TypeInv, TypeOK
    <3> QED BY <2>1, <2>3, <3>1, <3>2, Zenon
  <2>6. InOrder
    BY <2>1, <2>2, <2>3, SleepFollows, Zenon DEF InOrder
  <2> QED BY <2>4, <2>5, <2>6, Zenon DEF Deciding
<1>2. CASE FinalizeWake \/ Signal
  <2>1. /\ Answering /\ up' = up /\ currentLeague' = currentLeague /\ leagues' = leagues
        /\ Status' = Status /\ Current' = Current /\ BlockHash' = BlockHash
        /\ lastBlock' = lastBlock /\ blockChain' = blockChain /\ saving' = saving
        /\ ppc' # "sleep" /\ mpc' \in {mpc, "decide"} /\ otpHash' = otpHash
    BY <1>2, Zenon DEF FinalizeWake, Signal, Answering
  <2>2. Deciding'
    BY <2>1, Zenon DEF Deciding, Newest
  <2> QED BY <2>1, <2>2, Zenon DEF InOrder
<1>3. CASE RejectWake(o)
  <2>1. /\ mpc = "select" /\ mpc' = "select" /\ o = currentLeague /\ ppc' = "tick"
        /\ leagues' = leagues \ {o} /\ Status' = Status /\ saving' = saving /\ saving = {}
    BY <1>3, Zenon DEF RejectWake, Settled
  <2>2. currentLeague' \in {Nil, pendingLeague}
    <3>1. pendingLeague # Nil => pendingLeague \in leagues \ {o}
      BY <2>1, NilAssumption, Zenon DEF PointerInv, PointersResolve, Distinct
    <3> QED BY <1>3, <3>1, Zenon DEF RejectWake
  <2>3. ~Answering' /\ Unnamed' /\ Asleep' /\ Saved'
    BY <2>1, Zenon DEF Answering
  <2>4. Named'
    BY <2>1, Zenon
  <2>5. Waiting'
    BY <2>1, <2>2, Zenon
  <2> QED BY <2>1, <2>3, <2>4, <2>5, Zenon DEF InOrder, Deciding
<1> QED BY <1>1, <1>2, <1>3, Zenon

\* The handlers write no status, and none stores a block while an answer is due:
\* SendBlock is refused outside SEND_BLOCK.
LEMMA RequestsOrder ==
    ASSUME TypeInv, OrderInv, Requests \/ UNCHANGED vars
    PROVE  OrderInv' /\ InOrder
<1> USE DEF vars, pointers, league, ploop, mloop, members, chain
<1>1. /\ Status' = Status /\ leagues' = leagues /\ currentLeague' = currentLeague
      /\ ppc' = ppc /\ pstatus' = pstatus /\ mpc' = mpc /\ otpHash' = otpHash /\ up' = up
      /\ BlockHash' = BlockHash /\ Current' = Current /\ lastBlock' = lastBlock
  BY Zenon DEF Requests, CleanOldNode, RequestOtprn, HeartBeat, Vote, SendBlock,
         RequestFairnodeSign, SaveIndexed, SaveRaw, SaveFails
<1>2. \/ saving' = saving /\ blockChain' = blockChain
      \/ saving # {}
      \/ \E o \in leagues : Status[o] = "SEND_BLOCK"
  BY Zenon DEF Requests, CleanOldNode, RequestOtprn, HeartBeat, Vote, SendBlock,
         RequestFairnodeSign, SaveIndexed, SaveRaw, SaveFails
<1>3. ASSUME NEW o \in leagues, Status[o] = "SEND_BLOCK"
      PROVE  o = currentLeague
  BY <1>3 DEF OrderInv, Waiting
<1>4. Saved'
  BY <1>1, <1>2, <1>3, Zenon DEF OrderInv, Saved
<1>5. Deciding'
  <2>1. Answering' => Answering
    BY <1>1 DEF Answering
  <2>2. Answering => saving' = saving /\ blockChain' = blockChain
    BY <1>2, <1>3, EpochAnswers DEF OrderInv, Deciding
  <2> QED BY <1>1, <2>1, <2>2 DEF OrderInv, Deciding, Newest
<1> QED BY <1>1, <1>4, <1>5 DEF OrderInv, Named, Unnamed, Waiting, Asleep, InOrder

LEMMA NextOrder ==
    ASSUME TypeInv, PointerInv, OrderInv, "delay" \notin Faults, [Next]_vars
    PROVE  OrderInv' /\ InOrder
<1>1. CASE Restart
  <2>1. /\ currentLeague' \notin leagues' /\ leagues' = {} /\ ppc' = "tick" /\ mpc' = "select"
        /\ Status' = Status
    BY <1>1 DEF Restart
  <2> QED BY <2>1 DEF OrderInv, Named, Unnamed, Waiting, Asleep, Saved, Deciding, Answering, InOrder
<1>2. CASE FinalizeWake \/ Signal
  <2>1. currentLeague \in Otprn
    BY <1>2, Zenon DEF FinalizeWake, Signal, OrderInv, Deciding, Answering, TypeInv, TypeOK
  <2> QED BY <1>2, <2>1, WakesOrder, Zenon
<1>3. ASSUME NEW o \in Otprn,
             \/ PendingTick(o) \/ SleepTick(o) \/ MakeJoinTxTick(o) \/ VoteCountingTick(o)
             \/ SendBlockTick(o) \/ FinalizeTick(o) \/ Wake(o) \/ RejectWake(o)
      PROVE  OrderInv' /\ InOrder
  BY <1>3, TicksOrder, FinalizeOrder, WakesOrder
<1>4. CASE MakeOtprn
  BY <1>4, MakeOtprnOrder
<1>5. CASE Requests \/ UNCHANGED vars
  BY <1>5, RequestsOrder, Zenon
<1> QED BY <1>1, <1>2, <1>3, <1>4, <1>5, Zenon DEF Next, ProcessManageLoop

LEMMA InitLeague == Init => PointerInv /\ OrderInv
BY DEF Init, PointerInv, PointersResolve, Holder, Distinct, Owned, OrderInv, Named, Unnamed,
       Waiting, Asleep, Saved, Deciding, Answering

\* A league's status never skips or repeats a phase of the round although two
\* goroutines write it without a lock, for every number of leagues and miners,
\* every configuration, with database errors, silent nodes and restarts.
THEOREM StatusKeepsOrder ==
    ASSUME "delay" \notin Faults
    PROVE  Spec => StatusInOrder
<1>1. IInv /\ PointerInv /\ OrderInv /\ [Next]_vars => PointerInv' /\ OrderInv'
  BY NextPointers, NextOrder DEF IInv
<1>2. IInv /\ PointerInv /\ OrderInv /\ [Next]_vars =>
          [\A o \in Otprn : Status'[o] # Status[o] => Follows(Status[o], Status'[o])]_Status
  BY NextOrder DEF IInv, InOrder
<1> QED BY <1>1, <1>2, InitLeague, Inductive, PTL DEF Spec, StatusInOrder

=============================================================================
