----------------------------- MODULE GroupProofs -----------------------------
(***************************************************************************)
(* Theorems about a leader and its follower: what they store and sign is   *)
(* elected, a league the follower has deleted stays deleted, and a block   *)
(* that ended a round is known to the follower before the leader goes on.  *)
(***************************************************************************)
EXTENDS FairnodeProofs, FairnodeGroup, FiniteSetTheorems, WellFoundedInduction

-----------------------------------------------------------------------------
\* The types of what the follower keeps.
FollowerType ==
    /\ follows \in BOOLEAN
    /\ fLeagues \subseteq Otprn
    /\ fStatus \in [Otprn -> FnStatus]
    /\ fCurrent \in [Otprn -> Nat]
    /\ fBlockHash \in [Otprn -> Block \cup {Nil, ZeroHash}]
    /\ fVotehash \in [Otprn -> (SUBSET Ballot) \cup {Nil}]
    /\ fLastBlock \in Nat \cup {Nil}
    /\ gone \subseteq Otprn
    /\ DOMAIN message \subseteq Otprn
    /\ \A o \in DOMAIN message : message[o] \in FnStatus

\* The follower's hashes describe elections in their leagues.
FollowerElected ==
    \A o \in Otprn : fBlockHash[o] \notin {Nil, ZeroHash} =>
        /\ fBlockHash[o].otprn = o
        /\ Elected(votes, [block |-> fBlockHash[o], voters |-> fVotehash[o]])

GroupElected == IInv /\ IsFiniteSet(votes) /\ FollowerType /\ FollowerElected

-----------------------------------------------------------------------------
\* A set of numbers has a least one: < is well-founded on Nat.
Less == {p \in Nat \X Nat : p[1] < p[2]}

LEMMA Least ==
    ASSUME NEW T \in SUBSET Nat, T # {}
    PROVE  \E n \in T : \A k \in T : n <= k
<1>1. IsWellFoundedOn(Less, Nat)
  BY NatLessThanWellFounded DEF OpToRel, Less
<1>2. PICK n \in T : \A k \in T : ~(<<k, n>> \in Less)
  BY <1>1, WFMin, Zenon
<1>3. \A k \in T : ~(k < n)
  BY <1>2 DEF Less
<1> QED BY <1>3

\* Every count has a winner, which both fairnodes find.
LEMMA SomeBlockWins ==
    ASSUME NEW vs, IsFiniteSet(vs)
    PROVE  Winner(vs) \in FinalBlockHash(vs)
<1> SUFFICES FinalBlockHash(vs) # {}
  BY Zenon DEF Winner
<1>1. CASE vs = {}
  BY <1>1 DEF FinalBlockHash
<1>2. CASE vs # {}
  <2> DEFINE B == {v.block : v \in vs}
             N == Cardinality(vs)
             T == {N - Count(vs, b) : b \in B}
  <2>1. ASSUME NEW b PROVE Count(vs, b) \in Nat /\ Count(vs, b) <= N /\ N \in Nat
    <3> DEFINE S == {v \in vs : v.block = b}
    <3>1. S \subseteq vs
      OBVIOUS
    <3>2. IsFiniteSet(S) /\ Cardinality(S) <= N
      BY <3>1, FS_Subset
    <3> QED BY <3>2, FS_CardinalityType DEF Count
  <2>2. T \in SUBSET Nat /\ T # {}
    <3>1. ASSUME NEW b \in B PROVE N - Count(vs, b) \in Nat
      BY <2>1
    <3>2. B # {}
      BY <1>2
    <3> HIDE DEF B, N
    <3> QED BY <3>1, <3>2
  <2>3. PICK n \in T : \A k \in T : n <= k
    BY <2>2, Least
  <2>4. PICK b \in B : n = N - Count(vs, b)
    BY <2>3
  <2>5. \A c \in B : Count(vs, c) <= Count(vs, b)
    <3> SUFFICES ASSUME NEW c \in B PROVE Count(vs, c) <= Count(vs, b)
      OBVIOUS
    <3>1. N - Count(vs, b) <= N - Count(vs, c)
      BY <2>3, <2>4
    <3> HIDE DEF N
    <3> QED BY <2>1, <3>1
  <2> QED BY <1>2, <2>4, <2>5 DEF FinalBlockHash
<1> QED BY <1>1, <1>2

-----------------------------------------------------------------------------
\* Why the group stores and signs only elected blocks: what the follower counts
\* for itself is an election as well.
LEMMA InitElected == GroupInit => GroupElected
<1> SUFFICES ASSUME GroupInit PROVE GroupElected
  OBVIOUS
<1>1. IInv
  BY InitIInv DEF GroupInit
<1>2. IsFiniteSet(votes)
  BY FS_EmptySet DEF GroupInit, Init
<1>3. FollowerType
  BY <1>1 DEF GroupInit, FollowerType, IInv, TypeInv, TypeOK
<1>4. FollowerElected
  BY DEF GroupInit, Init, FollowerElected
<1> QED BY <1>1, <1>2, <1>3, <1>4 DEF GroupElected

\* Ballots are only added, one at a time.
LEMMA LeaderVotes ==
    ASSUME IsFiniteSet(votes), Next
    PROVE  votes \subseteq votes' /\ IsFiniteSet(votes')
<1>1. votes' = votes \/ \E v : votes' = votes \cup {v}
  BY Zenon DEF Next, MakeOtprn, MakeOtprnTick, NewOtprn, NoConfig, AddLeague, SaveOtprn, Decide,
     ProcessManageLoop, PendingTick, SleepTick, MakeJoinTxTick, VoteCountingTick, SendBlockTick,
     FinalizeTick, Wake, RejectWake, FinalizeWake, Signal, Requests, CleanOldNode, RequestOtprn,
     HeartBeat, Vote, SendBlock, RequestFairnodeSign, SaveIndexed, SaveRaw, SaveFails, Restart
<1>2. \A v : IsFiniteSet(votes \cup {v})
  BY FS_AddElement
<1> QED BY <1>1, <1>2, Zenon

\* The follower's turn on one league of a message.
LEMMA HandleElected ==
    ASSUME GroupElected, NEW o \in Otprn, HandleLeague(o)
    PROVE  GroupElected'
<1> USE DEF GroupElected
<1>1. UNCHANGED vars
  BY DEF HandleLeague
<1>2. IInv' /\ IsFiniteSet(votes')
  BY <1>1, NextIInv DEF vars
<1>3. /\ follows' = follows /\ message' = [p \in DOMAIN message \ {o} |-> message[p]]
      /\ votes' = votes /\ o \in DOMAIN message /\ message[o] \in FnStatus
  BY <1>1, Zenon DEF HandleLeague, vars, FollowerType
<1>4. ASSUME NEW n \in CurrentBlock PROVE n \in Nat \cup {Nil}
  BY DatabaseAnswers DEF IInv, TypeInv
<1>5. CASE FollowerAdd(o)
  <2>1. fLastNumber \in Nat
    BY DEF fLastNumber, FollowerType
  <2>2. FollowerType'
    BY <1>3, <1>5, <2>1 DEF FollowerType, FollowerAdd, mirror, FnStatus
  <2>3. FollowerElected'
    BY <1>3, <1>5 DEF FollowerType, FollowerAdd, mirror, FollowerElected
  <2> QED BY <1>2, <2>2, <2>3
<1>6. CASE FollowerFinalize(o)
  <2>1. PICK n \in CurrentBlock :
          IF n = Nil THEN UNCHANGED <<fLastBlock, fCurrent, fBlockHash, fVotehash>>
          ELSE /\ fLastBlock' = n
               /\ fCurrent' = [fCurrent EXCEPT ![o] = n]
               /\ fVotehash' = [fVotehash EXCEPT ![o] = Nil]
               /\ fBlockHash' = [fBlockHash EXCEPT ![o] = Nil]
    BY <1>6 DEF FollowerFinalize
  <2>2. n = Nil \/ n \in Nat
    BY <1>4
  <2>3. FollowerType'
    BY <1>3, <1>6, <2>1, <2>2 DEF FollowerType, FollowerFinalize, FnStatus, Round
  <2>4. FollowerElected'
    BY <1>3, <2>1 DEF FollowerType, FollowerElected
  <2> QED BY <1>2, <2>3, <2>4
<1>7. CASE FollowerReject(o)
  <2>1. FollowerType'
    BY <1>3, <1>7 DEF FollowerType, FollowerReject, FnStatus
  <2>2. FollowerElected'
    BY <1>3, <1>7 DEF FollowerReject, FollowerElected
  <2> QED BY <1>2, <2>1, <2>2
<1>8. CASE FollowerRound(o, message[o])
  <2> DEFINE vs == GetVoters(o, fCurrent[o] + 1)
  <2>1. vs \in Answer({vs}, {}) /\ vs \subseteq votes
    <3>1. vs \subseteq votes
      BY Zenon DEF GetVoters
    <3> HIDE DEF vs
    <3> QED BY <3>1 DEF Answer
  <2>2. vs \subseteq Ballot /\ IsFiniteSet(vs)
    BY <2>1, FS_Subset DEF IInv, TypeInv, TypeOK
  <2>3. Winner(vs) \in FinalBlockHash(vs)
    BY <2>2, SomeBlockWins
  <2>4. Winner(vs) \in Block \cup {ZeroHash}
    <3>1. ASSUME NEW v \in vs PROVE v.block \in Block
      BY <2>2 DEF Ballot
    <3> QED BY <2>3, <3>1 DEF FinalBlockHash
  <2>5. ASSUME Cardinality(vs) >= MinMiner - 1, Winner(vs) # ZeroHash
        PROVE  /\ Winner(vs).otprn = o
               /\ Elected(votes, [block |-> Winner(vs), voters |-> vs])
    <3>1. \A v \in vs : v.block.otprn = o
      BY DEF GetVoters
    <3>2. Winner(vs).otprn = o
      BY <2>3, <2>5, <3>1 DEF FinalBlockHash
    <3> QED BY <2>1, <2>3, <2>5, <3>2, CountElects DEF IInv, TypeInv
  <2>6. \/ UNCHANGED <<fBlockHash, fVotehash>>
        \/ /\ Cardinality(vs) >= MinMiner - 1
           /\ fBlockHash' = [fBlockHash EXCEPT ![o] = Winner(vs)]
           /\ fVotehash' = [fVotehash EXCEPT ![o] = vs]
    BY <1>8, Zenon DEF FollowerRound
  <2> HIDE DEF vs
  <2>7. FollowerType'
    BY <1>3, <1>8, <2>2, <2>4, <2>6 DEF FollowerType, FollowerRound
  <2>8. FollowerElected'
    BY <1>3, <2>5, <2>6 DEF FollowerType, FollowerElected
  <2> QED BY <1>2, <2>7, <2>8
<1> QED BY <1>5, <1>6, <1>7, <1>8, Zenon DEF HandleLeague

\* Requests that the follower answers: what they add to the ballots, the calls
\* under way and the signatures.
LEMMA FollowerAdds ==
    ASSUME FollowerRequests
    PROVE  \/ \E m \in Miner :
              \E b \in [otprn : fLeagues, num : 1 .. MaxHeight, miner : Sealer] :
                 /\ InPhase(b.otprn) /\ FollowerVote(m, b)
                 /\ votes' = votes \cup {[voter |-> m, block |-> b]}
                 /\ UNCHANGED <<saving, signed>>
           \/ \E o \in fLeagues : \E b \in {fBlockHash[o]} \ {Nil, ZeroHash} :
                 /\ InPhase(o) /\ UNCHANGED votes
                 /\ \/ /\ b.otprn \in fLeagues /\ fStatus[b.otprn] = "SEND_BLOCK"
                       /\ saving' = saving \cup {[block |-> b, voters |-> fVotehash[o],
                                                  next |-> "blockChain"]}
                       /\ UNCHANGED signed
                    \/ /\ signed' = signed \cup {[block |-> b, voters |-> fVotehash[o]]}
                       /\ UNCHANGED saving
BY Zenon DEF FollowerRequests, FollowerVote, FollowerSendBlock, FollowerSign

\* A step that leaves the leader's process alone keeps its types.
LEMMA TypeFrame ==
    ASSUME TypeInv, UNCHANGED <<up, pointers, league, ploop, mloop, members, chain>>,
           votes' \subseteq Ballot, signed' \subseteq Final,
           saving' \subseteq [block : Block, voters : SUBSET Ballot,
                              next : {"blockChain", "blockChainRaw"}]
    PROVE  TypeInv'
<1>1. /\ up' = up /\ currentLeague' = currentLeague /\ pendingLeague' = pendingLeague
      /\ leagues' = leagues /\ Status' = Status /\ Current' = Current
      /\ BlockHash' = BlockHash /\ Votehash' = Votehash /\ lastBlock' = lastBlock
  BY Zenon DEF pointers, league
<1>2. /\ ppc' = ppc /\ pstatus' = pstatus /\ sendBlockAttampt' = sendBlockAttampt
      /\ leageuWaitAttampt' = leageuWaitAttampt /\ mpc' = mpc /\ isCur' = isCur
      /\ otpHash' = otpHash
  BY Zenon DEF ploop, mloop
<1>3. /\ active' = active /\ otprnList' = otprnList /\ leagueList' = leagueList
      /\ blockChain' = blockChain /\ blockChainRaw' = blockChainRaw
  BY Zenon DEF members, chain
<1>4. Drawn'
  BY <1>2, Zenon DEF TypeInv, Drawn
<1>5. TypeOK'
  BY <1>1, <1>2, <1>3, ZenonT(40) DEF TypeInv, TypeOK
<1> QED BY <1>4, <1>5 DEF TypeInv

LEMMA RequestElected ==
    ASSUME GroupElected, FollowerRequests
    PROVE  GroupElected'
<1> USE DEF GroupElected
<1>1. UNCHANGED <<up, pointers, league, ploop, mloop, members, chain, fvars>>
  BY Zenon DEF FollowerRequests
<1>2. FollowerType'
  BY <1>1 DEF FollowerType, fvars, mirror
<1>3. TypeInv /\ ElectedInv
  BY DEF IInv
<1>4. ASSUME NEW m \in Miner, NEW b \in [otprn : fLeagues, num : 1 .. MaxHeight, miner : Sealer],
             votes' = votes \cup {[voter |-> m, block |-> b]}, UNCHANGED <<saving, signed>>
      PROVE  GroupElected'
  <2>2. b \in Block
    BY ConfigAssumption DEF Block, FollowerType
  <2>3. [voter |-> m, block |-> b] \in Ballot
    BY <2>2 DEF Ballot
  <2>4. TypeInv'
    <3>1. /\ votes \subseteq Ballot /\ signed \subseteq Final
          /\ saving \subseteq [block : Block, voters : SUBSET Ballot,
                               next : {"blockChain", "blockChainRaw"}]
      BY <1>3, Zenon DEF TypeInv, TypeOK
    <3>2. votes' \subseteq Ballot
      BY <1>4, <2>3, <3>1
    <3> QED BY <1>1, <1>3, <1>4, <3>1, <3>2, TypeFrame
  <2>5. ElectedInv'
    BY <1>1, <1>3, <1>4, ElectedFrame DEF league, chain
  <2>6. IsFiniteSet(votes') /\ votes \subseteq votes'
    BY <1>4, FS_AddElement
  <2>7. FollowerElected'
    BY <1>1, <2>6, ElectedStays DEF FollowerElected, fvars, mirror
  <2> QED BY <1>2, <2>4, <2>5, <2>6, <2>7 DEF IInv
<1>5. ASSUME NEW o \in fLeagues, NEW b \in {fBlockHash[o]} \ {Nil, ZeroHash}, UNCHANGED votes,
             \/ /\ saving' = saving \cup {[block |-> b, voters |-> fVotehash[o],
                                           next |-> "blockChain"]}
                /\ UNCHANGED signed
             \/ /\ signed' = signed \cup {[block |-> b, voters |-> fVotehash[o]]}
                /\ UNCHANGED saving
      PROVE  GroupElected'
  <2> DEFINE vs == fVotehash[o]
  <2>1. o \in Otprn /\ b \in Block
    BY DEF FollowerType
  <2>2. Elected(votes, [block |-> b, voters |-> vs])
    BY <2>1 DEF FollowerElected
  <2>3. vs \subseteq votes
    BY <2>2 DEF Elected
  <2>4. vs \in SUBSET Ballot
    <3>1. votes \subseteq Ballot
      BY <1>3, Zenon DEF TypeInv, TypeOK
    <3> QED BY <2>3, <3>1
  <2> HIDE DEF vs
  <2>5. TypeInv'
    <3>1. /\ votes \subseteq Ballot /\ signed \subseteq Final
          /\ saving \subseteq [block : Block, voters : SUBSET Ballot,
                               next : {"blockChain", "blockChainRaw"}]
      BY <1>3, Zenon DEF TypeInv, TypeOK
    <3>2. signed' \subseteq Final
      BY <1>5, <2>1, <2>4, <3>1 DEF Final, vs
    <3>3. saving' \subseteq [block : Block, voters : SUBSET Ballot,
                             next : {"blockChain", "blockChainRaw"}]
      BY <1>5, <2>1, <2>4, <3>1 DEF vs
    <3> QED BY <1>1, <1>3, <1>5, <3>1, <3>2, <3>3, TypeFrame
  <2>6. LeagueElected'
    BY <1>1, <1>3, <1>5, Zenon DEF ElectedInv, LeagueElected, league
  <2>7. SavingElected'
    <3> SUFFICES ASSUME NEW s \in saving'
                 PROVE  Elected(votes, [block |-> s.block, voters |-> s.voters])
      BY <1>5, Zenon DEF SavingElected
    <3>1. CASE s \in saving
      BY <1>3, <3>1, Zenon DEF ElectedInv, SavingElected
    <3>2. CASE s = [block |-> b, voters |-> vs, next |-> "blockChain"]
      BY <2>2, <3>2
    <3> QED BY <1>5, <3>1, <3>2, Zenon DEF vs
  <2>8. OnlyElected'
    BY <1>1, <1>3, <1>5, <2>2 DEF ElectedInv, OnlyElected, chain, vs
  <2>9. FollowerElected'
    BY <1>1, <1>5, Zenon DEF FollowerElected, fvars, mirror
  <2> QED BY <1>2, <1>5, <2>5, <2>6, <2>7, <2>8, <2>9 DEF IInv, ElectedInv
<1> QED BY FollowerAdds, <1>4, <1>5, Zenon

\* The follower becomes leader; a SaveFinalBlock of the old leader is cut short.
LEMMA TakeoverElected ==
    ASSUME GroupElected, Takeover
    PROVE  GroupElected'
<1> USE DEF GroupElected
<1>1. TypeInv'
  <2>1. TypeOK /\ fLastBlock \in Nat \cup {Nil}
    BY Zenon DEF IInv, TypeInv, FollowerType
  <2>2. /\ up' \in BOOLEAN /\ currentLeague' \in Otprn \cup {Nil}
        /\ pendingLeague' \in Otprn \cup {Nil} /\ leagues' \subseteq Otprn
        /\ lastBlock' \in Nat \cup {Nil} /\ isCur' \in BOOLEAN
        /\ otpHash' \in Otprn \cup {Nil} /\ active' \subseteq Miner
    BY <2>1, Zenon DEF Takeover
  <2>3. /\ ppc' \in {"tick", "sleep", "signal"} /\ pstatus' \in FnStatus
        /\ sendBlockAttampt' \in Nat /\ leageuWaitAttampt' \in Nat
        /\ mpc' \in {"select", "decide", "fresh", "add", "save"}
        /\ mpc' \notin {"add", "save"}
    BY DEF Takeover, FnStatus
  <2>4. /\ Status' = Status /\ Current' = Current /\ BlockHash' = BlockHash
        /\ Votehash' = Votehash /\ otprnList' = otprnList /\ leagueList' = leagueList
        /\ votes' = votes /\ blockChain' = blockChain /\ blockChainRaw' = blockChainRaw
        /\ saving' \subseteq saving /\ signed' = signed
    BY Zenon DEF Takeover, chain
  <2> QED BY <2>1, <2>2, <2>3, <2>4, Zenon DEF TypeInv, TypeOK, Drawn
<1>2. /\ ElectedInv' /\ IsFiniteSet(votes')
  BY ElectedFrame DEF IInv, Takeover, chain
<1>3. FollowerType'
  <2>1. message' = <<>> /\ fLeagues' = {} /\ follows' = FALSE
        /\ UNCHANGED <<fStatus, fCurrent, fBlockHash, fVotehash, fLastBlock, gone>>
    BY Zenon DEF Takeover
  <2>2. DOMAIN message' = {}
    BY <2>1
  <2> QED BY <2>1, <2>2 DEF GroupElected, FollowerType
<1>4. FollowerElected'
  BY Zenon DEF GroupElected, FollowerElected, Takeover
<1> QED BY <1>1, <1>2, <1>3, <1>4 DEF GroupElected, IInv

LEMMA GroupInductive == GroupElected /\ [GroupNext]_gvars => GroupElected'
<1> SUFFICES ASSUME GroupElected, [GroupNext]_gvars PROVE GroupElected'
  OBVIOUS
<1>1. CASE LeaderStep
  <2>1. Next /\ UNCHANGED fvars
    BY <1>1, Zenon DEF LeaderStep
  <2>2. IInv' /\ votes \subseteq votes' /\ IsFiniteSet(votes')
    BY <2>1, NextIInv, LeaderVotes DEF GroupElected
  <2>3. FollowerType'
    BY <2>1 DEF GroupElected, FollowerType, fvars, mirror
  <2>4. FollowerElected'
    BY <2>1, <2>2, ElectedStays DEF GroupElected, FollowerElected, fvars, mirror
  <2> QED BY <2>2, <2>3, <2>4 DEF GroupElected
<1>2. CASE SyncController \/ UNCHANGED gvars
  <2>1. UNCHANGED <<vars, follows, mirror, fLastBlock, gone>>
    BY <1>2, Zenon DEF SyncController, gvars, fvars
  <2>2. message' = message \/ message' = [o \in leagues |-> Status[o]]
    BY <1>2, Zenon DEF SyncController, gvars, fvars
  <2>3. IInv' /\ votes' = votes
    BY <2>1, NextIInv DEF GroupElected, vars
  <2>4. FollowerType'
    BY <2>1, <2>2 DEF GroupElected, FollowerType, mirror, IInv, TypeInv, TypeOK
  <2>5. FollowerElected'
    BY <2>1, <2>3, Zenon DEF GroupElected, FollowerElected, mirror
  <2> QED BY <2>3, <2>4, <2>5 DEF GroupElected
<1> QED BY <1>1, <1>2, HandleElected, RequestElected, TakeoverElected, Zenon DEF GroupNext

\* Whatever is stored as final or signed, by the leader or by the follower, was
\* elected by ballots one of them received: for any number of leagues and
\* miners, with messages the follower misses, requests that reach it late and a
\* follower that takes over in the middle of a SaveFinalBlock.
THEOREM GroupSafety == GroupSpec => []OnlyElected
<1>1. GroupElected => OnlyElected
  BY DEF GroupElected, IInv, ElectedInv
<1> QED BY <1>1, InitElected, GroupInductive, PTL DEF GroupSpec

-----------------------------------------------------------------------------
(* Where no call of the leader is delayed past a sleep of its loop and no  *)
(* request reaches the follower late, the follower's handlers leave the    *)
(* leader's leagues in order: what they store is stored in SEND_BLOCK.     *)

LEMMA OrderFrame ==
    ASSUME PointerInv, OrderInv, UNCHANGED <<up, pointers, league, ploop, mloop, chain>>,
           \/ saving' = saving
           \/ currentLeague \in leagues /\ Status[currentLeague] = "SEND_BLOCK"
    PROVE  PointerInv' /\ OrderInv'
<1>1. /\ up' = up /\ currentLeague' = currentLeague /\ pendingLeague' = pendingLeague
      /\ leagues' = leagues /\ Status' = Status /\ Current' = Current
      /\ BlockHash' = BlockHash /\ lastBlock' = lastBlock /\ ppc' = ppc /\ pstatus' = pstatus
      /\ mpc' = mpc /\ isCur' = isCur /\ otpHash' = otpHash /\ blockChain' = blockChain
  BY Zenon DEF pointers, league, ploop, mloop, chain
<1>2. PointerInv'
  BY <1>1, Zenon DEF PointerInv, PointersResolve, Holder, Distinct, Owned
<1>3. Saved'
  BY <1>1 DEF OrderInv, Saved
<1>4. Deciding'
  <2>1. Answering' => Answering
    BY <1>1 DEF Answering
  <2>2. Answering => saving' = saving
    BY EpochAnswers DEF OrderInv, Deciding
  <2> QED BY <1>1, <2>1, <2>2, Zenon DEF OrderInv, Deciding, Newest
<1> QED BY <1>1, <1>2, <1>3, <1>4, Zenon DEF OrderInv, Named, Unnamed, Waiting, Asleep

LEMMA SendsInPhase ==
    ASSUME GroupElected, OrderInv, "late" \notin GroupFaults, FollowerRequests
    PROVE  \/ saving' = saving
           \/ currentLeague \in leagues /\ Status[currentLeague] = "SEND_BLOCK"
<1> SUFFICES ASSUME saving' # saving
             PROVE  currentLeague \in leagues /\ Status[currentLeague] = "SEND_BLOCK"
  OBVIOUS
<1>1. PICK o \in fLeagues : \E b \in {fBlockHash[o]} \ {Nil, ZeroHash} :
          InPhase(o) /\ b.otprn \in fLeagues /\ fStatus[b.otprn] = "SEND_BLOCK"
  BY FollowerAdds, Zenon
<1>2. fBlockHash[o].otprn = o
  BY <1>1, Zenon DEF GroupElected, FollowerElected, FollowerType
<1>3. o \in leagues /\ Status[o] = "SEND_BLOCK"
  BY <1>1, <1>2, Zenon DEF InPhase
<1>4. o = currentLeague
  BY <1>3 DEF OrderInv, Waiting
<1> QED BY <1>3, <1>4

LEMMA TakeoverInOrder ==
    ASSUME Takeover
    PROVE  PointerInv' /\ OrderInv'
<1>1. /\ currentLeague' = Nil /\ pendingLeague' = Nil /\ leagues' = {}
      /\ ppc' = "tick" /\ mpc' = "select"
  BY Zenon DEF Takeover
<1> QED BY <1>1 DEF PointerInv, PointersResolve, Holder, Distinct, Owned, OrderInv, Named,
                    Unnamed, Waiting, Asleep, Saved, Deciding, Answering

GroupOrder == GroupElected /\ PointerInv /\ OrderInv

LEMMA GroupInOrder ==
    ASSUME "delay" \notin Faults, "late" \notin GroupFaults, GroupOrder, [GroupNext]_gvars
    PROVE  GroupOrder'
<1> USE DEF GroupOrder
<1>1. GroupElected' /\ TypeInv
  BY GroupInductive DEF GroupElected, IInv
<1>2. CASE LeaderStep
  BY <1>1, <1>2, NextPointers, NextOrder DEF LeaderStep
<1>3. CASE SyncController \/ (\E o \in Otprn : HandleLeague(o)) \/ UNCHANGED gvars
  <2>1. UNCHANGED vars
    BY <1>3, Zenon DEF SyncController, HandleLeague, gvars
  <2> QED BY <1>1, <2>1, NextPointers, NextOrder
<1>4. CASE FollowerRequests
  BY <1>1, <1>4, SendsInPhase, OrderFrame, Zenon DEF FollowerRequests
<1>5. CASE Takeover
  BY <1>1, <1>5, TakeoverInOrder
<1> QED BY <1>2, <1>3, <1>4, <1>5, Zenon DEF GroupNext

-----------------------------------------------------------------------------
(* Why a deleted league does not come back.  The follower remembers one    *)
(* otprn only.  That is enough: the leader rejects one league at a time,   *)
(* so that a message rejects one at most, and the league remembered before *)
(* is neither in the leader's table any more nor in the message.           *)
OneRejected ==
    \A o \in DOMAIN message : message[o] = "REJECT" =>
        /\ Status[o] = "REJECT"
        /\ \A p \in DOMAIN message \ {o} : message[p] # "REJECT"
        /\ \A p \in gone \ {o} : p \notin leagues \cup DOMAIN message
Remembered == \A o \in gone \cap (leagues \cup DOMAIN message) : dHash = o
Rejected == \A o \in gone : Status[o] = "REJECT"
GoneInv == /\ follows \/ fLeagues = {}
           /\ GoneStaysGone /\ Rejected /\ Remembered /\ OneRejected

\* What the leader has rejected it does not bring back either.
LEMMA LeaderGone ==
    ASSUME TypeInv, PointerInv, OrderInv, "delay" \notin Faults, FollowerType, GoneInv,
           Next, UNCHANGED fvars
    PROVE  GoneInv'
<1>1. ASSUME NEW o \in Otprn, Status[o] = "REJECT" PROVE Status'[o] = "REJECT"
  <2>1. Status'[o] # Status[o] => Follows(Status[o], Status'[o])
    BY NextOrder DEF InOrder
  <2>2. ~Follows("REJECT", Status'[o])
    BY DEF Follows, RoundOrder
  <2> QED BY <1>1, <2>1, <2>2
<1>2. leagues' \subseteq leagues \cup {o \in Otprn : Status[o] = "NONE"}
  <2>1. \/ leagues' \subseteq leagues
        \/ mpc = "add" /\ leagues' = leagues \cup {otpHash}
    BY Zenon DEF Next, MakeOtprn, MakeOtprnTick, NewOtprn, NoConfig, AddLeague, SaveOtprn, Decide,
       ProcessManageLoop, PendingTick, SleepTick, MakeJoinTxTick, VoteCountingTick, SendBlockTick,
       FinalizeTick, Wake, RejectWake, FinalizeWake, Signal, Requests, CleanOldNode, RequestOtprn,
       HeartBeat, Vote, SendBlock, RequestFairnodeSign, SaveIndexed, SaveRaw, SaveFails, Restart,
       league
  <2> QED BY <2>1 DEF TypeInv, Drawn, OrderInv, Unnamed
<1>3. /\ follows' = follows /\ fLeagues' = fLeagues /\ gone' = gone /\ dHash' = dHash
      /\ message' = message
  BY Zenon DEF fvars, mirror
<1>4. gone \subseteq Otprn /\ DOMAIN message \subseteq Otprn
  BY Zenon DEF FollowerType
<1>5. \A o \in gone : o \in leagues' => o \in leagues
  BY <1>2 DEF GoneInv, Rejected
<1>6. Rejected' /\ Remembered'
  BY <1>1, <1>3, <1>4, <1>5, Zenon DEF GoneInv, Rejected, Remembered
<1>7. OneRejected'
  BY <1>1, <1>3, <1>4, <1>5, Zenon DEF GoneInv, OneRejected
<1> QED BY <1>3, <1>6, <1>7, Zenon DEF GoneInv, GoneStaysGone

\* The follower's turn on one league.
LEMMA HandleGone ==
    ASSUME FollowerType, GoneInv, NEW o \in Otprn, HandleLeague(o)
    PROVE  GoneInv'
<1>1. /\ follows /\ follows' = follows /\ o \in DOMAIN message
      /\ Status' = Status /\ leagues' = leagues
  BY Zenon DEF HandleLeague, vars, league
<1>2. /\ DOMAIN message' = DOMAIN message \ {o}
      /\ \A p \in DOMAIN message' : message'[p] = message[p]
  BY DEF HandleLeague
<1>3. CASE FollowerReject(o) /\ message[o] = "REJECT" /\ o \in fLeagues
  <2>1. fLeagues' = fLeagues \ {o} /\ dHash' = o /\ gone' = gone \cup {o}
    BY <1>3, Zenon DEF FollowerReject
  <2>2. /\ Status[o] = "REJECT" /\ \A p \in DOMAIN message \ {o} : message[p] # "REJECT"
        /\ \A p \in gone \ {o} : p \notin leagues \cup DOMAIN message
    BY <1>1, <1>3, Zenon DEF GoneInv, OneRejected
  <2>3. GoneStaysGone' /\ Rejected'
    BY <1>1, <2>1, <2>2 DEF GoneInv, GoneStaysGone, Rejected
  <2>4. Remembered' /\ OneRejected'
    BY <1>1, <1>2, <2>1, <2>2 DEF Remembered, OneRejected
  <2> QED BY <1>1, <2>3, <2>4 DEF GoneInv
<1>4. CASE FollowerAdd(o) \/ FollowerFinalize(o) \/ FollowerRound(o, message[o])
  <2>1. gone' = gone /\ dHash' = dHash
    BY <1>4, Zenon DEF FollowerAdd, FollowerFinalize, FollowerRound
  <2>2. fLeagues' = fLeagues \/ (dHash # o /\ fLeagues' = fLeagues \cup {o})
    BY <1>4, Zenon DEF FollowerAdd, FollowerFinalize, FollowerRound, mirror
  <2>3. o \in gone => dHash = o
    BY <1>1, Zenon DEF GoneInv, Remembered
  <2>4. GoneStaysGone' /\ Rejected'
    BY <1>1, <2>1, <2>2, <2>3 DEF GoneInv, GoneStaysGone, Rejected
  <2>5. Remembered' /\ OneRejected'
    BY <1>1, <1>2, <2>1 DEF GoneInv, Remembered, OneRejected
  <2> QED BY <1>1, <2>4, <2>5 DEF GoneInv
<1> QED BY <1>3, <1>4, Zenon DEF HandleLeague

\* The message SyncController makes rejects the current league at most.
LEMMA SyncGone ==
    ASSUME OrderInv, GoneInv, SyncController
    PROVE  GoneInv'
<1>1. /\ follows' = follows /\ fLeagues' = fLeagues /\ gone' = gone /\ dHash' = dHash
      /\ Status' = Status /\ leagues' = leagues
  BY Zenon DEF SyncController, mirror, vars, league
<1>2. DOMAIN message' = leagues /\ \A o \in leagues : message'[o] = Status[o]
  BY DEF SyncController
<1>3. \A o \in leagues : Status[o] = "REJECT" => o = currentLeague
  BY DEF OrderInv, Waiting
<1>4. Remembered'
  BY <1>1, <1>2 DEF GoneInv, Remembered
<1>5. OneRejected'
  BY <1>1, <1>2, <1>3 DEF GoneInv, Rejected, OneRejected
<1> QED BY <1>1, <1>4, <1>5, Zenon DEF GoneInv, GoneStaysGone, Rejected

LEMMA GroupGone ==
    ASSUME "delay" \notin Faults, "late" \notin GroupFaults, GroupOrder, GoneInv,
           [GroupNext]_gvars
    PROVE  GoneInv'
<1>1. TypeInv /\ PointerInv /\ OrderInv /\ FollowerType
  BY DEF GroupOrder, GroupElected, IInv
<1>2. CASE LeaderStep
  BY <1>1, <1>2, LeaderGone DEF LeaderStep
<1>3. CASE FollowerRequests \/ UNCHANGED gvars
  <2>1. /\ follows' = follows /\ fLeagues' = fLeagues /\ gone' = gone /\ dHash' = dHash
        /\ message' = message /\ Status' = Status /\ leagues' = leagues
    BY <1>3, Zenon DEF FollowerRequests, gvars, vars, fvars, mirror, league
  <2> QED BY <2>1, Zenon DEF GoneInv, GoneStaysGone, Rejected, Remembered, OneRejected
<1>4. CASE Takeover
  <2>1. /\ fLeagues' = {} /\ message' = <<>> /\ leagues' = {} /\ gone' = gone /\ Status' = Status
    BY <1>4, Zenon DEF Takeover
  <2>2. DOMAIN message' = {}
    BY <2>1
  <2> QED BY <2>1, <2>2 DEF GoneInv, GoneStaysGone, Rejected, Remembered, OneRejected
<1> QED BY <1>1, <1>2, <1>3, <1>4, SyncGone, HandleGone, Zenon DEF GroupNext

\* A league that the follower has deleted on REJECT is never added again by a
\* message that still carries it, although the follower remembers only the otprn
\* it deleted last: for any number of leagues, with skipped messages, takeovers,
\* database errors and restarts of the leader, where no call outlasts a sleep of
\* the leader's loop and no request reaches the follower late.
THEOREM DeletedStaysDeleted ==
    ASSUME "delay" \notin Faults, "late" \notin GroupFaults
    PROVE  GroupSpec => []GoneStaysGone
<1>1. GroupInit => GroupOrder /\ GoneInv
  <2> SUFFICES ASSUME GroupInit PROVE GroupOrder /\ GoneInv
    OBVIOUS
  <2>1. GroupOrder
    BY InitElected, InitLeague DEF GroupOrder, GroupInit
  <2>2. fLeagues = {} /\ gone = {} /\ message = <<>>
    BY Zenon DEF GroupInit
  <2>3. DOMAIN message = {}
    BY <2>2
  <2> QED BY <2>1, <2>2, <2>3 DEF GoneInv, GoneStaysGone, Rejected, Remembered, OneRejected
<1>2. GroupOrder /\ GoneInv /\ [GroupNext]_gvars => GroupOrder' /\ GoneInv'
  BY GroupInOrder, GroupGone
<1>3. GoneInv => GoneStaysGone
  BY Zenon DEF GoneInv
<1> QED BY <1>1, <1>2, <1>3, PTL DEF GroupSpec

-----------------------------------------------------------------------------
(* Why a takeover does not start below a block that went through FINALIZE. *)
(* The loop sleeps in FINALIZE until the follower has seen it, and nothing *)
(* is stored from there on until the next SEND_BLOCK, so that leader and   *)
(* follower read the same block although each reads at a time of its own.  *)

\* What is indexed is stored raw too, or is about to be.
RawKept ==
    \A f \in blockChain :
        GetBlock(f.block) \/ \E s \in saving : s.next = "blockChainRaw" /\ s.block = f.block

\* The round of league o is over and the next one has not stored anything.
Over == {"FINALIZE", "MAKE_JOIN_TX", "REJECT"}
Ended(o) == o = currentLeague /\ o \in leagues /\ Status[o] \in Over /\ saving = {}

\* A tick has read the block of a FINALIZE that makeOtprn has not yet answered.
Ending == mpc = "decide" \/ ppc = "signal" \/ (ppc = "sleep" /\ pstatus = "FINALIZE")

\* It has just done so, and the follower may not have.
Unheard == up /\ ppc = "sleep" /\ mpc # "decide" /\ Status[currentLeague] = "FINALIZE"

EndsToTell == \A o \in DOMAIN message : message[o] = "FINALIZE" => Ended(o)
EndSeen ==
    /\ up /\ currentLeague \in leagues
    /\ Status[currentLeague] = "FINALIZE" /\ fStatus[currentLeague] = "FINALIZE"
    => CurrentBlock \subseteq {fLastBlock, Nil}
EndRead == Ending => Ended(currentLeague) /\ lastBlock \in CurrentBlock \ {Nil}
EndHeard == Ending /\ ~Unheard => fLastBlock = lastBlock
FinalInv == RawKept /\ EndsToTell /\ EndSeen /\ EndRead /\ EndHeard

\* The database has one answer while nothing is being stored.
LEMMA OneAnswer ==
    ASSUME TypeOK, RawKept, saving = {}, "dbError" \notin Faults,
           NEW m \in CurrentBlock, NEW n \in CurrentBlock
    PROVE  m = n
<1>1. CASE blockChain = {}
  BY <1>1 DEF CurrentBlock
<1>2. CASE blockChain # {}
  <2>1. \A f \in Newest : GetBlock(f.block)
    BY Zenon DEF RawKept, Newest
  <2>2. CurrentBlock = {IF GetBlock(f.block) THEN f.block.num ELSE Nil : f \in Newest}
    BY <1>2 DEF CurrentBlock, Answer
  <2>3. (\E f \in Newest : m = f.block.num) /\ (\E f \in Newest : n = f.block.num)
    BY <2>1, <2>2
  <2>4. \A f, g \in Newest : f.block.num <= g.block.num /\ f.block.num \in Nat
    BY StoredNumber DEF Newest
  <2> QED BY <2>3, <2>4
<1> QED BY <1>1, <1>2

\* The answers of the database change with what is stored only.
LEMMA SameStore ==
    ASSUME RawKept, blockChain' = blockChain, blockChainRaw' = blockChainRaw, saving' = saving
    PROVE  RawKept' /\ CurrentBlock' = CurrentBlock
<1>1. \A b : GetBlock(b)' = GetBlock(b)
  BY Zenon DEF GetBlock
<1>2. RawKept'
  BY <1>1, Zenon DEF RawKept
<1>3. Newest' = Newest
  BY Zenon DEF Newest
<1> QED BY <1>1, <1>2, <1>3, Zenon DEF CurrentBlock, Answer

\* A step that ends no round and stores nothing.
LEMMA QuietFinal ==
    ASSUME FinalInv, UNCHANGED <<up, lastBlock, chain, saving, message, fStatus, fLastBlock>>,
           currentLeague \in leagues =>
               /\ currentLeague' = currentLeague /\ currentLeague \in leagues'
               /\ Status'[currentLeague] = Status[currentLeague],
           currentLeague' \in leagues' /\ Status'[currentLeague'] = "FINALIZE" =>
               currentLeague \in leagues,
           (mpc' = "decide") = (mpc = "decide"),
           \/ ppc' = ppc /\ pstatus' = pstatus
           \/ ppc = "tick" /\ ppc' \in {"tick", "sleep"} /\ pstatus' # "FINALIZE"
    PROVE  FinalInv'
<1> USE DEF FinalInv
<1>1. /\ up' = up /\ lastBlock' = lastBlock /\ blockChain' = blockChain /\ message' = message
      /\ blockChainRaw' = blockChainRaw /\ saving' = saving /\ fStatus' = fStatus
      /\ fLastBlock' = fLastBlock
  BY Zenon DEF chain
<1>2. RawKept' /\ CurrentBlock' = CurrentBlock
  BY <1>1, SameStore
<1>3. \A o : Ended(o) => Ended(o)'
  BY <1>1, Zenon DEF Ended
<1>4. EndsToTell'
  BY <1>1, <1>3, Zenon DEF EndsToTell
<1>5. EndSeen'
  BY <1>1, <1>2 DEF EndSeen
<1>6. Ending' => Ending
  BY Zenon DEF Ending
<1>7. Ending => currentLeague' = currentLeague
  BY Zenon DEF EndRead, Ended
<1>8. EndRead'
  BY <1>1, <1>2, <1>3, <1>6, <1>7, Zenon DEF EndRead
<1>9. Ending' /\ Unheard => Unheard'
  BY <1>1, <1>6 DEF Ending, Unheard, EndRead, Ended
<1> QED BY <1>1, <1>2, <1>4, <1>5, <1>6, <1>8, <1>9, Zenon DEF EndHeard

\* A step while a round is under way.
LEMMA BusyFinal ==
    ASSUME RawKept', ~Ending', UNCHANGED <<message, fStatus>>,
           \A o \in DOMAIN message : message[o] # "FINALIZE",
           ~(/\ currentLeague' \in leagues' /\ Status'[currentLeague'] = "FINALIZE"
             /\ fStatus[currentLeague'] = "FINALIZE")
    PROVE  FinalInv'
BY Zenon DEF FinalInv, EndsToTell, EndSeen, EndRead, EndHeard

\* A round is under way: none has just ended.
LEMMA UnderWay ==
    ASSUME FinalInv, currentLeague \notin leagues \/ Status[currentLeague] \notin Over \/ saving # {}
    PROVE  ~Ending /\ \A o \in DOMAIN message : message[o] # "FINALIZE"
BY Zenon DEF FinalInv, EndRead, EndsToTell, Ended

\* The two inserts keep RawKept.
LEMMA SaveRawKept ==
    ASSUME TypeOK, RawKept, NEW s \in saving, SaveIndexed(s) \/ SaveRaw(s)
    PROVE  RawKept'
<1> SUFFICES ASSUME NEW f \in blockChain'
             PROVE  \/ \E g \in blockChainRaw' : g.block = f.block
                    \/ \E t \in saving' : t.next = "blockChainRaw" /\ t.block = f.block
  BY Zenon DEF RawKept, GetBlock
<1>1. CASE SaveIndexed(s)
  <2>1. blockChainRaw' = blockChainRaw /\ s.next = "blockChain"
        /\ saving' = (saving \ {s}) \cup {[s EXCEPT !.next = "blockChainRaw"]}
    BY <1>1, Zenon DEF SaveIndexed
  <2>2. f \in blockChain \/ f.block = s.block
    BY <1>1, InsertAdds DEF SaveIndexed
  <2>3. CASE f \in blockChain
    BY <2>1, <2>3 DEF RawKept, GetBlock
  <2>4. CASE f.block = s.block
    <3>0. s \in [block : Block, voters : SUBSET Ballot, next : {"blockChain", "blockChainRaw"}]
      BY Zenon DEF TypeOK
    <3>1. [s EXCEPT !.next = "blockChainRaw"].next = "blockChainRaw"
          /\ [s EXCEPT !.next = "blockChainRaw"].block = s.block
      BY <3>0
    <3> QED BY <2>1, <2>4, <3>1, Zenon
  <2> QED BY <2>2, <2>3, <2>4
<1>2. CASE SaveRaw(s)
  <2>1. blockChain' = blockChain /\ saving' = saving \ {s}
        /\ blockChainRaw' = Insert(blockChainRaw, [block |-> s.block, voters |-> s.voters])
    BY <1>2, Zenon DEF SaveRaw
  <2>2. /\ blockChainRaw \subseteq blockChainRaw'
        /\ \E g \in blockChainRaw' : g.block = s.block
    BY <2>1, InsertAdds
  <2> QED BY <2>1, <2>2 DEF RawKept, GetBlock
<1> QED BY <1>1, <1>2


\* makeOtprn answers a FINALIZE of which the follower has heard.
LEMMA MakeOtprnFinal ==
    ASSUME Calm, TypeInv, OrderInv, FinalInv, UNCHANGED <<message, fStatus, fLastBlock>>, MakeOtprn
    PROVE  FinalInv'
<1>1. CASE MakeOtprnTick \/ NewOtprn \/ AddLeague \/ SaveOtprn
  <2>1. /\ up' = up /\ lastBlock' = lastBlock /\ chain' = chain /\ saving' = saving
        /\ ppc' = ppc /\ pstatus' = pstatus /\ mpc # "decide" /\ mpc' # "decide"
    BY <1>1 DEF MakeOtprnTick, NewOtprn, AddLeague, SaveOtprn, pointers, ploop, chain
  <2>2. currentLeague = Nil => currentLeague \notin leagues
    BY NilAssumption, Zenon DEF TypeInv, TypeOK
  <2>3. \/ /\ Status' = Status /\ leagues' = leagues
           /\ \/ currentLeague' = currentLeague
              \/ currentLeague = Nil /\ Status[currentLeague'] = "NONE"
        \/ /\ mpc = "add" /\ leagues' = leagues \cup {otpHash}
           /\ Status' = [Status EXCEPT ![otpHash] = "PENDING"] /\ currentLeague' = currentLeague
    BY <1>1, Zenon DEF MakeOtprnTick, NewOtprn, AddLeague, SaveOtprn, Fresh, pointers, league
  <2>4. CASE Status' = Status /\ leagues' = leagues
    <3>1. currentLeague' = currentLeague \/ (currentLeague = Nil /\ Status[currentLeague'] = "NONE")
      BY <2>3, <2>4, Zenon DEF OrderInv, Named, Unnamed
    <3>2. currentLeague \in leagues => currentLeague' = currentLeague
      BY <2>2, <3>1
    <3>3. Status'[currentLeague'] = "FINALIZE" => currentLeague' = currentLeague
      BY <2>4, <3>1
    <3> QED BY <2>1, <2>4, <3>2, <3>3, QuietFinal, Zenon
  <2>5. CASE /\ mpc = "add" /\ leagues' = leagues \cup {otpHash} /\ currentLeague' = currentLeague
             /\ Status' = [Status EXCEPT ![otpHash] = "PENDING"]
    <3>1. otpHash \in Otprn /\ otpHash \notin leagues /\ leagues \subseteq Otprn
      BY <2>5, Zenon DEF TypeInv, TypeOK, Drawn, OrderInv, Named, Unnamed
    <3>2. /\ Status'[otpHash] = "PENDING"
          /\ \A o \in leagues : Status'[o] = Status[o]
      BY <2>5, <3>1 DEF TypeInv, TypeOK
    <3>3. currentLeague' \in leagues' /\ Status'[currentLeague'] = "FINALIZE" =>
              currentLeague \in leagues
      BY <2>5, <3>2
    <3> QED BY <2>1, <2>5, <3>2, <3>3, QuietFinal, Zenon
  <2> QED BY <2>3, <2>4, <2>5, Zenon
<1>2. CASE Decide
  <2>1. /\ Ended(currentLeague) /\ lastBlock \in CurrentBlock \ {Nil} /\ fLastBlock = lastBlock
        /\ RawKept /\ EndsToTell
    BY <1>2, Zenon DEF Decide, FinalInv, EndRead, EndHeard, Ending, Unheard
  <2>2. /\ currentLeague \in leagues /\ currentLeague \in Otprn /\ saving = {}
    BY <2>1 DEF Ended, TypeInv, TypeOK
  <2>3. /\ blockChain' = blockChain /\ blockChainRaw' = blockChainRaw /\ saving' = saving
        /\ lastBlock' = lastBlock /\ currentLeague' = currentLeague /\ leagues' = leagues
        /\ message' = message /\ fLastBlock' = fLastBlock
    BY <1>2, Zenon DEF Decide, chain, pointers
  <2>4. \/ Status' = Status
        \/ Status' = [Status EXCEPT ![currentLeague] = EpochStatus(Current[currentLeague])]
    BY <1>2, Zenon DEF Decide
  <2>5. Status'[currentLeague] \in Over
    BY <2>1, <2>2, <2>4, EpochAnswers DEF Ended, Over, TypeInv, TypeOK
  <2>6. RawKept' /\ CurrentBlock' = CurrentBlock
    BY <2>1, <2>3, SameStore
  <2>7. CurrentBlock \subseteq {lastBlock}
    BY <2>1, <2>2, OneAnswer DEF Calm, TypeInv
  <2>8. Ended(currentLeague)' /\ \A o : Ended(o) => Ended(o)'
    BY <2>2, <2>3, <2>5, Zenon DEF Ended
  <2>9. EndsToTell' /\ EndRead'
    BY <2>1, <2>3, <2>6, <2>8, Zenon DEF EndsToTell, EndRead
  <2> QED BY <2>1, <2>3, <2>6, <2>7, <2>9 DEF FinalInv, EndSeen, EndHeard
<1>3. CASE NoConfig
  BY <1>3 DEF NoConfig, Calm
<1> QED BY <1>1, <1>2, <1>3, Zenon DEF MakeOtprn

\* The ticks before and after the end of a round.
LEMMA TicksFinal ==
    ASSUME TypeInv, FinalInv, UNCHANGED <<message, fStatus, fLastBlock>>, NEW o \in Otprn,
           \/ PendingTick(o) \/ SleepTick(o) \/ MakeJoinTxTick(o) \/ VoteCountingTick(o)
           \/ SendBlockTick(o)
    PROVE  FinalInv'
<1>1. /\ chain' = chain /\ saving' = saving /\ lastBlock' = lastBlock /\ ppc = "tick"
      /\ currentLeague' = currentLeague /\ leagues' = leagues /\ mpc' = mpc
      /\ o = currentLeague /\ o \in leagues /\ pstatus' = Status[o]
  BY Zenon DEF PendingTick, SleepTick, MakeJoinTxTick, VoteCountingTick, SendBlockTick, Tick,
               pointers, league, mloop, chain
<1>2. ppc' \in {"tick", "sleep"}
  BY <1>1, Zenon DEF PendingTick, SleepTick, MakeJoinTxTick, VoteCountingTick, SendBlockTick
<1>3. CASE SleepTick(o) \/ MakeJoinTxTick(o)
  <2>1. Status' = Status /\ up' = up /\ Status[o] # "FINALIZE"
    BY <1>3 DEF SleepTick, MakeJoinTxTick, Tick, league
  <2> QED BY <1>1, <1>2, <2>1, QuietFinal, Zenon
<1>4. CASE PendingTick(o) \/ VoteCountingTick(o) \/ SendBlockTick(o)
  <2>1. Status[o] \notin Over
    BY <1>4, Zenon DEF PendingTick, VoteCountingTick, SendBlockTick, Tick, Over
  <2>2. ~Ending /\ \A p \in DOMAIN message : message[p] # "FINALIZE"
    BY <1>1, <2>1, UnderWay, Zenon
  <2>3. \/ Status' = Status
        \/ \E st \in {"MAKE_LEAGUE", "REJECT", "REQ_FAIRNODE_SIGN"} :
               Status' = [Status EXCEPT ![o] = st]
    BY <1>4, Zenon DEF PendingTick, VoteCountingTick, SendBlockTick, SetStatus
  <2>4. Status'[o] # "FINALIZE" /\ Status[o] # "FINALIZE"
    BY <2>1, <2>3, Zenon DEF TypeInv, TypeOK, Over
  <2>5. ~Ending'
    BY <1>1, <1>2, <2>2, <2>4, Zenon DEF Ending
  <2>6. RawKept'
    BY <1>1, Zenon DEF FinalInv, RawKept, GetBlock, chain
  <2> QED BY <1>1, <2>2, <2>4, <2>5, <2>6, BusyFinal, Zenon
<1> QED BY <1>3, <1>4

\* The tick that reads the block, and gives the league up if there is none.
LEMMA FinalizeFinal ==
    ASSUME Calm, TypeInv, OrderInv, FinalInv, UNCHANGED <<message, fStatus, fLastBlock>>,
           NEW o \in Otprn, FinalizeTick(o)
    PROVE  FinalInv'
<1>1. /\ saving' = saving /\ currentLeague' = currentLeague /\ leagues' = leagues /\ mpc' = mpc
      /\ o = currentLeague /\ o \in leagues /\ pstatus' = "FINALIZE" /\ up /\ ppc = "tick"
      /\ Status[o] = "FINALIZE"
  BY Zenon DEF FinalizeTick, Tick, mloop
<1>2. saving = {} /\ RawKept /\ EndsToTell /\ EndSeen /\ EndRead /\ EndHeard
  BY <1>1, Zenon DEF OrderInv, Saved, FinalInv
<1>3. PICK n \in CurrentBlock :
        IF n # Nil
        THEN /\ lastBlock' = n /\ ppc' = "sleep" /\ UNCHANGED <<up, Status, chain>>
        ELSE /\ up' = (BlockHash[o] # Nil)
             /\ blockChain' \in Answer({RemoveBlock(blockChain, BlockHash[o])}, blockChain)
             /\ blockChainRaw' \in Answer({RemoveBlock(blockChainRaw, BlockHash[o])}, blockChainRaw)
             /\ IF BlockHash[o] # Nil THEN SetStatus(o, "REJECT") ELSE UNCHANGED Status
             /\ ppc' = ppc
  BY Zenon DEF FinalizeTick
<1>4. \A m \in CurrentBlock : m = n
  BY <1>2, <1>3, OneAnswer DEF Calm, TypeInv
<1>5. CASE n # Nil
  <2>1. /\ lastBlock' = n /\ ppc' = "sleep" /\ up' = up /\ Status' = Status
        /\ blockChain' = blockChain /\ blockChainRaw' = blockChainRaw
    BY <1>3, <1>5, Zenon DEF chain
  <2>2. RawKept' /\ CurrentBlock' = CurrentBlock
    BY <1>1, <1>2, <2>1, SameStore, Zenon
  <2>3. Ended(o)' /\ \A p : Ended(p) => Ended(p)'
    BY <1>1, <1>2, <2>1 DEF Ended, Over
  <2>4. EndsToTell' /\ EndSeen'
    BY <1>1, <1>2, <2>1, <2>2, <2>3, Zenon DEF EndsToTell, EndSeen
  <2>5. EndRead'
    BY <1>1, <1>5, <2>1, <2>2, <2>3, Zenon DEF EndRead
  <2>6. EndHeard'
    <3>1. CASE mpc = "decide"
      <4>1. lastBlock \in CurrentBlock /\ fLastBlock = lastBlock
        BY <1>2, <3>1, Zenon DEF EndRead, EndHeard, Ending, Unheard
      <4> QED BY <1>4, <2>1, <4>1 DEF EndHeard
    <3>2. CASE mpc # "decide"
      BY <1>1, <2>1, <3>2 DEF EndHeard, Unheard
    <3> QED BY <3>1, <3>2
  <2> QED BY <2>2, <2>4, <2>5, <2>6, Zenon DEF FinalInv
<1>6. CASE n = Nil
  <2>1. mpc # "decide"
    BY <1>2, <1>4, <1>6 DEF EndRead, Ending
  <2>2. ppc' = "tick"
    BY <1>1, <1>3, <1>6, Zenon
  <2>3. ~Ending'
    BY <1>1, <2>1, <2>2 DEF Ending
  <2>4. /\ blockChain' = RemoveBlock(blockChain, BlockHash[o])
        /\ blockChainRaw' = RemoveBlock(blockChainRaw, BlockHash[o])
    BY <1>3, <1>6 DEF Answer, Calm
  <2>5. RawKept'
    BY <1>2, <2>4 DEF RawKept, GetBlock, RemoveBlock
  <2>6. Status'[o] \in Over /\ (up' => Status'[o] # "FINALIZE")
    BY <1>1, <1>3, <1>6, Zenon DEF SetStatus, TypeInv, TypeOK, Over
  <2>7. \A p : Ended(p) => Ended(p)'
    BY <1>1, <2>6, Zenon DEF Ended
  <2>8. EndsToTell' /\ EndSeen'
    BY <1>1, <1>2, <2>6, <2>7, Zenon DEF EndsToTell, EndSeen
  <2> QED BY <2>3, <2>5, <2>8, Zenon DEF FinalInv, EndRead, EndHeard
<1> QED BY <1>5, <1>6


\* The loop goes on from a status when the follower has seen it.
Heard == /\ message = <<>>
         /\ \A o \in leagues : Status[o] \in Slept => fStatus[o] = Status[o]

LEMMA WakesFinal ==
    ASSUME Calm, TypeInv, PointerInv, OrderInv, FinalInv, Heard,
           UNCHANGED <<message, fStatus, fLastBlock>>, NEW o \in Otprn,
           Wake(o) \/ RejectWake(o) \/ FinalizeWake
    PROVE  FinalInv'
<1>1. /\ chain' = chain /\ saving' = saving /\ mpc' = mpc /\ mpc = "select" /\ ppc = "sleep"
  BY Zenon DEF Wake, RejectWake, FinalizeWake, Settled, Calm, mloop, chain
<1>2. RawKept' /\ CurrentBlock' = CurrentBlock
  BY <1>1, SameStore DEF FinalInv, chain
<1>3. DOMAIN message = {}
  BY DEF Heard
<1>4. currentLeague \in leagues /\ (pstatus # "FINALIZE" => Status[currentLeague] = pstatus)
  BY <1>1, Zenon DEF OrderInv, Asleep
<1>5. CASE Wake(o) \/ RejectWake(o)
  <2>1. ppc' = "tick" /\ o = currentLeague
    BY <1>5, Zenon DEF Wake, RejectWake
  <2>2. ~Ending'
    BY <1>1, <2>1 DEF Ending
  <2>3. ~(/\ currentLeague' \in leagues' /\ Status'[currentLeague'] = "FINALIZE"
          /\ fStatus[currentLeague'] = "FINALIZE")
    <3>1. CASE Wake(o)
      <4>1. /\ currentLeague' = o /\ Status' = [Status EXCEPT ![o] = AfterSleep[pstatus]]
            /\ pstatus \in DOMAIN AfterSleep
        BY <2>1, <3>1, Zenon DEF Wake, SetStatus, pointers
      <4>2. AfterSleep[pstatus] = "FINALIZE" => pstatus = "REQ_FAIRNODE_SIGN"
        BY <4>1, SleepTable, Zenon
      <4>3. Status'[o] = AfterSleep[pstatus]
        BY <4>1, Zenon DEF TypeInv, TypeOK
      <4>4. pstatus = "REQ_FAIRNODE_SIGN" => fStatus[o] = "REQ_FAIRNODE_SIGN"
        BY <1>4, <2>1 DEF Heard, Slept
      <4> QED BY <4>1, <4>2, <4>3, <4>4
    <3>2. CASE RejectWake(o)
      <4>1. /\ leagues' = leagues \ {o} /\ Status' = Status
            /\ currentLeague' = currentLeague \/ currentLeague' = Nil
               \/ currentLeague' \in leagues \ {o}
        BY <3>2, Zenon DEF RejectWake
      <4>2. currentLeague' \in leagues' => Status'[currentLeague'] = "PENDING"
        BY <2>1, <4>1, NilAssumption, Zenon DEF OrderInv, Waiting, TypeInv, TypeOK
      <4> QED BY <4>2
    <3> QED BY <1>5, <3>1, <3>2
  <2> QED BY <1>2, <1>3, <2>2, <2>3, BusyFinal, Zenon
<1>6. CASE FinalizeWake
  <2>1. /\ pstatus = "FINALIZE" /\ lastBlock' = lastBlock /\ up' = up /\ Status' = Status
        /\ leagues' = leagues /\ currentLeague' = currentLeague /\ up
    BY <1>6, Zenon DEF FinalizeWake, pointers, league
  <2>2. Ended(currentLeague) /\ lastBlock \in CurrentBlock \ {Nil}
    BY <1>1, <2>1, Zenon DEF FinalInv, EndRead, Ending
  <2>3. fLastBlock = lastBlock
    <3>1. CASE Status[currentLeague] = "FINALIZE"
      <4>1. fStatus[currentLeague] = "FINALIZE"
        BY <1>4, <3>1 DEF Heard, Slept
      <4> QED BY <1>4, <2>1, <2>2, <3>1, <4>1 DEF FinalInv, EndSeen
    <3>2. CASE Status[currentLeague] # "FINALIZE"
      BY <1>1, <2>1, <3>2, Zenon DEF FinalInv, EndHeard, Ending, Unheard
    <3> QED BY <3>1, <3>2
  <2>4. Ended(currentLeague)'
    BY <1>1, <2>1, <2>2, Zenon DEF Ended
  <2>5. EndsToTell' /\ EndSeen'
    BY <1>2, <1>3, <2>1, Zenon DEF FinalInv, EndsToTell, EndSeen
  <2> QED BY <1>2, <2>1, <2>2, <2>3, <2>4, <2>5, Zenon DEF FinalInv, EndRead, EndHeard
<1> QED BY <1>5, <1>6

LEMMA SignalFinal ==
    ASSUME FinalInv, UNCHANGED <<message, fStatus, fLastBlock>>, Signal
    PROVE  FinalInv'
<1>1. /\ ppc = "signal" /\ mpc' = "decide" /\ lastBlock' = lastBlock /\ up' = up
      /\ Status' = Status /\ leagues' = leagues /\ currentLeague' = currentLeague
      /\ blockChain' = blockChain /\ blockChainRaw' = blockChainRaw /\ saving' = saving
  BY Zenon DEF Signal, pointers, league, chain
<1>2. Ended(currentLeague) /\ lastBlock \in CurrentBlock \ {Nil} /\ fLastBlock = lastBlock
  BY <1>1 DEF FinalInv, EndRead, EndHeard, Ending, Unheard
<1>3. RawKept' /\ CurrentBlock' = CurrentBlock /\ \A o : Ended(o) => Ended(o)'
  BY <1>1, SameStore DEF FinalInv, Ended
<1>4. EndsToTell' /\ EndSeen'
  BY <1>1, <1>3, Zenon DEF FinalInv, EndsToTell, EndSeen
<1> QED BY <1>1, <1>2, <1>3, <1>4, Zenon DEF FinalInv, EndRead, EndHeard

\* The handlers store in SEND_BLOCK and after it only.
LEMMA RequestsFinal ==
    ASSUME Calm, TypeInv, OrderInv, FinalInv, UNCHANGED <<message, fStatus, fLastBlock>>,
           Requests \/ UNCHANGED vars
    PROVE  FinalInv'
<1>1. /\ up' = up /\ lastBlock' = lastBlock /\ currentLeague' = currentLeague
      /\ leagues' = leagues /\ Status' = Status /\ ppc' = ppc /\ pstatus' = pstatus /\ mpc' = mpc
  BY Zenon DEF Requests, CleanOldNode, RequestOtprn, HeartBeat, Vote, SendBlock,
         RequestFairnodeSign, SaveIndexed, SaveRaw, SaveFails, vars, pointers, league, ploop, mloop
<1>2. \/ chain' = chain /\ saving' = saving
      \/ chain' = chain /\ saving \subseteq saving' /\ \E o \in leagues : Status[o] = "SEND_BLOCK"
      \/ \E s \in saving : up /\ (SaveIndexed(s) \/ SaveRaw(s))
  BY Zenon DEF Requests, CleanOldNode, RequestOtprn, HeartBeat, Vote, SendBlock, SaveIndexed,
         SaveRaw, RequestFairnodeSign, SaveFails, vars, chain, Calm
<1>3. CASE chain' = chain /\ saving' = saving
  BY <1>1, <1>3, QuietFinal, Zenon
<1>4. CASE /\ chain' = chain /\ saving \subseteq saving'
           /\ \E o \in leagues : Status[o] = "SEND_BLOCK"
  <2>1. Status[currentLeague] = "SEND_BLOCK"
    BY <1>4 DEF OrderInv, Waiting
  <2>2. ~Ending /\ \A o \in DOMAIN message : message[o] # "FINALIZE"
    BY <2>1, UnderWay DEF Over
  <2>3. RawKept'
    BY <1>4, Zenon DEF FinalInv, RawKept, GetBlock, chain
  <2> QED BY <1>1, <2>1, <2>2, <2>3, BusyFinal, Zenon DEF Ending
<1>5. CASE \E s \in saving : up /\ (SaveIndexed(s) \/ SaveRaw(s))
  <2>1. ~Ending /\ \A o \in DOMAIN message : message[o] # "FINALIZE"
    BY <1>5, UnderWay, Zenon
  <2>2. RawKept'
    BY <1>5, SaveRawKept, Zenon DEF FinalInv, TypeInv
  <2>3. ~(currentLeague \in leagues /\ Status[currentLeague] = "FINALIZE")
    BY <1>5, Zenon DEF OrderInv, Saved
  <2> QED BY <1>1, <2>1, <2>2, <2>3, BusyFinal, Zenon DEF Ending
<1> QED BY <1>2, <1>3, <1>4, <1>5, Zenon

\* The follower's turn on one league: it reads what the leader has read.
LEMMA HandleFinal ==
    ASSUME Calm, TypeInv, FollowerType, FinalInv, NEW o \in Otprn, HandleLeague(o)
    PROVE  FinalInv'
<1>1. /\ UNCHANGED vars /\ o \in DOMAIN message
      /\ DOMAIN message' = DOMAIN message \ {o}
      /\ \A p \in DOMAIN message' : message'[p] = message[p]
  BY DEF HandleLeague
<1>2. /\ RawKept' = RawKept /\ CurrentBlock' = CurrentBlock /\ Ending' = Ending
      /\ Unheard' = Unheard /\ \A p : Ended(p)' = Ended(p)
      /\ up' = up /\ currentLeague' = currentLeague /\ leagues' = leagues /\ Status' = Status
      /\ lastBlock' = lastBlock
  BY <1>1, Zenon DEF vars, pointers, league, ploop, mloop, chain, RawKept, CurrentBlock, Newest,
                     GetBlock, Answer, Ending, Unheard, Ended
<1>3. EndsToTell' /\ EndRead' /\ RawKept'
  BY <1>1, <1>2 DEF FinalInv, EndsToTell, EndRead
<1>4. CASE FollowerFinalize(o) /\ message[o] = "FINALIZE"
  <2>1. PICK n \in CurrentBlock : n # Nil => fLastBlock' = n
    BY <1>4, Zenon DEF FollowerFinalize
  <2>2. saving = {} /\ RawKept
    BY <1>1, <1>4, Zenon DEF FinalInv, EndsToTell, Ended
  <2>3. \A m \in CurrentBlock : m = n
    BY <2>1, <2>2, OneAnswer DEF Calm, TypeInv
  <2>4. EndSeen'
    BY <1>2, <2>1, <2>3 DEF EndSeen
  <2>5. EndHeard'
    BY <1>2, <2>1, <2>3 DEF FinalInv, EndRead, EndHeard
  <2> QED BY <1>3, <2>4, <2>5, Zenon DEF FinalInv
<1>5. CASE FollowerAdd(o) \/ FollowerReject(o)
           \/ (FollowerRound(o, message[o]) /\ message[o] # "FINALIZE")
  <2>1. fLastBlock' = fLastBlock
    BY <1>5, Zenon DEF FollowerAdd, FollowerReject, FollowerRound
  <2>2. \/ fStatus' = fStatus
        \/ \E st \in {"PENDING", "REJECT", message[o]} \ {"FINALIZE"} :
               fStatus' = [fStatus EXCEPT ![o] = st]
    BY <1>5, Zenon DEF FollowerAdd, FollowerReject, FollowerRound, mirror
  <2>3. \A p \in Otprn : fStatus'[p] = "FINALIZE" => fStatus[p] = "FINALIZE"
    <3>1. fStatus \in [Otprn -> FnStatus]
      BY Zenon DEF FollowerType
    <3> QED BY <2>2, <3>1
  <2>4. EndSeen'
    BY <1>2, <2>1, <2>3 DEF FinalInv, EndSeen, TypeInv, TypeOK
  <2>5. EndHeard'
    BY <1>2, <2>1, Zenon DEF FinalInv, EndHeard
  <2> QED BY <1>3, <2>4, <2>5, Zenon DEF FinalInv
<1> QED BY <1>4, <1>5, Zenon DEF HandleLeague

LEMMA GroupFinal ==
    ASSUME Calm, "late" \notin GroupFaults, "skip" \notin GroupFaults, GroupOrder,
           follows => FinalInv, [GroupNext]_gvars
    PROVE  follows' => FinalInv'
<1> SUFFICES ASSUME follows' PROVE FinalInv'
  OBVIOUS
<1>1. /\ TypeInv /\ PointerInv /\ OrderInv /\ FollowerType
  BY DEF GroupOrder, GroupElected, IInv
<1>2. CASE LeaderStep
  <2>1. /\ FinalInv /\ Next /\ UNCHANGED <<message, fStatus, fLastBlock>> /\ follows
        /\ ppc = "sleep" /\ ppc' # "sleep" => Sampled
    BY <1>2, Zenon DEF LeaderStep, fvars, mirror
  <2>2. Sampled => Heard
    BY <2>1, Zenon DEF Sampled, Heard
  <2>3. CASE \E o \in Otprn : Wake(o) \/ RejectWake(o)
    BY <1>1, <2>1, <2>2, <2>3, WakesFinal, Zenon DEF Wake, RejectWake
  <2>4. CASE FinalizeWake
    <3>1. currentLeague \in Otprn
      BY <1>1, <2>4 DEF FinalizeWake, OrderInv, Asleep, TypeInv, TypeOK
    <3> QED BY <1>1, <2>1, <2>2, <2>4, <3>1, WakesFinal DEF FinalizeWake
  <2>5. CASE \E o \in Otprn : FinalizeTick(o)
    BY <1>1, <2>1, <2>5, FinalizeFinal, Zenon
  <2>6. CASE \E o \in Otprn : \/ PendingTick(o) \/ SleepTick(o) \/ MakeJoinTxTick(o)
                              \/ VoteCountingTick(o) \/ SendBlockTick(o)
    BY <1>1, <2>1, <2>6, TicksFinal, Zenon
  <2>7. CASE Restart
    BY <2>7 DEF Restart, Calm
  <2> QED BY <1>1, <2>1, <2>3, <2>4, <2>5, <2>6, <2>7, MakeOtprnFinal, SignalFinal, RequestsFinal,
             Zenon DEF Next, ProcessManageLoop
<1>3. CASE SyncController
  <2>1. /\ FinalInv /\ up /\ UNCHANGED vars /\ fStatus' = fStatus /\ fLastBlock' = fLastBlock
        /\ DOMAIN message' = leagues /\ \A o \in leagues : message'[o] = Status[o]
    BY <1>3 DEF SyncController, mirror
  <2>2. /\ RawKept' = RawKept /\ CurrentBlock' = CurrentBlock /\ Ending' = Ending
        /\ Unheard' = Unheard /\ \A p : Ended(p)' = Ended(p)
        /\ up' = up /\ currentLeague' = currentLeague /\ leagues' = leagues /\ Status' = Status
        /\ lastBlock' = lastBlock
    BY <2>1, Zenon DEF vars, pointers, league, ploop, mloop, chain, RawKept, CurrentBlock, Newest,
                       GetBlock, Answer, Ending, Unheard, Ended
  <2>3. \A o \in leagues : Status[o] = "FINALIZE" => Ended(o)
    BY <1>1, <2>1 DEF OrderInv, Waiting, Saved, Ended, Over
  <2>4. EndsToTell'
    BY <2>1, <2>2, <2>3 DEF EndsToTell
  <2> QED BY <2>1, <2>2, <2>4, Zenon DEF FinalInv, EndSeen, EndRead, EndHeard
<1>4. CASE \E o \in Otprn : HandleLeague(o)
  BY <1>1, <1>4, HandleFinal DEF HandleLeague
<1>5. CASE FollowerRequests
  <2>1. /\ FinalInv /\ UNCHANGED <<up, pointers, league, ploop, mloop, chain>>
        /\ UNCHANGED <<message, fStatus, fLastBlock>>
    BY <1>5, Zenon DEF FollowerRequests, fvars, mirror
  <2>2. /\ up' = up /\ lastBlock' = lastBlock /\ currentLeague' = currentLeague
        /\ leagues' = leagues /\ Status' = Status /\ ppc' = ppc /\ pstatus' = pstatus /\ mpc' = mpc
        /\ chain' = chain
    BY <2>1, Zenon DEF pointers, league, ploop, mloop
  <2>3. CASE saving' = saving
    BY <2>1, <2>2, <2>3, QuietFinal, Zenon
  <2>4. CASE saving' # saving
    <3>1. Status[currentLeague] = "SEND_BLOCK"
      BY <1>1, <1>5, <2>4, SendsInPhase, Zenon DEF GroupOrder
    <3>2. ~Ending /\ \A o \in DOMAIN message : message[o] # "FINALIZE"
      BY <2>1, <3>1, UnderWay DEF Over
    <3>3. saving \subseteq saving'
      BY <1>5, FollowerAdds, Zenon
    <3>4. RawKept'
      BY <2>1, <2>2, <3>3, Zenon DEF FinalInv, RawKept, GetBlock, chain
    <3> QED BY <2>1, <2>2, <3>1, <3>2, <3>4, BusyFinal, Zenon DEF Ending
  <2> QED BY <2>3, <2>4
<1>6. CASE Takeover
  BY <1>6, Zenon DEF Takeover
<1>7. CASE UNCHANGED gvars
  <2>1. /\ UNCHANGED vars /\ UNCHANGED <<message, fStatus, fLastBlock>> /\ FinalInv
    BY <1>7, Zenon DEF gvars, fvars, mirror
  <2> QED BY <1>1, <2>1, RequestsFinal
<1> QED BY <1>2, <1>3, <1>4, <1>5, <1>6, <1>7, Zenon DEF GroupNext

\* When the leader signals the end of a round, and so before it decides what
\* comes next, the follower has the round's block as its last one: a takeover at
\* any moment does not start below it.  For any number of leagues, miners and
\* blocks, whoever votes when, where the database answers, the leader stays up or
\* is replaced, and the follower sees every phase in which the loop sleeps.
THEOREM FollowerKnowsLast ==
    ASSUME Faults \subseteq {"silent"}, GroupFaults \subseteq {"takeover"}
    PROVE  GroupSpec => []FinalizedIsKnown
<1>1. /\ Calm /\ "delay" \notin Faults /\ "late" \notin GroupFaults /\ "skip" \notin GroupFaults
  BY DEF Calm
<1>2. GroupInit => GroupOrder /\ FinalInv
  <2> SUFFICES ASSUME GroupInit PROVE GroupOrder /\ FinalInv
    OBVIOUS
  <2>1. GroupOrder
    BY InitElected, InitLeague DEF GroupOrder, GroupInit
  <2>2. /\ message = <<>> /\ ppc = "tick" /\ mpc = "select" /\ leagues = {}
        /\ blockChain = blockChainRaw
    BY Zenon DEF GroupInit, Init
  <2>3. DOMAIN message = {} /\ ~Ending
    BY <2>2 DEF Ending
  <2> QED BY <2>1, <2>2, <2>3 DEF FinalInv, RawKept, GetBlock, EndsToTell, EndSeen, EndRead, EndHeard
<1>3. GroupOrder /\ (follows => FinalInv) /\ [GroupNext]_gvars =>
          GroupOrder' /\ (follows' => FinalInv')
  BY <1>1, GroupInOrder, GroupFinal
<1>4. (follows => FinalInv) => FinalizedIsKnown
  BY DEF FinalInv, EndHeard, Ending, Unheard, FinalizedIsKnown
<1> QED BY <1>2, <1>3, <1>4, PTL DEF GroupSpec
=============================================================================
