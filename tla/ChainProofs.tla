----------------------------- MODULE ChainProofs -----------------------------
(***************************************************************************)
(* Theorems about the final chain of Fairnode where the database answers   *)
(* and the process stays up: the leader does not panic, and what it stores *)
(* and signals is the chain FinalChain promises.                           *)
(***************************************************************************)
EXTENDS FairnodeProofs, FiniteSetTheorems

-----------------------------------------------------------------------------
\* The chain above the block the process started from, and its height.
Finals == blockChain \ BaseFinal
Height == Base + Cardinality(Finals)
InChain(b) == \E f \in blockChain : f.block = b

\* The indexed chain ends at its height.
ChainShape ==
    /\ IsFiniteSet(Finals)
    /\ BaseFinal \subseteq blockChain
    /\ \A f \in Finals : f.block.num \in (Base + 1) .. Height
    /\ Finals # {} => \E f \in Finals : f.block.num = Height

\* The raw blocks are those of the index, but for the inserts under way.
RawFollows ==
    /\ \A f \in blockChain :
          GetBlock(f.block) \/ \E s \in saving : s.next = "blockChainRaw" /\ s.block = f.block
    /\ \A f \in blockChainRaw : InChain(f.block)
StoreInv == ChainShape /\ RawFollows

\* A winner is a block on top of the height the league started its round from,
\* and is known from the count until the league has seen it stored.
Counting == {"VOTE_COUNTING", "VOTE_COMPLETE", "SEND_BLOCK", "REQ_FAIRNODE_SIGN",
             "FINALIZE", "REJECT"}
HashIsNext ==
    \A o \in Otprn : BlockHash[o] \notin {Nil, ZeroHash} =>
        BlockHash[o].num = Current[o] + 1 /\ Status[o] \in Counting

\* Only the winner of the current league is being stored.
SavesCurrent ==
    \A s \in saving :
        /\ currentLeague \in leagues
        /\ s.block = BlockHash[currentLeague]
        /\ Status[currentLeague] \in {"SEND_BLOCK", "REQ_FAIRNODE_SIGN", "REJECT"}
        /\ s.next = "blockChainRaw" => InChain(s.block)

\* The leader's idea of the height: behind only while the current league waits
\* for, or has not yet looked at, the block that ends its round.
Early == {"PENDING", "MAKE_LEAGUE", "MAKE_JOIN_TX", "MAKE_BLOCK", "LEAGUE_BROADCASTING",
          "VOTE_START", "VOTE_COUNTING", "VOTE_COMPLETE"}
LastBelow == LastNumber <= Height
IdleLevel == currentLeague \notin leagues => LastNumber = Height
LeagueLevel == currentLeague \in leagues =>
    LET c == currentLeague IN
    /\ Status[c] \in Early => Current[c] = Height /\ LastNumber = Height
    /\ \/ Current[c] = Height /\ (BlockHash[c] = Nil \/ Status[c] \notin {"REQ_FAIRNODE_SIGN", "FINALIZE"})
       \/ Current[c] + 1 = Height /\ InChain(BlockHash[c])
    /\ Status[c] = "REQ_FAIRNODE_SIGN" => GetBlock(BlockHash[c])
    /\ Status[c] = "FINALIZE" => blockChain # {}

\* A pending league is made after a block.
PendingHasChain ==
    pendingLeague # Nil \/ (mpc \in {"fresh", "add", "save"} /\ ~isCur) => blockChain # {}
LevelInv == HashIsNext /\ SavesCurrent /\ LastBelow /\ IdleLevel /\ LeagueLevel /\ PendingHasChain

LEMMA HeightIsNat ==
    ASSUME ChainShape
    PROVE  Height \in Nat /\ Height >= Base /\ (Finals = {} => Height = Base)
<1>1. Cardinality(Finals) \in Nat
  BY FS_CardinalityType DEF ChainShape
<1>2. Finals = {} => Cardinality(Finals) = 0
  BY FS_EmptySet
<1> QED BY <1>1, <1>2, ConfigAssumption DEF Height

\* No stored block is above the height, and none is the zero hash.
LEMMA ChainBelow ==
    ASSUME TypeOK, ChainShape, NEW f \in blockChain
    PROVE  f.block.num <= Height /\ f.block # ZeroHash
<1>1. CASE f \in BaseFinal
  <2>1. Base # 0 /\ f.block = BaseBlock
    BY <1>1 DEF BaseFinal
  <2>2. BaseBlock.num = Base /\ ZeroHash.num = 0
    BY DEF BaseBlock, ZeroHash
  <2> QED BY <2>1, <2>2, HeightIsNat
<1>2. CASE f \in Finals
  <2>1. f \in Final
    BY <1>2 DEF TypeOK, Finals
  <2>2. f.block.otprn \in Otprn /\ ZeroHash.otprn = Nil
    BY <2>1 DEF Final, Block, ZeroHash
  <2>3. f.block.num \in (Base + 1) .. Height
    BY <1>2 DEF ChainShape
  <2> QED BY <2>2, <2>3, NilAssumption, HeightIsNat, ConfigAssumption
<1> QED BY <1>1, <1>2 DEF Finals

\* The newest stored block is at the height.
LEMMA NewestAtHeight ==
    ASSUME TypeOK, ChainShape, blockChain # {}
    PROVE  Newest # {} /\ \A f \in Newest : f.block.num = Height
<1>1. \E g \in blockChain : g.block.num = Height
  <2>1. CASE Finals # {}
    BY <2>1 DEF ChainShape, Finals
  <2>2. CASE Finals = {}
    <3>1. PICK g \in BaseFinal : g \in blockChain
      BY <2>2 DEF Finals
    <3>2. g.block.num = Base
      BY <3>1 DEF BaseFinal, BaseBlock
    <3> QED BY <2>2, <3>1, <3>2, HeightIsNat
  <2> QED BY <2>1, <2>2
<1>2. PICK g \in blockChain : g.block.num = Height
  BY <1>1
<1>3. g \in Newest
  BY <1>2, ChainBelow DEF Newest
<1>4. ASSUME NEW f \in Newest PROVE f.block.num = Height
  <2>1. f.block.num <= Height /\ Height <= f.block.num /\ f.block.num \in Nat
    BY <1>2, ChainBelow, StoredNumber DEF Newest
  <2> QED BY <2>1, HeightIsNat
<1> QED BY <1>3, <1>4

\* Without database errors and inserts under way the leader reads the height.
LEMMA ReadsHeight ==
    ASSUME TypeOK, StoreInv, saving = {}, "dbError" \notin Faults
    PROVE  /\ blockChain = {} => CurrentBlock = {Nil} /\ Height = 0
           /\ blockChain # {} => CurrentBlock = {Height} /\ CurrentInfo = {Height}
<1>1. CASE blockChain = {}
  <2>1. Base = 0 /\ Finals = {}
    BY <1>1, Zenon DEF StoreInv, ChainShape, Finals, BaseFinal
  <2> QED BY <1>1, <2>1, HeightIsNat DEF StoreInv, CurrentBlock
<1>2. CASE blockChain # {}
  <2>1. Newest # {} /\ \A f \in Newest : f.block.num = Height
    BY <1>2, NewestAtHeight DEF StoreInv
  <2>2. \A f \in Newest : GetBlock(f.block)
    BY DEF StoreInv, RawFollows, Newest
  <2> QED BY <1>2, <2>1, <2>2 DEF CurrentBlock, CurrentInfo, Answer
<1> QED BY <1>1, <1>2

\* A step that stores nothing keeps the store and the height.
LEMMA StoreFrame ==
    ASSUME blockChain' = blockChain
    PROVE  /\ Height' = Height
           /\ \A b : InChain(b)' = InChain(b)
           /\ ChainShape => ChainShape'
           /\ RawFollows /\ blockChainRaw' = blockChainRaw /\ saving \subseteq saving' => RawFollows'
<1>1. Finals' = Finals /\ BaseFinal' = BaseFinal
  BY DEF Finals, BaseFinal, BaseBlock
<1>2. Height' = Height
  BY <1>1 DEF Height
<1>3. ChainShape => ChainShape'
  BY <1>1, <1>2 DEF ChainShape
<1>4. RawFollows /\ blockChainRaw' = blockChainRaw /\ saving \subseteq saving' => RawFollows'
  BY DEF RawFollows, GetBlock, InChain
<1> QED BY <1>2, <1>3, <1>4 DEF InChain

\* makeOtprn keeps the levels: a league starts at the leader's last block, and an
\* answered round leaves the height as it is.
LEMMA MakeOtprnLevel ==
    ASSUME TypeInv, PointerInv, OrderInv, StoreInv, LevelInv, Calm, MakeOtprn
    PROVE  StoreInv' /\ LevelInv' /\ (Epoch # 1 => up')
<1> USE NilAssumption
<1>1. /\ blockChain' = blockChain /\ blockChainRaw' = blockChainRaw /\ saving' = saving
      /\ lastBlock' = lastBlock /\ BlockHash' = BlockHash /\ up
  BY Zenon DEF MakeOtprn, MakeOtprnTick, NewOtprn, NoConfig, AddLeague, SaveOtprn, Decide,
         pointers, league, chain
<1>2. StoreInv' /\ Height' = Height /\ \A b : InChain(b)' = InChain(b) /\ GetBlock(b)' = GetBlock(b)
  BY <1>1, StoreFrame DEF StoreInv, GetBlock
<1>3. Height \in Nat /\ LastNumber \in Nat /\ LastNumber' = LastNumber
  BY <1>1, HeightIsNat DEF StoreInv, LastNumber, TypeInv, TypeOK
<1> USE DEF LevelInv, HashIsNext, SavesCurrent, LastBelow, IdleLevel, LeagueLevel, PendingHasChain
<1> HIDE DEF Height, InChain, GetBlock, LastNumber
<1>4. CASE MakeOtprnTick
  BY <1>1, <1>2, <1>3, <1>4 DEF MakeOtprnTick, pointers, league
<1>5. CASE NewOtprn
  <2>1. /\ Status' = Status /\ Current' = Current /\ leagues' = leagues /\ up' = up /\ mpc = "fresh"
        /\ isCur' = isCur
    BY <1>5 DEF NewOtprn, league
  <2>2. \/ currentLeague' = currentLeague
        \/ currentLeague = Nil /\ currentLeague' \in Otprn /\ Status[currentLeague'] = "NONE"
    BY <1>5 DEF NewOtprn, Fresh
  <2>3. pendingLeague' = pendingLeague \/ ~isCur
    BY <1>5 DEF NewOtprn
  <2>4. currentLeague = Nil => currentLeague \notin leagues
    BY DEF TypeInv, TypeOK
  <2>5. \A o \in leagues : Status[o] # "NONE"
    BY Zenon DEF OrderInv, Named
  <2>6. mpc' \in {"select", "add"}
    BY <1>5 DEF NewOtprn
  <2> QED BY <1>1, <1>2, <1>3, <2>1, <2>2, <2>3, <2>4, <2>5, <2>6
<1>6. CASE NoConfig
  BY <1>6, Zenon DEF NoConfig, Calm
<1>7. CASE SaveOtprn
  BY <1>1, <1>2, <1>3, <1>7 DEF SaveOtprn, pointers, league
<1>8. CASE AddLeague
  <2>1. /\ leagues' = leagues \cup {otpHash} /\ otpHash \in Otprn
        /\ Status' = [Status EXCEPT ![otpHash] = "PENDING"]
        /\ Current' = [Current EXCEPT ![otpHash] = LastNumber]
        /\ Status[otpHash] = "NONE" /\ otpHash \notin leagues
        /\ mpc = "add" /\ mpc' = "save" /\ isCur' = isCur /\ up' = up
        /\ currentLeague' = currentLeague /\ pendingLeague' = pendingLeague
    BY <1>8, Zenon DEF AddLeague, TypeInv, Drawn, OrderInv, Named, Unnamed, pointers
  <2>2. /\ Status'[otpHash] = "PENDING" /\ Current'[otpHash] = LastNumber
        /\ \A o \in Otprn : o # otpHash => Status'[o] = Status[o] /\ Current'[o] = Current[o]
    BY <2>1, Zenon DEF TypeInv, TypeOK
  <2>3. HashIsNext' /\ SavesCurrent' /\ LastBelow' /\ PendingHasChain' /\ up'
    BY <1>1, <1>2, <1>3, <2>1, <2>2, Zenon DEF TypeInv, TypeOK, Counting
  <2>4. CASE otpHash = currentLeague
    BY <1>1, <1>2, <1>3, <2>1, <2>2, <2>3, <2>4, Zenon
  <2>5. CASE otpHash # currentLeague
    BY <1>1, <1>2, <1>3, <2>1, <2>2, <2>3, <2>5, Zenon DEF TypeInv, TypeOK
  <2> QED BY <2>4, <2>5, Zenon
<1>9. CASE Decide
  <2>1. /\ currentLeague \in leagues /\ lastBlock = Current[currentLeague] /\ saving = {}
        /\ BlockHash[currentLeague] = Nil /\ blockChain # {} /\ leagues \subseteq Otprn
        /\ \A f \in Newest : f.block.num = Current[currentLeague]
    BY <1>9, Zenon DEF Decide, OrderInv, Deciding, Answering, TypeInv, TypeOK
  <2>2. Current[currentLeague] = Height
    BY <2>1, NewestAtHeight, Zenon DEF StoreInv, TypeInv
  <2>3. LastNumber = Height
    BY <1>3, <2>1, <2>2, Zenon DEF LastNumber
  <2>4. /\ currentLeague' = currentLeague /\ pendingLeague' = pendingLeague /\ leagues' = leagues
        /\ Current' = Current /\ (Epoch # 1 => up')
    BY <1>9, <1>1, Zenon DEF Decide, pointers
  <2>5. \/ Status' = Status
        \/ Status' = [Status EXCEPT ![currentLeague] = EpochStatus(Current[currentLeague])]
    BY <1>9, Zenon DEF Decide
  <2>6. /\ \A o \in Otprn : o # currentLeague => Status'[o] = Status[o]
        /\ Status'[currentLeague] \in {Status[currentLeague], "REJECT", "MAKE_JOIN_TX"}
    BY <2>1, <2>5, EpochAnswers, Zenon DEF TypeInv, TypeOK
  <2>7. HashIsNext' /\ SavesCurrent' /\ LastBelow' /\ IdleLevel' /\ PendingHasChain'
    BY <1>1, <1>2, <1>3, <2>1, <2>3, <2>4, <2>6, Zenon
  <2>8. LeagueLevel'
    BY <1>1, <1>2, <1>3, <2>1, <2>2, <2>3, <2>4, <2>6, Zenon
  <2> QED BY <1>2, <2>4, <2>7, <2>8, Zenon
<1> QED BY <1>4, <1>5, <1>6, <1>7, <1>8, <1>9, Zenon DEF MakeOtprn

\* A step that stores nothing and writes at most the status of the current
\* league, to one that asks for no more than the old one did.
LEMMA StatusLevel ==
    ASSUME TypeInv, StoreInv, LevelInv, NEW o \in leagues, o = currentLeague, NEW st,
           Status' = Status \/ Status' = [Status EXCEPT ![o] = st],
           \/ Status[o] \in Early /\ st \in Early /\ (Status[o] \in Counting => st \in Counting)
           \/ st = "REJECT"
           \/ Status[o] = "VOTE_COMPLETE" /\ st = "SEND_BLOCK"
           \/ st = "REQ_FAIRNODE_SIGN" /\ Status[o] = "SEND_BLOCK"
              /\ BlockHash[o] # Nil /\ GetBlock(BlockHash[o])
           \/ Status[o] = "REQ_FAIRNODE_SIGN" /\ st = "FINALIZE" /\ saving = {},
           blockChain' = blockChain, blockChainRaw' = blockChainRaw, saving' = saving,
           currentLeague' = currentLeague, leagues' = leagues, pendingLeague' = pendingLeague,
           lastBlock' = lastBlock, BlockHash' = BlockHash, Current' = Current,
           mpc' \in {mpc, "decide"}, isCur' = isCur
    PROVE  StoreInv' /\ LevelInv'
<1>1. StoreInv' /\ Height' = Height /\ \A b : InChain(b)' = InChain(b) /\ GetBlock(b)' = GetBlock(b)
  BY StoreFrame DEF StoreInv, GetBlock
<1>2. Height \in Nat /\ LastNumber \in Nat /\ LastNumber' = LastNumber
  BY HeightIsNat DEF StoreInv, LastNumber, TypeInv, TypeOK
<1>3. /\ \A p \in Otprn : p # o => Status'[p] = Status[p]
      /\ Status'[o] \in {Status[o], st} /\ o \in Otprn
  BY DEF TypeInv, TypeOK
<1>4. GetBlock(BlockHash[o]) => InChain(BlockHash[o])
  BY Zenon DEF StoreInv, RawFollows, GetBlock
<1>5. InChain(BlockHash[o]) => BlockHash[o] # ZeroHash /\ blockChain # {}
  BY ChainBelow DEF InChain, StoreInv, TypeInv
<1>6. InChain(BlockHash[o]) /\ BlockHash[o] # Nil => Current[o] + 1 = Height
  <2>1. InChain(BlockHash[o]) => BlockHash[o].num <= Height
    BY ChainBelow, Zenon DEF InChain, StoreInv, TypeInv
  <2>2. Current[o] \in Nat
    BY <1>3 DEF TypeInv, TypeOK
  <2> QED BY <1>2, <1>3, <1>5, <2>1, <2>2 DEF LevelInv, LeagueLevel, HashIsNext
<1>7. HashIsNext'
  BY <1>3 DEF LevelInv, HashIsNext, Counting, Early
<1>8. SavesCurrent'
  BY <1>1, <1>3 DEF LevelInv, SavesCurrent, Early
<1>9. LastBelow' /\ IdleLevel' /\ PendingHasChain'
  BY <1>1, <1>2 DEF LevelInv, LastBelow, IdleLevel, PendingHasChain
<1>10. LeagueLevel'
  <2> DEFINE s == Status[o] t == Status'[o]
  <2>1. t \in Early => Current[o] = Height /\ LastNumber = Height
    BY <1>3 DEF LevelInv, LeagueLevel, Early
  <2>2. \/ Current[o] = Height /\ (BlockHash[o] = Nil \/ t \notin {"REQ_FAIRNODE_SIGN", "FINALIZE"})
        \/ Current[o] + 1 = Height /\ InChain(BlockHash[o])
    BY <1>3, <1>4, <1>6 DEF LevelInv, LeagueLevel, Early
  <2>3. t = "REQ_FAIRNODE_SIGN" => GetBlock(BlockHash[o])
    BY <1>3 DEF LevelInv, LeagueLevel, Early
  <2>4. t = "FINALIZE" => blockChain # {}
    BY <1>3, <1>4, <1>5 DEF LevelInv, LeagueLevel, Early
  <2> QED BY <1>1, <1>2, <2>1, <2>2, <2>3, <2>4 DEF LeagueLevel
<1> QED BY <1>1, <1>7, <1>8, <1>9, <1>10, Zenon DEF LevelInv

\* The steps of the loop that write only a status.
LEMMA LoopLevel ==
    ASSUME TypeInv, HashBeforeSend, PointerInv, OrderInv, StoreInv, LevelInv, Calm,
           NEW o \in Otprn,
           \/ PendingTick(o) \/ SleepTick(o) \/ MakeJoinTxTick(o) \/ SendBlockTick(o)
           \/ Wake(o) \/ FinalizeWake \/ Signal
    PROVE  StoreInv' /\ LevelInv' /\ up'
<1> USE DEF pointers, league, ploop, mloop, chain
<1>1. /\ blockChain' = blockChain /\ blockChainRaw' = blockChainRaw /\ saving' = saving
      /\ currentLeague' = currentLeague /\ leagues' = leagues /\ pendingLeague' = pendingLeague
      /\ lastBlock' = lastBlock /\ BlockHash' = BlockHash
      /\ mpc' \in {mpc, "decide"} /\ isCur' = isCur
  BY Zenon DEF PendingTick, SleepTick, MakeJoinTxTick, SendBlockTick, Wake, FinalizeWake, Signal
<1> HIDE DEF pointers, league, ploop, mloop, chain
<1>2. CASE PendingTick(o)
  <2>1. PICK st \in {"MAKE_LEAGUE", "REJECT"} :
            Status' = Status \/ Status' = [Status EXCEPT ![o] = st]
    BY <1>2 DEF PendingTick, SetStatus
  <2>2. o = currentLeague /\ o \in leagues /\ Status[o] = "PENDING" /\ up' /\ Current' = Current
    BY <1>2, Zenon DEF PendingTick, Tick
  <2>3. "PENDING" \in Early /\ "MAKE_LEAGUE" \in Early /\ "PENDING" \notin Counting
    BY DEF Early, Counting
  <2> QED BY <1>1, <2>1, <2>2, <2>3, StatusLevel, Zenon
<1>3. CASE SleepTick(o)
  <2>1. o = currentLeague /\ o \in leagues /\ up' /\ Status' = Status /\ Current' = Current
    BY <1>3 DEF SleepTick, Tick, league
  <2> QED BY <1>1, <2>1, StatusLevel, Zenon
<1>4. CASE MakeJoinTxTick(o)
  <2>1. o = currentLeague /\ o \in leagues /\ up' /\ Status' = Status /\ Status[o] = "MAKE_JOIN_TX"
    BY <1>4 DEF MakeJoinTxTick, Tick
  <2>2. lastBlock # Nil => lastBlock = Current[o]
    BY <2>1, Zenon DEF LevelInv, LeagueLevel, Early, LastNumber
  <2>3. Current' = Current
    BY <1>4, <2>2, Zenon DEF MakeJoinTxTick, TypeInv, TypeOK
  <2> QED BY <1>1, <2>1, <2>3, StatusLevel, Zenon
<1>5. CASE SendBlockTick(o)
  <2>1. o = currentLeague /\ o \in leagues /\ Status[o] = "SEND_BLOCK" /\ Current' = Current
    BY <1>5, Zenon DEF SendBlockTick, Tick
  <2>2. BlockHash[o] # Nil /\ up'
    BY <1>5, <2>1, Zenon DEF SendBlockTick, HashBeforeSend
  <2>3. \/ Status' = Status
        \/ Status' = [Status EXCEPT ![o] = "REJECT"]
        \/ Status' = [Status EXCEPT ![o] = "REQ_FAIRNODE_SIGN"] /\ GetBlock(BlockHash[o])
    BY <1>5, <2>2, Zenon DEF SendBlockTick, SetStatus, Answer, Calm
  <2> QED BY <1>1, <2>1, <2>2, <2>3, StatusLevel, Zenon
<1>6. CASE Wake(o)
  <2>1. /\ up' /\ ppc = "sleep" /\ o = currentLeague /\ saving = {} /\ Current' = Current
        /\ pstatus \in DOMAIN AfterSleep /\ Status' = [Status EXCEPT ![o] = AfterSleep[pstatus]]
    BY <1>6 DEF Wake, Settled, SetStatus, Calm
  <2>2. o \in leagues /\ Status[o] = pstatus
    BY <2>1, SleepFollows, Zenon DEF OrderInv, Asleep
  <2>3. \/ pstatus \in Early /\ AfterSleep[pstatus] \in Early
           /\ (pstatus \in Counting => AfterSleep[pstatus] \in Counting)
        \/ pstatus = "VOTE_COMPLETE" /\ AfterSleep[pstatus] = "SEND_BLOCK"
        \/ pstatus = "REQ_FAIRNODE_SIGN" /\ AfterSleep[pstatus] = "FINALIZE"
    BY <2>1 DEF AfterSleep, Early, Counting
  <2> QED BY <1>1, <2>1, <2>2, <2>3, StatusLevel, Zenon
<1>7. CASE FinalizeWake \/ Signal
  <2>1. Answering /\ up' /\ Status' = Status /\ Current' = Current
    BY <1>7 DEF FinalizeWake, Signal, league, Answering
  <2>2. currentLeague \in leagues
    BY <2>1, Zenon DEF OrderInv, Deciding
  <2> QED BY <1>1, <2>1, <2>2, StatusLevel, Zenon
<1> QED BY <1>2, <1>3, <1>4, <1>5, <1>6, <1>7

\* A count: the winner is one block above the height the round started from.
LEMMA CountLevel ==
    ASSUME TypeInv, StoreInv, LevelInv, NEW o \in Otprn, VoteCountingTick(o)
    PROVE  StoreInv' /\ LevelInv' /\ up'
<1>1. /\ blockChain' = blockChain /\ blockChainRaw' = blockChainRaw /\ saving' = saving
      /\ currentLeague' = currentLeague /\ leagues' = leagues /\ pendingLeague' = pendingLeague
      /\ lastBlock' = lastBlock /\ Current' = Current /\ mpc' = mpc /\ isCur' = isCur /\ up'
      /\ o = currentLeague /\ o \in leagues /\ Status[o] = "VOTE_COUNTING"
  BY Zenon DEF VoteCountingTick, Tick, pointers, chain, mloop
<1>2. PICK vs \in Answer({GetVoters(o, Current[o] + 1)}, {}) :
        \/ Status' = [Status EXCEPT ![o] = "REJECT"] /\ BlockHash' = BlockHash
        \/ Status' = Status
           /\ \E h \in FinalBlockHash(vs) : BlockHash' = [BlockHash EXCEPT ![o] = h]
  BY DEF VoteCountingTick, SetStatus
<1>3. CASE Status' = [Status EXCEPT ![o] = "REJECT"] /\ BlockHash' = BlockHash
  BY <1>1, <1>3, StatusLevel, Zenon
<1>4. CASE Status' = Status
           /\ \E h \in FinalBlockHash(vs) : BlockHash' = [BlockHash EXCEPT ![o] = h]
  <2>1. PICK h \in FinalBlockHash(vs) : BlockHash' = [BlockHash EXCEPT ![o] = h]
    BY <1>4, Zenon
  <2>2. h = ZeroHash \/ h.num = Current[o] + 1
    BY VotersOfKey, WinnerIsVoted DEF TypeInv
  <2>3. BlockHash'[o] = h /\ \A p \in Otprn : p # o => BlockHash'[p] = BlockHash[p]
    BY <2>1, Zenon DEF TypeInv, TypeOK
  <2>4. StoreInv' /\ Height' = Height
    BY <1>1, StoreFrame, Zenon DEF StoreInv
  <2>5. LastNumber' = LastNumber
    BY <1>1, Zenon DEF LastNumber
  <2>6. HashIsNext'
    BY <1>1, <1>4, <2>2, <2>3, Zenon DEF LevelInv, HashIsNext, Counting
  <2>7. saving = {}
    BY <1>1, Zenon DEF LevelInv, SavesCurrent
  <2>8. LeagueLevel'
    BY <1>1, <1>4, <2>4, <2>5, Zenon DEF LevelInv, LeagueLevel, Early
  <2> QED BY <1>1, <2>4, <2>5, <2>6, <2>7, <2>8, Zenon
          DEF LevelInv, SavesCurrent, LastBelow, IdleLevel, PendingHasChain
<1> QED BY <1>2, <1>3, <1>4

\* FINALIZE reads the height: there is always a block to read.
LEMMA FinalizeLevel ==
    ASSUME TypeInv, OrderInv, StoreInv, LevelInv, Calm, NEW o \in Otprn, FinalizeTick(o)
    PROVE  StoreInv' /\ LevelInv' /\ up' /\ blockChain' = blockChain /\ Status' = Status
<1>1. /\ saving' = saving /\ up /\ mpc' = mpc /\ isCur' = isCur
      /\ currentLeague' = currentLeague /\ leagues' = leagues /\ pendingLeague' = pendingLeague
      /\ o = currentLeague /\ o \in leagues /\ Status[o] = "FINALIZE"
  BY DEF FinalizeTick, Tick, mloop
<1>2. saving = {} /\ blockChain # {}
  BY <1>1, Zenon DEF OrderInv, Saved, LevelInv, LeagueLevel
<1>3. CurrentBlock = {Height} /\ Height \in Nat
  BY <1>2, ReadsHeight, HeightIsNat DEF TypeInv, StoreInv, Calm
<1>4. /\ lastBlock' = Height /\ Current' = [Current EXCEPT ![o] = Height]
      /\ BlockHash' = [BlockHash EXCEPT ![o] = Nil] /\ up' = up /\ Status' = Status
      /\ blockChain' = blockChain /\ blockChainRaw' = blockChainRaw
  BY <1>3, NilAssumption DEF FinalizeTick, chain
<1>5. StoreInv' /\ Height' = Height
  BY <1>1, <1>4, StoreFrame, Zenon DEF StoreInv
<1>6. LastNumber' = Height
  BY <1>3, <1>4, NilAssumption DEF LastNumber
<1>7. /\ Current'[o] = Height /\ BlockHash'[o] = Nil
      /\ \A p \in Otprn : p # o => Current'[p] = Current[p] /\ BlockHash'[p] = BlockHash[p]
  BY <1>4 DEF TypeInv, TypeOK
<1>8. HashIsNext'
  BY <1>4, <1>7 DEF LevelInv, HashIsNext
<1>10. SavesCurrent' /\ PendingHasChain'
  BY <1>1, <1>2, <1>4, Zenon DEF SavesCurrent, PendingHasChain
<1>11. LastBelow' /\ IdleLevel'
  BY <1>3, <1>5, <1>6 DEF LastBelow, IdleLevel
<1>9. LeagueLevel'
  BY <1>1, <1>2, <1>4, <1>5, <1>6, <1>7, Zenon DEF LeagueLevel
<1> QED BY <1>1, <1>4, <1>5, <1>8, <1>9, <1>10, <1>11, Zenon DEF LevelInv

\* The pending league takes over at the height the chain has now.
LEMMA RejectLevel ==
    ASSUME TypeInv, PointerInv, OrderInv, StoreInv, LevelInv, Calm, NEW o \in Otprn, RejectWake(o)
    PROVE  StoreInv' /\ LevelInv' /\ up'
<1>1. /\ up /\ o = currentLeague /\ saving = {} /\ saving' = saving /\ mpc = "select" /\ mpc' = mpc
      /\ blockChain' = blockChain /\ blockChainRaw' = blockChainRaw /\ isCur' = isCur
      /\ leagues' = leagues \ {o} /\ Status' = Status /\ BlockHash' = BlockHash
  BY DEF RejectWake, Settled, Calm, chain, mloop
<1>2. StoreInv' /\ Height' = Height /\ Height \in Nat
  BY <1>1, StoreFrame, HeightIsNat DEF StoreInv
<1>3. /\ blockChain = {} => CurrentBlock = {Nil} /\ Height = 0
      /\ blockChain # {} => CurrentBlock = {Height} /\ CurrentInfo = {Height}
  BY <1>1, ReadsHeight DEF TypeInv, Calm
<1>4. LastNumber' = Height
  <2>1. CASE blockChain = {}
    <3>1. lastBlock' = lastBlock
      BY <1>3, <2>1 DEF RejectWake
    <3>2. LastNumber \in Nat /\ LastNumber <= 0
      BY <1>3, <2>1 DEF LevelInv, LastBelow, LastNumber, TypeInv, TypeOK
    <3> QED BY <1>3, <2>1, <3>1, <3>2 DEF LastNumber
  <2>2. CASE blockChain # {}
    <3>1. lastBlock' = Height
      BY <1>2, <1>3, <2>2, NilAssumption DEF RejectWake
    <3> QED BY <1>2, <3>1, NilAssumption DEF LastNumber
  <2> QED BY <2>1, <2>2
<1>5. CASE pendingLeague = Nil
  <2>1. currentLeague' = Nil /\ pendingLeague' = Nil /\ up' = up /\ Current' = Current
    BY <1>5 DEF RejectWake
  <2>2. currentLeague' \notin leagues'
    BY <1>1, <2>1, NilAssumption, Zenon DEF TypeInv, TypeOK
  <2>3. HashIsNext'
    BY <1>1, <2>1, Zenon DEF LevelInv, HashIsNext
  <2>4. SavesCurrent' /\ LeagueLevel' /\ PendingHasChain'
    BY <1>1, <2>1, <2>2, Zenon DEF SavesCurrent, LeagueLevel, PendingHasChain
  <2>5. LastBelow' /\ IdleLevel'
    BY <1>2, <1>4 DEF LastBelow, IdleLevel
  <2> QED BY <1>1, <1>2, <2>1, <2>3, <2>4, <2>5, Zenon DEF LevelInv
<1>6. CASE pendingLeague # Nil
  <2>1. pendingLeague \in leagues \ {o} /\ pendingLeague \in Otprn
    BY <1>1, <1>6, NilAssumption, Zenon DEF TypeInv, TypeOK, PointerInv, PointersResolve, Distinct
  <2>2. Status[pendingLeague] = "PENDING"
    BY <1>1, <2>1 DEF OrderInv, Waiting
  <2>3. blockChain # {}
    BY <1>6 DEF LevelInv, PendingHasChain
  <2>4. /\ currentLeague' = pendingLeague /\ pendingLeague' = Nil /\ up'
        /\ Current' = [Current EXCEPT ![pendingLeague] = Height]
    BY <1>2, <1>3, <1>6, <2>1, <2>3, NilAssumption, Zenon DEF RejectWake
  <2>5. /\ Current'[pendingLeague] = Height
        /\ \A p \in Otprn : p # pendingLeague => Current'[p] = Current[p]
    BY <2>1, <2>4, Zenon DEF TypeInv, TypeOK
  <2>6. HashIsNext'
    BY <1>1, <2>2, <2>5, Zenon DEF LevelInv, HashIsNext, Counting
  <2>7. LeagueLevel'
    BY <1>1, <1>2, <1>4, <2>2, <2>4, <2>5 DEF LeagueLevel
  <2>8. SavesCurrent' /\ PendingHasChain'
    BY <1>1, <2>4, Zenon DEF SavesCurrent, PendingHasChain
  <2>9. LastBelow' /\ IdleLevel'
    BY <1>2, <1>4 DEF LastBelow, IdleLevel
  <2> QED BY <1>2, <2>4, <2>6, <2>7, <2>8, <2>9, Zenon DEF LevelInv
<1> QED BY <1>5, <1>6

\* The handlers that store nothing.
LEMMA HandlersLevel ==
    ASSUME TypeInv, OrderInv, StoreInv, LevelInv,
           \/ \E m \in Miner : \E b : CleanOldNode(m) \/ RequestOtprn(m) \/ HeartBeat(m, b) \/ Vote(m, b)
           \/ \E b, vs : SendBlock(b, vs) \/ RequestFairnodeSign(b, vs)
           \/ UNCHANGED vars
    PROVE  StoreInv' /\ LevelInv'
<1>1. /\ blockChain' = blockChain /\ blockChainRaw' = blockChainRaw /\ up' = up
      /\ Status' = Status /\ Current' = Current /\ BlockHash' = BlockHash /\ leagues' = leagues
      /\ currentLeague' = currentLeague /\ pendingLeague' = pendingLeague
      /\ lastBlock' = lastBlock /\ mpc' = mpc /\ isCur' = isCur /\ saving \subseteq saving'
  BY Zenon DEF CleanOldNode, RequestOtprn, HeartBeat, Vote, SendBlock, RequestFairnodeSign,
         vars, pointers, league, mloop, chain
<1>2. /\ StoreInv' /\ Height' = Height
      /\ \A b : InChain(b)' = InChain(b) /\ GetBlock(b)' = GetBlock(b)
  BY <1>1, StoreFrame DEF StoreInv, GetBlock
<1>3. LastNumber' = LastNumber
  BY <1>1 DEF LastNumber
<1>4. ASSUME NEW s \in saving', s \notin saving
      PROVE  /\ s.block.otprn \in leagues /\ Status[s.block.otprn] = "SEND_BLOCK"
             /\ s.block = BlockHash[s.block.otprn] /\ s.next = "blockChain"
  <2>1. PICK b, vs : SendBlock(b, vs)
    BY <1>4, Zenon DEF CleanOldNode, RequestOtprn, HeartBeat, Vote, RequestFairnodeSign, vars
  <2>2. s = [block |-> b, voters |-> vs, next |-> "blockChain"]
    BY <1>4, <2>1, Zenon DEF SendBlock
  <2>3. b.otprn \in leagues /\ Status[b.otprn] = "SEND_BLOCK" /\ BlockHash[b.otprn] = b
    BY <2>1, Zenon DEF SendBlock
  <2>4. s.block = b /\ s.next = "blockChain"
    BY <2>2
  <2> QED BY <2>3, <2>4, Zenon
<1>5. SavesCurrent'
  BY <1>1, <1>2, <1>4, Zenon DEF LevelInv, SavesCurrent, OrderInv, Waiting
<1> QED BY <1>1, <1>2, <1>3, <1>5, Zenon
        DEF LevelInv, HashIsNext, LastBelow, IdleLevel, LeagueLevel, PendingHasChain

\* SaveFinalBlock adds the block to the index unless it is there: then it is the
\* winner of a league whose round started at the height of the chain.
LEMMA IndexedExtends ==
    ASSUME TypeInv, StoreInv, LevelInv, NEW s \in saving, ~InChain(s.block),
           blockChain' = blockChain \cup {[block |-> s.block, voters |-> s.voters]}
    PROVE  /\ Current[currentLeague] = Height /\ s.block # Nil
           /\ s.block.num = Height + 1
           /\ Finals' = Finals \cup {[block |-> s.block, voters |-> s.voters]}
           /\ Height' = Height + 1
           /\ ChainShape'
<1> DEFINE f == [block |-> s.block, voters |-> s.voters]
<1>1. s.block \in Block /\ s.block # Nil /\ s.block # ZeroHash
  <2>1. s.block \in Block
    BY Zenon DEF TypeInv, TypeOK
  <2>2. s.block.otprn \in Otprn /\ ZeroHash.otprn = Nil
    BY <2>1, Zenon DEF Block, ZeroHash
  <2> QED BY <2>1, <2>2, NilAssumption
<1>2. /\ currentLeague \in leagues /\ currentLeague \in Otprn /\ s.block = BlockHash[currentLeague]
  BY Zenon DEF LevelInv, SavesCurrent, TypeInv, TypeOK
<1>3. Current[currentLeague] = Height
  BY <1>2 DEF LevelInv, LeagueLevel
<1>4. s.block.num = Height + 1
  BY <1>1, <1>2, <1>3, Zenon DEF LevelInv, HashIsNext
<1>5. f \notin blockChain /\ BaseFinal' = BaseFinal /\ f.block.num = Height + 1
  BY <1>4 DEF InChain, BaseFinal, BaseBlock
<1>6. f \notin Finals /\ Finals' = Finals \cup {f}
  BY <1>5 DEF Finals, StoreInv, ChainShape
<1>7. Height \in Nat /\ Height >= Base /\ Base \in Nat /\ IsFiniteSet(Finals)
  BY HeightIsNat, ConfigAssumption DEF StoreInv, ChainShape
<1> HIDE DEF f
<1>8. IsFiniteSet(Finals') /\ Cardinality(Finals') = Cardinality(Finals) + 1
  BY <1>6, <1>7, FS_AddElement
<1>9. Height' = Height + 1
  BY <1>7, <1>8, FS_CardinalityType, ConfigAssumption DEF Height
<1>10. BaseFinal' \subseteq blockChain'
  BY <1>5 DEF StoreInv, ChainShape
<1>11. \A g \in Finals' : g.block.num \in (Base + 1) .. Height'
  <2>1. \A g \in Finals : g.block.num \in (Base + 1) .. Height
    BY DEF StoreInv, ChainShape
  <2> QED BY <1>5, <1>6, <1>7, <1>9, <2>1
<1>12. \E g \in Finals' : g.block.num = Height'
  BY <1>5, <1>6, <1>9
<1>13. ChainShape'
  BY <1>5, <1>6, <1>8, <1>9, <1>10, <1>11, <1>12, Zenon DEF ChainShape
<1> QED BY <1>1, <1>3, <1>4, <1>6, <1>9, <1>13 DEF f

\* The two inserts of SaveFinalBlock.
LEMMA SaveLevel ==
    ASSUME TypeInv, StoreInv, LevelInv, NEW s \in saving, SaveIndexed(s) \/ SaveRaw(s)
    PROVE  StoreInv' /\ LevelInv'
<1>1. /\ Status' = Status /\ Current' = Current /\ BlockHash' = BlockHash /\ leagues' = leagues
      /\ currentLeague' = currentLeague /\ pendingLeague' = pendingLeague
      /\ lastBlock' = lastBlock /\ mpc' = mpc /\ isCur' = isCur
  BY DEF SaveIndexed, SaveRaw, pointers, league, mloop
<1>2. LastNumber' = LastNumber /\ HashIsNext' /\ LastNumber \in Nat
  BY <1>1, Zenon DEF LastNumber, LevelInv, HashIsNext, TypeInv, TypeOK
<1>3. /\ currentLeague \in leagues /\ s.block = BlockHash[currentLeague]
      /\ Status[currentLeague] \in {"SEND_BLOCK", "REQ_FAIRNODE_SIGN", "REJECT"}
  BY DEF LevelInv, SavesCurrent
<1>4. Height \in Nat
  BY HeightIsNat DEF StoreInv
<1>5. CASE SaveIndexed(s)
  <2> DEFINE t == [s EXCEPT !.next = "blockChainRaw"]
  <2>1. t.block = s.block /\ t.next = "blockChainRaw"
    BY DEF TypeInv, TypeOK
  <2>2. s.next = "blockChain" /\ saving' = (saving \ {s}) \cup {t} /\ blockChainRaw' = blockChainRaw
    BY <1>5 DEF SaveIndexed
  <2> HIDE DEF t
  <2>0. PICK f : f.block = s.block /\ blockChain' = Insert(blockChain, f)
    BY <1>5 DEF SaveIndexed
  <2>9. \E g \in blockChain' : g.block = s.block
    BY <2>0, InsertAdds
  <2>3. InChain(s.block)' /\ blockChain \subseteq blockChain' /\ blockChain' # {}
    <3>1. blockChain \subseteq blockChain'
      BY <2>0, InsertAdds, Zenon
    <3> QED BY <2>9, <3>1, Zenon DEF InChain
  <2>4. \A g \in blockChain' : g \in blockChain \/ g.block = s.block
    BY <2>0, InsertAdds
  <2>5. RawFollows'
    <3>1. ASSUME NEW g \in blockChain'
          PROVE  GetBlock(g.block)' \/ \E u \in saving' : u.next = "blockChainRaw" /\ u.block = g.block
      <4>1. CASE g.block = s.block
        BY <2>1, <2>2, <4>1
      <4>2. CASE g \in blockChain
        BY <2>2, <4>2 DEF StoreInv, RawFollows, GetBlock
      <4> QED BY <2>4, <4>1, <4>2
    <3>2. \A g \in blockChainRaw' : InChain(g.block)'
      BY <2>2, <2>3 DEF StoreInv, RawFollows, InChain
    <3> QED BY <3>1, <3>2 DEF RawFollows
  <2>6. SavesCurrent'
    <3> SUFFICES ASSUME NEW u \in saving'
                 PROVE  /\ u.block = BlockHash[currentLeague]
                        /\ u.next = "blockChainRaw" => InChain(u.block)'
      BY <1>1, <1>3 DEF SavesCurrent
    <3>1. CASE u = t
      BY <1>3, <2>1, <2>3, <3>1
    <3>2. CASE u \in saving
      BY <2>3, <3>2 DEF LevelInv, SavesCurrent, InChain
    <3> QED BY <2>2, <3>1, <3>2
  <2>7. CASE InChain(s.block)
    <3>1. blockChain' = blockChain
      BY <1>5, <2>7 DEF SaveIndexed, Insert, InChain
    <3>2. ChainShape' /\ Height' = Height /\ \A b : InChain(b)' = InChain(b) /\ GetBlock(b)' = GetBlock(b)
      BY <2>2, <3>1, StoreFrame DEF StoreInv, GetBlock
    <3> QED BY <1>1, <1>2, <2>5, <2>6, <3>1, <3>2, Zenon
            DEF StoreInv, LevelInv, LastBelow, IdleLevel, LeagueLevel, PendingHasChain
  <2>8. CASE ~InChain(s.block)
    <3>1. blockChain' = blockChain \cup {[block |-> s.block, voters |-> s.voters]}
      BY <1>5, <2>8 DEF SaveIndexed, Insert, InChain
    <3>2. /\ Current[currentLeague] = Height /\ s.block # Nil /\ Height' = Height + 1 /\ ChainShape'
      BY <2>8, <3>1, IndexedExtends, Zenon
    <3>3. \A b : GetBlock(b)' = GetBlock(b)
      BY <2>2 DEF GetBlock
    <3>4. LastBelow'
      BY <1>2, <1>4, <3>2 DEF LevelInv, LastBelow
    <3>5. LeagueLevel'
      BY <1>1, <1>3, <2>3, <3>2, <3>3, Zenon DEF LevelInv, LeagueLevel, Early
    <3> QED BY <1>1, <1>2, <1>3, <2>3, <2>5, <2>6, <3>2, <3>4, <3>5
            DEF StoreInv, LevelInv, IdleLevel, PendingHasChain
  <2> QED BY <2>7, <2>8
<1>6. CASE SaveRaw(s)
  <2>1. /\ s.next = "blockChainRaw" /\ saving' = saving \ {s} /\ blockChain' = blockChain
        /\ blockChainRaw' = Insert(blockChainRaw, [block |-> s.block, voters |-> s.voters])
    BY <1>6 DEF SaveRaw
  <2>2. InChain(s.block)
    BY <2>1, Zenon DEF LevelInv, SavesCurrent
  <2>0. PICK f : f.block = s.block /\ blockChainRaw' = Insert(blockChainRaw, f)
    BY <2>1
  <2>3. /\ GetBlock(s.block)' /\ blockChainRaw \subseteq blockChainRaw'
        /\ \A g \in blockChainRaw' : g \in blockChainRaw \/ g.block = s.block
    BY <2>0, InsertAdds DEF GetBlock
  <2>4. ChainShape' /\ Height' = Height /\ \A b : InChain(b)' = InChain(b)
    BY <2>1, StoreFrame DEF StoreInv
  <2>5. \A b : GetBlock(b) => GetBlock(b)'
    BY <2>3 DEF GetBlock
  <2>6. RawFollows'
    <3>1. ASSUME NEW g \in blockChain'
          PROVE  GetBlock(g.block)' \/ \E u \in saving' : u.next = "blockChainRaw" /\ u.block = g.block
      BY <2>1, <2>3, <2>5, Zenon DEF StoreInv, RawFollows
    <3>2. \A g \in blockChainRaw' : InChain(g.block)'
      BY <2>2, <2>3, <2>4, Zenon DEF StoreInv, RawFollows
    <3> QED BY <3>1, <3>2 DEF RawFollows
  <2>7. SavesCurrent'
    BY <1>1, <2>1, <2>4, Zenon DEF LevelInv, SavesCurrent
  <2> QED BY <1>1, <1>2, <2>1, <2>4, <2>5, <2>6, <2>7, Zenon
          DEF StoreInv, LevelInv, LastBelow, IdleLevel, LeagueLevel, PendingHasChain
<1> QED BY <1>5, <1>6

\* Every step keeps the store and the levels.
LeagueInv == PointerInv /\ OrderInv /\ StoreInv /\ LevelInv

LEMMA InitLevel == Init => LeagueInv
<1> SUFFICES ASSUME Init PROVE StoreInv /\ LevelInv
  BY InitLeague DEF LeagueInv
<1>1. Finals = {} /\ blockChain = BaseFinal /\ blockChainRaw = BaseFinal
  BY DEF Init, Finals
<1>2. ChainShape
  BY <1>1, FS_EmptySet DEF ChainShape
<1>3. RawFollows
  BY <1>1 DEF RawFollows, GetBlock, InChain
<1>4. Height = Base /\ Base \in Nat
  BY <1>1, <1>2, HeightIsNat, ConfigAssumption
<1>5. LastNumber = Base
  BY ConfigAssumption, NilAssumption DEF Init, LastNumber
<1>6. HashIsNext /\ SavesCurrent /\ PendingHasChain
  BY Zenon DEF Init, HashIsNext, SavesCurrent, PendingHasChain
<1>7. LastBelow /\ IdleLevel /\ LeagueLevel
  BY <1>4, <1>5 DEF Init, LastBelow, IdleLevel, LeagueLevel
<1> QED BY <1>2, <1>3, <1>6, <1>7, Zenon DEF StoreInv, LevelInv

LEMMA NextLeague ==
    ASSUME IInv, HashBeforeSend, LeagueInv, Calm, [Next]_vars
    PROVE  LeagueInv' /\ (Epoch # 1 /\ up => up')
<1>1. TypeInv /\ "delay" \notin Faults /\ "dbError" \notin Faults /\ "restart" \notin Faults
  BY DEF IInv, Calm
<1>2. PointerInv' /\ OrderInv'
  BY <1>1, NextPointers, NextOrder DEF LeagueInv
<1>3. StoreInv' /\ LevelInv' /\ (Epoch # 1 /\ up => up')
  <2> USE <1>1 DEF LeagueInv
  <2>1. CASE MakeOtprn
    BY <2>1, MakeOtprnLevel
  <2>2. CASE FinalizeWake \/ Signal
    <3>1. currentLeague \in Otprn
      BY <2>2, Zenon DEF FinalizeWake, Signal, OrderInv, Deciding, Answering, TypeInv, TypeOK
    <3> QED BY <2>2, <3>1, LoopLevel
  <2>3. ASSUME NEW o \in Otprn,
               \/ PendingTick(o) \/ SleepTick(o) \/ MakeJoinTxTick(o) \/ VoteCountingTick(o)
               \/ SendBlockTick(o) \/ FinalizeTick(o) \/ Wake(o) \/ RejectWake(o)
        PROVE  StoreInv' /\ LevelInv' /\ up'
    BY <2>3, LoopLevel, CountLevel, FinalizeLevel, RejectLevel
  <2>4. CASE Requests
    <3>1. up' = up
      BY <2>4, Zenon DEF Requests, CleanOldNode, RequestOtprn, HeartBeat, Vote, SendBlock,
                  RequestFairnodeSign, SaveIndexed, SaveRaw, SaveFails
    <3>2. \A s \in saving : ~SaveFails(s)
      BY DEF SaveFails
    <3>3. \/ \E m \in Miner : \E b : CleanOldNode(m) \/ RequestOtprn(m) \/ HeartBeat(m, b) \/ Vote(m, b)
          \/ \E b, vs : SendBlock(b, vs) \/ RequestFairnodeSign(b, vs)
          \/ \E s \in saving : SaveIndexed(s) \/ SaveRaw(s)
      BY <2>4, <3>2, Zenon DEF Requests
    <3> QED BY <3>1, <3>3, HandlersLevel, SaveLevel
  <2>5. CASE UNCHANGED vars
    BY <2>5, HandlersLevel DEF vars
  <2>6. ~Restart
    BY DEF Restart
  <2> QED BY <2>1, <2>2, <2>3, <2>4, <2>5, <2>6 DEF Next, ProcessManageLoop
<1> QED BY <1>2, <1>3 DEF LeagueInv

\* No goroutine of the leader panics, for every number of miners and leagues,
\* every timeout and every MinMiner, with nodes that fall silent: the loop never
\* finds an empty chain in FINALIZE or when a pending league takes over, and no
\* nil hash.  An epoch of 1 is excluded: makeOtprn divides by epoch/2.
THEOREM NeverPanics ==
    ASSUME Faults \subseteq {"silent"}, Epoch # 1
    PROVE  Spec => []NoPanic
<1>1. Init => LeagueInv /\ NoPanic
  BY InitLevel DEF Init, NoPanic
<1>2. IInv /\ HashBeforeSend /\ LeagueInv /\ NoPanic /\ [Next]_vars => LeagueInv' /\ NoPanic'
  BY NextLeague DEF Calm, NoPanic
<1> QED BY <1>1, <1>2, Inductive, NoNilHash, PTL DEF Spec

\* FinalChain counts as Fairnode does.
LEMMA SameCardinality == \A S : Promise!Cardinality(S) = Cardinality(S)
BY DEF Promise!Cardinality, Cardinality

\* The election of Fairnode is the one FinalChain speaks of.
LEMMA ElectedPromised ==
    ASSUME NEW f, Elected(votes, f)
    PROVE  Promise!Elected(f)
<1>1. Promise!Leads(f.voters, f.block)
  BY SameCardinality DEF Elected, Count, Promise!Leads
<1> QED BY <1>1, SameCardinality, Zenon DEF Elected, Promise!Elected

\* What one step does to the database.
LEMMA StepPromised ==
    ASSUME IInv, HashBeforeSend, LeagueInv, Calm, [Next]_vars
    PROVE  [Promise!Next]_<<votes, blockChain \ BaseFinal>>
<1>1. TypeInv /\ "dbError" \notin Faults /\ "restart" \notin Faults
  BY DEF IInv, Calm
<1>2. CASE \E s \in saving : SaveIndexed(s)
  <2>1. PICK s \in saving : SaveIndexed(s)
    BY <1>2
  <2> DEFINE f == [block |-> s.block, voters |-> s.voters]
  <2>2. votes' = votes /\ blockChain' = Insert(blockChain, f)
    BY <2>1 DEF SaveIndexed
  <2>3. CASE InChain(s.block)
    BY <2>2, <2>3, Zenon DEF Insert, InChain, BaseFinal, BaseBlock
  <2>4. CASE ~InChain(s.block)
    <3>1. blockChain' = blockChain \cup {f}
      BY <2>2, <2>4 DEF Insert, InChain
    <3>2. Finals' = Finals \cup {f} /\ s.block.num = Height + 1
      BY <1>1, <2>4, <3>1, IndexedExtends, Zenon DEF LeagueInv
    <3>3. Elected(votes, f)
      BY DEF IInv, ElectedInv, SavingElected
    <3>4. Promise!Elected(f)
      BY <3>3, ElectedPromised
    <3>5. Promise!Height = Height
      BY SameCardinality DEF Promise!Height, Height, Finals
    <3>6. f.block.num = Promise!Height + 1
      BY <3>2, <3>5
    <3> HIDE DEF f
    <3>7. Promise!Extend
      BY <2>2, <3>2, <3>4, <3>6 DEF Promise!Extend, Finals
    <3> QED BY <3>7 DEF Promise!Next
  <2> QED BY <2>3, <2>4
<1>3. CASE \E m \in Miner : \E b \in Candidates : MayVote(m, b) /\ Vote(m, b)
  <2>1. blockChain' = blockChain /\ votes \subseteq votes'
    BY <1>3, Zenon DEF Vote, chain
  <2>2. votes' \subseteq Ballot
    BY NextIInv, Zenon DEF IInv, TypeInv, TypeOK
  <2> QED BY <2>1, <2>2, Zenon DEF Promise!Next, Promise!Cast, BaseFinal, BaseBlock
<1>4. CASE \E o \in Otprn : FinalizeTick(o)
  <2>1. blockChain' = blockChain /\ votes' = votes
    BY <1>1, <1>4, FinalizeLevel, Zenon DEF LeagueInv, FinalizeTick
  <2> QED BY <2>1, Zenon DEF BaseFinal, BaseBlock
<1>5. CASE /\ ~\E s \in saving : SaveIndexed(s)
           /\ ~\E m \in Miner : \E b \in Candidates : MayVote(m, b) /\ Vote(m, b)
           /\ ~\E o \in Otprn : FinalizeTick(o)
  <2>1. CASE MakeOtprn \/ UNCHANGED vars
    BY <2>1, Zenon DEF MakeOtprn, MakeOtprnTick, NewOtprn, NoConfig, AddLeague, SaveOtprn, Decide,
                vars, chain, BaseFinal, BaseBlock
  <2>2. CASE ProcessManageLoop
    <3>1. blockChain' = blockChain /\ votes' = votes
      BY <1>5, <2>2, Zenon DEF ProcessManageLoop, PendingTick, SleepTick, MakeJoinTxTick, VoteCountingTick,
                 SendBlockTick, Wake, RejectWake, FinalizeWake, Signal, chain
    <3> QED BY <3>1, Zenon DEF BaseFinal, BaseBlock
  <2>3. CASE Requests
    <3>1. blockChain' = blockChain /\ votes' = votes
      BY <1>5, <2>3, Zenon DEF Requests, CleanOldNode, RequestOtprn, HeartBeat, SendBlock,
                 RequestFairnodeSign, SaveRaw, SaveFails, chain
    <3> QED BY <3>1, Zenon DEF BaseFinal, BaseBlock
  <2>4. ~Restart
    BY <1>1 DEF Restart
  <2> QED BY <2>1, <2>2, <2>3, <2>4 DEF Next
<1> QED BY <1>2, <1>3, <1>4, <1>5

\* The leader implements FinalChain for every number of miners and leagues, every
\* epoch, timeout and starting height: its database is a chain of elected blocks
\* without gaps or rivals that is only ever extended.  A SendBlock that overlaps
\* a timeout, a league change or another SendBlock does not break it.
THEOREM LeaderImplementsFinalChain ==
    ASSUME Faults \subseteq {"silent"}
    PROVE  Spec => ImplementsFinalChain
<1>1. Init => Promise!Init
  BY DEF Init, Promise!Init
<1>2. IInv /\ HashBeforeSend /\ LeagueInv /\ [Next]_vars => LeagueInv'
  BY NextLeague DEF Calm
<1>3. IInv /\ HashBeforeSend /\ LeagueInv /\ [Next]_vars =>
          [Promise!Next]_<<votes, blockChain \ BaseFinal>>
  BY StepPromised DEF Calm
<1> QED BY <1>1, <1>2, <1>3, InitLevel, Inductive, NoNilHash, PTL
        DEF Spec, ImplementsFinalChain, Promise!Spec

-----------------------------------------------------------------------------
\* A multiple of h between 0 and h is 0.
LEMMA NoMultipleBelow ==
    ASSUME NEW h \in Nat \ {0}, NEW k \in Int, 0 <= h * k, h * k < h
    PROVE  k = 0
<1>1. CASE k >= 1
  <2>1. h * k >= h * 1
    BY <1>1
  <2> QED BY <2>1
<1>2. CASE k <= -1
  <2>1. h * k <= h * (-1)
    BY <1>2
  <2> QED BY <2>1
<1> QED BY <1>1, <1>2

\* What an even epoch divides, its half does: the test with epoch/2 that guards
\* the test with epoch in makeOtprn loses nothing.
LEMMA HalfDivides ==
    ASSUME NEW e \in Nat \ {0}, NEW n \in Nat, e % 2 = 0, n % e = 0
    PROVE  n % (e \div 2) = 0
<1> DEFINE h == e \div 2
           q == n \div e
           d == n \div h
           r == n % h
<1>1. h \in Nat \ {0} /\ e = 2 * h
  OBVIOUS
<1>2. q \in Int /\ n = e * q
  OBVIOUS
<1> HIDE DEF h, q
<1>3. d \in Int /\ r \in Int /\ 0 <= r /\ r < h /\ n = h * d + r
  BY <1>1
<1> HIDE DEF d, r
<1>4. e * q = h * (2 * q)
  BY <1>1, <1>2
<1>5. h * (2 * q) - h * d = h * (2 * q - d)
  BY <1>1, <1>2, <1>3
<1>6. h * (2 * q - d) = r
  BY <1>1, <1>2, <1>3, <1>4, <1>5
<1>7. 2 * q - d \in Int
  BY <1>2, <1>3
<1>8. 2 * q - d = 0
  BY <1>1, <1>3, <1>6, <1>7, NoMultipleBelow
<1>9. h * 0 = 0
  BY <1>1
<1> QED BY <1>6, <1>8, <1>9 DEF r, h

\* Only the receiver of makePendingLeagueCh ends a round that was finalized.
LEMMA LeavesFinalize ==
    ASSUME IInv, LeagueInv, Calm, [Next]_vars, NEW o \in Otprn,
           Status[o] = "FINALIZE", Status'[o] # "FINALIZE"
    PROVE  Decide /\ o = currentLeague
<1>1. /\ TypeInv /\ OrderInv /\ StoreInv /\ LevelInv /\ Status \in [Otprn -> FnStatus]
      /\ Status' # Status
  BY Zenon DEF IInv, LeagueInv, TypeInv, TypeOK
<1>2. \A p \in Otprn : \A st : SetStatus(p, st) => Status'[o] = Status[o] \/ (p = o /\ Status'[o] = st)
  BY <1>1, Zenon DEF SetStatus
<1>3. ASSUME NEW p \in Otprn,
             \/ PendingTick(p) \/ SleepTick(p) \/ MakeJoinTxTick(p) \/ VoteCountingTick(p)
             \/ SendBlockTick(p) \/ Wake(p) \/ RejectWake(p)
      PROVE  FALSE
  <2>1. \/ Status' = Status
        \/ Tick(p, "PENDING") /\ \E st : SetStatus(p, st)
        \/ Tick(p, "VOTE_COUNTING") /\ \E st : SetStatus(p, st)
        \/ Tick(p, "SEND_BLOCK") /\ \E st : SetStatus(p, st)
        \/ Wake(p) /\ SetStatus(p, AfterSleep[pstatus])
    BY <1>3, Zenon DEF PendingTick, SleepTick, MakeJoinTxTick, VoteCountingTick, SendBlockTick,
                       Wake, RejectWake, league
  <2>2. CASE Wake(p)
    <3>1. ppc = "sleep" /\ pstatus \in DOMAIN AfterSleep /\ p = currentLeague
      BY <2>2, Zenon DEF Wake
    <3>2. Status[p] = pstatus /\ pstatus # "FINALIZE"
      BY <2>2, <3>1, SleepFollows, <1>1, Zenon DEF OrderInv, Asleep, Wake
    <3> QED BY <1>1, <1>2, <2>2, <3>2, Zenon DEF Wake
  <2> QED BY <1>1, <1>2, <2>1, <2>2, Zenon DEF Tick
<1>4. ASSUME NEW p \in Otprn, FinalizeTick(p) PROVE FALSE
  BY <1>1, <1>4, FinalizeLevel, Zenon
<1>5. ~(FinalizeWake \/ Signal \/ Restart \/ UNCHANGED vars)
  BY <1>1, Zenon DEF FinalizeWake, Signal, Restart, vars, league
<1>6. ~Requests
  BY <1>1, Zenon DEF Requests, CleanOldNode, RequestOtprn, HeartBeat, Vote, SendBlock,
                     RequestFairnodeSign, SaveIndexed, SaveRaw, SaveFails, league
<1>7. ~(MakeOtprnTick \/ NewOtprn \/ NoConfig \/ SaveOtprn)
  BY <1>1, Zenon DEF MakeOtprnTick, NewOtprn, NoConfig, SaveOtprn, league
<1>8. ~AddLeague
  BY <1>1, Zenon DEF AddLeague, OrderInv, Unnamed
<1>9. Decide
  BY <1>3, <1>4, <1>5, <1>6, <1>7, <1>8, Zenon DEF Next, ProcessManageLoop, MakeOtprn
<1> QED BY <1>1, <1>9, Zenon DEF Decide

\* A league is given up after exactly the blocks whose number is a multiple of
\* Epoch, for every even epoch and every number of leagues, miners and blocks.
\* For an odd epoch the test with epoch/2 may miss the end of the term.
THEOREM LeagueLivesOneTerm ==
    ASSUME Faults \subseteq {"silent"}, Epoch % 2 = 0
    PROVE  Spec => TermChange
<1>1. ASSUME IInv, LeagueInv, [Next]_vars, NEW o \in Otprn, Status[o] = "FINALIZE",
             Status'[o] # "FINALIZE", Epoch # 0, Current[o] # 0
      PROVE  (Status'[o] = "REJECT") = (Current[o] % Epoch = 0)
  <2>1. Decide /\ o = currentLeague
    BY <1>1, LeavesFinalize DEF Calm
  <2>2. Status'[o] = EpochStatus(Current[o])
    BY <1>1, <2>1, Zenon DEF Decide, IInv, TypeInv, TypeOK
  <2>3. Current[o] \in Nat /\ Epoch \in Nat \ {0}
    BY <1>1, ConfigAssumption DEF IInv, TypeInv, TypeOK
  <2>4. Current[o] % Epoch = 0 => Current[o] % (Epoch \div 2) = 0
    BY <2>3, HalfDivides
  <2> QED BY <1>1, <2>2, <2>4 DEF EpochStatus
<1>2. IInv /\ LeagueInv /\ [Next]_vars =>
        [\A o \in Otprn :
          Status[o] = "FINALIZE" /\ Status'[o] # "FINALIZE" /\ Epoch # 0 /\ Current[o] # 0
              => (Status'[o] = "REJECT") = (Current[o] % Epoch = 0)]_vars
  BY <1>1
<1>3. IInv /\ HashBeforeSend /\ LeagueInv /\ [Next]_vars => LeagueInv'
  BY NextLeague DEF Calm
<1> QED BY <1>2, <1>3, InitLevel, Inductive, NoNilHash, PTL DEF Spec, TermChange

=============================================================================
