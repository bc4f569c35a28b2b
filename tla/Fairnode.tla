------------------------------ MODULE Fairnode ------------------------------
(***************************************************************************)
(* The leader fairnode: the league life cycle of fairnode/fairnode.go      *)
(* (processManageLoop and makeOtprn, two goroutines that share the league  *)
(* table without a lock), the gRPC handlers of fairnode/rpc_server.go that *)
(* change state, and the MongoDB collections they write                    *)
(* (fairnode/fairdb/mongo_database.go).                                    *)
(*                                                                         *)
(* One action is the code between two points where a goroutine can be      *)
(* descheduled for long: a time.Sleep, a channel operation, a database     *)
(* call.  Clients are arbitrary here: any miner may issue any well-signed  *)
(* request at any time.                                                    *)
(***************************************************************************)
EXTENDS Integers, Sequences, FiniteSets

CONSTANTS
    Miner,                  \* the miners (enode and address)
    Otprn,                  \* otprn hashes; one league per otprn
    MinMiner,               \* ChainConfig.MinMiner
    Epoch,                  \* ChainConfig.Epoch
    LEAGUE_WAIT_TIME_OUT,   \* ticks a league may stay below MinMiner nodes
    SEND_BLOCK_TIME_OUT,    \* ticks the leader waits for the final block
    Base,                   \* height of the database when the process starts
    MaxHeight,              \* bound: no vote above this height
    Sealer,                 \* bound: the miners whose blocks are voted for
    VotePhases,             \* bound: statuses during which votes arrive
    Faults,                 \* which of {"delay", "dbError", "restart", "silent"} happen
    Nil

-----------------------------------------------------------------------------
\* types.FnStatus; NONE is the value of a league that was never created.
Round == {"MAKE_JOIN_TX", "MAKE_BLOCK", "LEAGUE_BROADCASTING", "VOTE_START",
          "VOTE_COUNTING", "VOTE_COMPLETE", "SEND_BLOCK", "REQ_FAIRNODE_SIGN",
          "FINALIZE"}
FnStatus == Round \cup {"PENDING", "MAKE_LEAGUE", "REJECT", "NONE"}

\* keycmd.go:277-302 refuses a MinMiner of 0; Epoch is any number.
ASSUME ConfigAssumption ==
    /\ MinMiner \in Nat \ {0}
    /\ Epoch \in Nat
    /\ Base \in Nat
    /\ MaxHeight \in Nat
    /\ Sealer \subseteq Miner
    /\ VotePhases \subseteq FnStatus
    /\ LEAGUE_WAIT_TIME_OUT \in Nat
    /\ SEND_BLOCK_TIME_OUT \in Nat
    /\ Faults \subseteq {"delay", "dbError", "restart", "silent"}

\* A block is told apart by its otprn, its number and its coinbase.
Block == [otprn : Otprn, num : Nat, miner : Miner]

\* A vote is a signed header; its key (otprn, number) is in the header.
Ballot == [voter : Miner, block : Block]

\* What the database keeps of a final block: the hash does not cover voters.
Final == [block : Block, voters : SUBSET Ballot]

\* common.Hash{}, what ValidationFinalBlockHash returns without votes.
ZeroHash == [otprn |-> Nil, num |-> 0, miner |-> Nil]

\* Nil is Go's nil: no otprn hash, no number, no block hash.
ASSUME NilAssumption == Nil \notin Otprn \cup Nat \cup Block \cup {ZeroHash}

\* The block the database holds when the process starts on a used database.
BaseBlock == [otprn |-> Nil, num |-> Base, miner |-> Nil]
BaseFinal == IF Base = 0 THEN {} ELSE {[block |-> BaseBlock, voters |-> {}]}

VARIABLES
    up,             \* the process runs: no goroutine has panicked
    currentLeague, pendingLeague,                  \* *common.Hash
    leagues,                                       \* keys of fn.leagues
    Status, Current, BlockHash, Votehash,          \* fields of *league
    lastBlock,                                     \* number of fn.lastBlock
    ppc, pstatus, sendBlockAttampt, leageuWaitAttampt, \* processManageLoop
    mpc, isCur, otpHash,                           \* makeOtprn
    active, otprnList, leagueList, votes,          \* database collections
    blockChain, blockChainRaw,                     \* database collections
    saving,         \* SendBlock calls that passed their checks
    signed          \* what RequestFairnodeSign has signed

league   == <<leagues, Status, Current, BlockHash, Votehash>>
pointers == <<currentLeague, pendingLeague, lastBlock>>
ploop    == <<ppc, pstatus, sendBlockAttampt, leageuWaitAttampt>>
mloop    == <<mpc, isCur, otpHash>>
members  == <<active, otprnList, leagueList>>
chain    == <<blockChain, blockChainRaw>>
vars     == <<up, pointers, league, ploop, mloop, members, votes, chain,
              saving, signed>>

-----------------------------------------------------------------------------
\* The database.

\* What a database call that should answer one of xs may answer: a failing
\* call logs the error and looks to its caller like one that found nothing.
Answer(xs, nothing) == IF "dbError" \in Faults THEN xs \cup {nothing} ELSE xs

\* Variants: the vote key leaves out the otprn; it leaves out the number.
GetVotersOfAnyLeague(o, n) == {v \in votes : v.block.num = n}
GetVotersOfAnyHeight(o, n) == {v \in votes : v.block.otprn = o}

\* GetVoters(MakeVoteKey(o, n)).
GetVoters(o, n) == {v \in votes : v.block.otprn = o /\ v.block.num = n}

\* Number of votes for block b.
Count(vs, b) == Cardinality({v \in vs : v.block = b})

\* ValidationFinalBlockHash: the blocks with the most votes.  Which of them
\* wins a tie (difficulty, nonce, coinbase) is the subject of FinalBlock.tla.
FinalBlockHash(vs) ==
    IF vs = {} THEN {ZeroHash}
    ELSE {b \in {v.block : v \in vs} :
              \A c \in {v.block : v \in vs} : Count(vs, c) <= Count(vs, b)}

\* Variant: the sort is ascending.
Oldest == {f \in blockChain : \A g \in blockChain : g.block.num >= f.block.num}

\* FindOne sorted by header.number descending; equal numbers come in any order.
Newest == {f \in blockChain : \A g \in blockChain : g.block.num <= f.block.num}

GetBlock(b) == \E f \in blockChainRaw : f.block = b

\* The possible answers of CurrentBlock (its number, or nil).
CurrentBlock ==
    IF blockChain = {} THEN {Nil}
    ELSE Answer({IF GetBlock(f.block) THEN f.block.num ELSE Nil : f \in Newest}, Nil)

CurrentInfo ==
    IF blockChain = {} THEN {Nil} ELSE Answer({f.block.num : f \in Newest}, Nil)

\* InsertOne: a second document with the same _id (hash) is refused.
Insert(col, f) ==
    IF \E g \in col : g.block = f.block THEN col ELSE col \cup {f}

RemoveBlock(col, b) == {f \in col : f.block # b}

-----------------------------------------------------------------------------
Init ==
    /\ up = TRUE
    /\ currentLeague = Nil /\ pendingLeague = Nil
    /\ leagues = {}
    /\ Status = [o \in Otprn |-> "NONE"]
    /\ Current = [o \in Otprn |-> 0]
    /\ BlockHash = [o \in Otprn |-> Nil]
    /\ Votehash = [o \in Otprn |-> Nil]
    /\ lastBlock = (IF Base = 0 THEN Nil ELSE Base)
    /\ ppc = "tick" /\ pstatus = "PENDING"
    /\ sendBlockAttampt = 0 /\ leageuWaitAttampt = 0
    /\ mpc = "select" /\ isCur = TRUE /\ otpHash = Nil
    /\ active = {} /\ otprnList = <<>> /\ leagueList = [o \in Otprn |-> {}]
    /\ votes = {}
    /\ blockChain = BaseFinal /\ blockChainRaw = BaseFinal
    /\ saving = {} /\ signed = {}

-----------------------------------------------------------------------------
(***************************************************************************)
(* makeOtprn.  newOtprn(isCur) reads the active nodes, sets the pointer,   *)
(* adds the league (taking fn.mu) and saves the otprn, in this order.      *)
(***************************************************************************)

\* The ticker fires (or the loop starts) and there is no current league.
MakeOtprnTick ==
    /\ up /\ mpc = "select" /\ currentLeague = Nil
    /\ mpc' = "fresh" /\ isCur' = TRUE
    /\ UNCHANGED <<up, pointers, league, ploop, otpHash, members, votes, chain,
                   saving, signed>>

\* Not drawn before: NewOtprn takes 20 random bytes.  When the names of the
\* instance are used up newOtprn fails, as it does when SignOtprn does.
Fresh == {o \in Otprn : Status[o] = "NONE" /\ o \notin {currentLeague, pendingLeague}}

\* GetActiveNode, the minimum check and the check-and-set of the pointer.  A
\* chain configuration that cannot be read is a nil pointer: NoConfig.
NewOtprn ==
    /\ up /\ mpc = "fresh"
    /\ \/ /\ \/ \E nodes \in Answer({active}, {}) : Cardinality(nodes) < MinMiner
             \/ Fresh = {}
             \/ (IF isCur THEN currentLeague ELSE pendingLeague) # Nil
          /\ mpc' = "select" /\ UNCHANGED <<otpHash, currentLeague, pendingLeague>>
       \/ /\ Cardinality(active) >= MinMiner
          /\ \E o \in Fresh :
                /\ otpHash' = o
                /\ IF isCur
                   THEN /\ currentLeague = Nil /\ currentLeague' = o
                        /\ UNCHANGED pendingLeague
                   ELSE /\ pendingLeague = Nil /\ pendingLeague' = o
                        /\ UNCHANGED currentLeague
          /\ mpc' = "add"
    /\ UNCHANGED <<up, lastBlock, league, ploop, isCur, members, votes, chain,
                   saving, signed>>

NoConfig ==
    /\ up /\ mpc = "fresh" /\ "dbError" \in Faults
    /\ up' = FALSE
    /\ UNCHANGED <<pointers, league, ploop, mloop, members, votes, chain, saving, signed>>

\* Variant: addLeague does not check lastBlock for nil.
LastNumberUnchecked == lastBlock

\* The height addLeague starts from.
LastNumber == IF lastBlock = Nil THEN 0 ELSE lastBlock

AddLeague ==
    /\ up /\ mpc = "add"
    /\ leagues' = leagues \cup {otpHash}
    /\ Status' = [Status EXCEPT ![otpHash] = "PENDING"]
    /\ Current' = [Current EXCEPT ![otpHash] = LastNumber]
    /\ mpc' = "save"
    /\ UNCHANGED <<up, pointers, BlockHash, Votehash, ploop, isCur, otpHash,
                   members, votes, chain, saving, signed>>

SaveOtprn ==
    /\ up /\ mpc = "save"
    /\ otprnList' \in Answer({Append(otprnList, otpHash)}, otprnList)
    /\ mpc' = "select"
    /\ UNCHANGED <<up, pointers, league, ploop, isCur, otpHash, active,
                   leagueList, votes, chain, saving, signed>>

\* Variants: the league is changed one block late; the status is not written.
EpochStatusLate(n) == IF Epoch # 0 /\ n % Epoch = 1 THEN "REJECT" ELSE "MAKE_JOIN_TX"
EpochStatusKept(n) == "FINALIZE"

\* The term rule applied to the current league after a block.  Mod by
\* epoch/2 panics when epoch is 1.
EpochStatus(n) ==
    IF Epoch # 0 /\ n # 0 /\ n % (Epoch \div 2) = 0 /\ n % Epoch = 0
    THEN "REJECT" ELSE "MAKE_JOIN_TX"
MakesPending(n) ==
    Epoch # 0 /\ n # 0 /\ n % (Epoch \div 2) = 0 /\ n % Epoch # 0

\* The receiver of makePendingLeagueCh writes the league's status.
Decide ==
    /\ up /\ mpc = "decide"
    /\ IF currentLeague = Nil \/ currentLeague \notin leagues
       THEN mpc' = "select" /\ UNCHANGED <<up, Status, isCur>>
       ELSE LET n == Current[currentLeague] IN
            IF Epoch = 1 /\ n # 0
            THEN up' = FALSE /\ UNCHANGED <<mpc, Status, isCur>>
            ELSE /\ Status' = [Status EXCEPT ![currentLeague] = EpochStatus(n)]
                 /\ mpc' = IF MakesPending(n) THEN "fresh" ELSE "select"
                 /\ isCur' = IF MakesPending(n) THEN FALSE ELSE isCur
                 /\ UNCHANGED up
    /\ UNCHANGED <<pointers, leagues, Current, BlockHash, Votehash, ploop,
                   otpHash, members, votes, chain, saving, signed>>

-----------------------------------------------------------------------------
(***************************************************************************)
(* processManageLoop.  A tick reads the status of the current league and   *)
(* either writes the next one at once or sleeps a second or more before it *)
(* does; ppc is "tick", "sleep", or "signal" while the loop is blocked     *)
(* sending on makePendingLeagueCh.                                         *)
(***************************************************************************)

\* Variant: the sleeps are too short to wait for anything.
NoSleep == TRUE

\* A sleep outlasts what is in flight when it ends (a goroutine that is
\* ready to run, a database call), unless calls may be delayed at will.
Settled == "delay" \in Faults \/ (mpc = "select" /\ saving = {})

\* The loop acts on the current league o, seen in status st.
Tick(o, st) ==
    /\ up /\ ppc = "tick"
    /\ o = currentLeague /\ o \in leagues
    /\ Status[o] = st
    /\ pstatus' = st

SetStatus(o, st) == Status' = [Status EXCEPT ![o] = st]

PendingTick(o) ==
    /\ Tick(o, "PENDING")
    /\ \E nodes \in Answer({leagueList[o]}, {}) :
          IF Cardinality(nodes) >= MinMiner
          THEN SetStatus(o, "MAKE_LEAGUE") /\ leageuWaitAttampt' = 0
          ELSE IF leageuWaitAttampt + 1 > LEAGUE_WAIT_TIME_OUT
               THEN SetStatus(o, "REJECT") /\ leageuWaitAttampt' = 0
               ELSE leageuWaitAttampt' = leageuWaitAttampt + 1 /\ UNCHANGED Status
    /\ UNCHANGED <<up, pointers, leagues, Current, BlockHash, Votehash, ppc,
                   sendBlockAttampt, mloop, members, votes, chain, saving, signed>>

\* The statuses whose case only sleeps before it moves on.
SleepTick(o) ==
    /\ \E st \in {"MAKE_LEAGUE", "MAKE_BLOCK", "LEAGUE_BROADCASTING", "VOTE_START",
                  "VOTE_COMPLETE", "REQ_FAIRNODE_SIGN", "REJECT"} : Tick(o, st)
    /\ ppc' = "sleep"
    /\ UNCHANGED <<up, pointers, league, sendBlockAttampt, leageuWaitAttampt,
                   mloop, members, votes, chain, saving, signed>>

MakeJoinTxTick(o) ==
    /\ Tick(o, "MAKE_JOIN_TX")
    /\ Current' = IF lastBlock = Nil THEN Current
                  ELSE [Current EXCEPT ![o] = lastBlock]
    /\ ppc' = "sleep"
    /\ UNCHANGED <<up, pointers, leagues, Status, BlockHash, Votehash,
                   sendBlockAttampt, leageuWaitAttampt, mloop, members, votes,
                   chain, saving, signed>>

VoteCountingTick(o) ==
    /\ Tick(o, "VOTE_COUNTING")
    /\ \E voters \in Answer({GetVoters(o, Current[o] + 1)}, {}) :
       \/ /\ Cardinality(voters) < MinMiner - 1
          /\ SetStatus(o, "REJECT")
          /\ UNCHANGED <<BlockHash, Votehash, ppc>>
       \/ /\ Cardinality(voters) >= MinMiner - 1
          /\ \E h \in FinalBlockHash(voters) : BlockHash' = [BlockHash EXCEPT ![o] = h]
          /\ Votehash' = [Votehash EXCEPT ![o] = voters]
          /\ ppc' = "sleep"
          /\ UNCHANGED Status
    /\ UNCHANGED <<up, pointers, leagues, Current, sendBlockAttampt,
                   leageuWaitAttampt, mloop, members, votes, chain, saving, signed>>

\* *l.BlockHash is dereferenced before it is compared with nil.
SendBlockTick(o) ==
    /\ Tick(o, "SEND_BLOCK")
    /\ up' = (BlockHash[o] # Nil)
    /\ \E found \in Answer({GetBlock(BlockHash[o])}, FALSE) :
          IF BlockHash[o] = Nil THEN UNCHANGED <<Status, sendBlockAttampt>>
          ELSE IF found
          THEN SetStatus(o, "REQ_FAIRNODE_SIGN") /\ sendBlockAttampt' = 0
          ELSE IF sendBlockAttampt + 1 > SEND_BLOCK_TIME_OUT
               THEN SetStatus(o, "REJECT") /\ sendBlockAttampt' = 0
               ELSE sendBlockAttampt' = sendBlockAttampt + 1 /\ UNCHANGED Status
    /\ UNCHANGED <<pointers, leagues, Current, BlockHash, Votehash, ppc,
                   leageuWaitAttampt, mloop, members, votes, chain, saving, signed>>

FinalizeTick(o) ==
    /\ Tick(o, "FINALIZE")
    /\ \E n \in CurrentBlock :
          IF n # Nil
          THEN /\ lastBlock' = n
               /\ Current' = [Current EXCEPT ![o] = n]
               /\ Votehash' = [Votehash EXCEPT ![o] = Nil]
               /\ BlockHash' = [BlockHash EXCEPT ![o] = Nil]
               /\ ppc' = "sleep"
               /\ UNCHANGED <<up, Status, chain>>
          ELSE /\ up' = (BlockHash[o] # Nil)
               /\ blockChain' \in Answer({RemoveBlock(blockChain, BlockHash[o])}, blockChain)
               /\ blockChainRaw' \in Answer({RemoveBlock(blockChainRaw, BlockHash[o])}, blockChainRaw)
               /\ IF BlockHash[o] # Nil THEN SetStatus(o, "REJECT")
                                        ELSE UNCHANGED Status
               /\ UNCHANGED <<lastBlock, Current, Votehash, BlockHash, ppc>>
    /\ UNCHANGED <<currentLeague, pendingLeague, leagues, sendBlockAttampt,
                   leageuWaitAttampt, mloop, members, votes, saving, signed>>

\* Variants: the count is skipped; the round starts over before the vote.
AfterSleepNoCount == [MAKE_LEAGUE |-> "MAKE_JOIN_TX", MAKE_JOIN_TX |-> "MAKE_BLOCK",
    MAKE_BLOCK |-> "LEAGUE_BROADCASTING", LEAGUE_BROADCASTING |-> "VOTE_START",
    VOTE_START |-> "VOTE_COMPLETE", VOTE_COUNTING |-> "VOTE_COMPLETE",
    VOTE_COMPLETE |-> "SEND_BLOCK", REQ_FAIRNODE_SIGN |-> "FINALIZE"]
AfterSleepLoop == [MAKE_LEAGUE |-> "MAKE_JOIN_TX", MAKE_JOIN_TX |-> "MAKE_BLOCK",
    MAKE_BLOCK |-> "MAKE_JOIN_TX", LEAGUE_BROADCASTING |-> "VOTE_START",
    VOTE_START |-> "VOTE_COUNTING", VOTE_COUNTING |-> "VOTE_COMPLETE",
    VOTE_COMPLETE |-> "SEND_BLOCK", REQ_FAIRNODE_SIGN |-> "FINALIZE"]

\* What the loop writes when the sleep of a case is over.
AfterSleep == [MAKE_LEAGUE |-> "MAKE_JOIN_TX", MAKE_JOIN_TX |-> "MAKE_BLOCK",
    MAKE_BLOCK |-> "LEAGUE_BROADCASTING", LEAGUE_BROADCASTING |-> "VOTE_START",
    VOTE_START |-> "VOTE_COUNTING", VOTE_COUNTING |-> "VOTE_COMPLETE",
    VOTE_COMPLETE |-> "SEND_BLOCK", REQ_FAIRNODE_SIGN |-> "FINALIZE"]

Wake(o) ==
    /\ up /\ ppc = "sleep" /\ o = currentLeague /\ Settled
    /\ pstatus \in DOMAIN AfterSleep
    /\ SetStatus(o, AfterSleep[pstatus])
    /\ ppc' = "tick"
    /\ UNCHANGED <<up, pointers, leagues, Current, BlockHash, Votehash, pstatus,
                   sendBlockAttampt, leageuWaitAttampt, mloop, members, votes,
                   chain, saving, signed>>

FinalizeWake ==
    /\ up /\ ppc = "sleep" /\ pstatus = "FINALIZE" /\ Settled
    /\ ppc' = "signal"
    /\ UNCHANGED <<up, pointers, league, pstatus, sendBlockAttampt,
                   leageuWaitAttampt, mloop, members, votes, chain, saving, signed>>

\* makePendingLeagueCh is unbuffered: sender and receiver meet.
Signal ==
    /\ up /\ ppc = "signal" /\ mpc = "select"
    /\ ppc' = "tick" /\ mpc' = "decide"
    /\ UNCHANGED <<up, pointers, league, pstatus, sendBlockAttampt,
                   leageuWaitAttampt, isCur, otpHash, members, votes, chain,
                   saving, signed>>

\* REJECT: the league is deleted and the pending one, if any, takes over.
RejectWake(o) ==
    /\ up /\ ppc = "sleep" /\ pstatus = "REJECT" /\ o = currentLeague /\ Settled
    /\ leagues' = leagues \ {o}
    /\ IF pendingLeague = Nil
       THEN currentLeague' = Nil /\ UNCHANGED <<up, pendingLeague, Current>>
       ELSE IF pendingLeague \in leagues \ {o}
       THEN \E n \in CurrentInfo :
               /\ up' = (n # Nil)
               /\ Current' = IF n = Nil THEN Current
                             ELSE [Current EXCEPT ![pendingLeague] = n]
               /\ currentLeague' = pendingLeague /\ pendingLeague' = Nil
       ELSE UNCHANGED <<up, currentLeague, pendingLeague, Current>>
    /\ \E n \in CurrentBlock : lastBlock' = IF n = Nil THEN lastBlock ELSE n
    /\ ppc' = "tick"
    /\ UNCHANGED <<Status, BlockHash, Votehash, pstatus, sendBlockAttampt,
                   leageuWaitAttampt, mloop, members, votes, chain, saving, signed>>

-----------------------------------------------------------------------------
(***************************************************************************)
(* The gRPC handlers.  A request that fails a check changes nothing and is *)
(* not an action.                                                          *)
(***************************************************************************)

\* A miner whose chain ends in head (or in the genesis block) reports in.
HeartBeat(m, head) ==
    /\ up
    /\ \/ Nil \in CurrentInfo
       \/ \E f \in Newest : \/ f.block = head
                            \/ GetBlock(head) /\ f.block.num - head.num = 1
    /\ active' = active \cup {m}
    /\ UNCHANGED <<up, pointers, league, ploop, mloop, otprnList, leagueList,
                   votes, chain, saving, signed>>

\* cleanOldNode drops a node that has been silent for three minutes.
CleanOldNode(m) ==
    /\ up /\ "silent" \in Faults /\ m \in active
    /\ active' = active \ {m}
    /\ UNCHANGED <<up, pointers, league, ploop, mloop, otprnList, leagueList,
                   votes, chain, saving, signed>>

\* Only the otprn saved last is handed out, and only while its league gathers
\* nodes.  IsJoinOK is a draw from otprn and address: a miner it refuses is
\* one that does not take this step.
RequestOtprn(m) ==
    /\ up /\ m \in active /\ otprnList # <<>>
    /\ LET o == otprnList[Len(otprnList)] IN
       /\ o \in leagues /\ Status[o] = "PENDING"
       /\ leagueList' = [leagueList EXCEPT ![o] = @ \cup {m}]
    /\ UNCHANGED <<up, pointers, league, ploop, mloop, active, otprnList, votes,
                   chain, saving, signed>>

\* The league's status is not consulted: a vote counts whenever it is for the
\* block after Current.
Vote(m, b) ==
    /\ up /\ b.otprn \in leagues
    /\ b.num = Current[b.otprn] + 1
    /\ votes' = votes \cup {[voter |-> m, block |-> b]}
    /\ UNCHANGED <<up, pointers, league, ploop, mloop, members, chain, saving, signed>>

\* SendBlock passes its checks and is about to call SaveFinalBlock.  It
\* dereferences the hashes unchecked: HashBeforeSend.
SendBlock(b, vs) ==
    /\ up /\ b.otprn \in leagues
    /\ Status[b.otprn] = "SEND_BLOCK"
    /\ BlockHash[b.otprn] = b
    /\ Votehash[b.otprn] = vs
    /\ saving' = saving \cup {[block |-> b, voters |-> vs, next |-> "blockChain"]}
    /\ UNCHANGED <<up, pointers, league, ploop, mloop, members, votes, chain, signed>>

\* SaveFinalBlock is two inserts, first the indexed block, then the raw one.
SaveIndexed(s) ==
    /\ up /\ s \in saving /\ s.next = "blockChain"
    /\ blockChain' = Insert(blockChain, [block |-> s.block, voters |-> s.voters])
    /\ saving' = (saving \ {s}) \cup {[s EXCEPT !.next = "blockChainRaw"]}
    /\ UNCHANGED <<up, pointers, league, ploop, mloop, members, votes,
                   blockChainRaw, signed>>

SaveRaw(s) ==
    /\ up /\ s \in saving /\ s.next = "blockChainRaw"
    /\ blockChainRaw' = Insert(blockChainRaw, [block |-> s.block, voters |-> s.voters])
    /\ saving' = saving \ {s}
    /\ UNCHANGED <<up, pointers, league, ploop, mloop, members, votes,
                   blockChain, signed>>

\* Either insert fails; SendBlock returns the error and undoes nothing.
SaveFails(s) ==
    /\ up /\ "dbError" \in Faults /\ s \in saving
    /\ saving' = saving \ {s}
    /\ UNCHANGED <<up, pointers, league, ploop, mloop, members, votes, chain, signed>>

\* Status and database are not consulted, only the two hashes.
RequestFairnodeSign(b, vs) ==
    /\ up /\ b.otprn \in leagues
    /\ BlockHash[b.otprn] = b
    /\ Votehash[b.otprn] = vs
    /\ signed' = signed \cup {[block |-> b, voters |-> vs]}
    /\ UNCHANGED <<up, pointers, league, ploop, mloop, members, votes, chain, saving>>

\* The process stops at any point, takes its memory with it, and starts again
\* as leader: Start reads the last block, roleCheck resets the active nodes.
Restart ==
    /\ "restart" \in Faults
    /\ up' = TRUE
    /\ currentLeague' = Nil /\ pendingLeague' = Nil /\ leagues' = {}
    /\ lastBlock' \in CurrentBlock
    /\ ppc' = "tick" /\ pstatus' = "PENDING"
    /\ sendBlockAttampt' = 0 /\ leageuWaitAttampt' = 0
    /\ mpc' = "select" /\ isCur' = TRUE /\ otpHash' = Nil
    /\ active' = {} /\ saving' = {}
    /\ UNCHANGED <<Status, Current, BlockHash, Votehash, otprnList, leagueList,
                   votes, chain, signed>>

-----------------------------------------------------------------------------
MakeOtprn == MakeOtprnTick \/ NewOtprn \/ NoConfig \/ AddLeague \/ SaveOtprn \/ Decide

ProcessManageLoop ==
    \/ \E o \in Otprn : \/ PendingTick(o) \/ SleepTick(o) \/ MakeJoinTxTick(o)
                        \/ VoteCountingTick(o) \/ SendBlockTick(o)
                        \/ FinalizeTick(o) \/ Wake(o) \/ RejectWake(o)
    \/ FinalizeWake
    \/ Signal

\* The blocks a miner can refer to: those built on the current height.
Candidates == {b \in [otprn : leagues, num : 1 .. MaxHeight, miner : Sealer] :
                   b.num = Current[b.otprn] + 1}

\* A client answers the VOTE_START of a round once; the database absorbs a
\* repeated delivery ($addToSet).
FirstVote(m, b) ==
    \A v \in votes : v.voter = m /\ v.block.otprn = b.otprn => v.block.num # b.num
MayVote(m, b) == Status[b.otprn] \in VotePhases /\ FirstVote(m, b)

Requests ==
    \/ \E m \in Miner : CleanOldNode(m) \/ RequestOtprn(m)
    \/ \E m \in Miner : \E head \in {f.block : f \in blockChain} \cup {ZeroHash} :
          HeartBeat(m, head)
    \/ \E m \in Miner : \E b \in Candidates : MayVote(m, b) /\ Vote(m, b)
    \/ \E o \in leagues : \E b \in {BlockHash[o]} \ {Nil, ZeroHash} :
          SendBlock(b, Votehash[o]) \/ RequestFairnodeSign(b, Votehash[o])
    \/ \E s \in saving : SaveIndexed(s) \/ SaveRaw(s) \/ SaveFails(s)

Next == MakeOtprn \/ ProcessManageLoop \/ Requests \/ Restart

Spec == Init /\ [][Next]_vars

\* Both loops are goroutines that are never blocked for good, and a database
\* call returns.
FairSpec == /\ Spec
            /\ WF_vars(ProcessManageLoop)
            /\ WF_vars(MakeOtprn)
            /\ WF_vars(\E s \in saving : SaveIndexed(s) \/ SaveRaw(s))

-----------------------------------------------------------------------------
\* Every variable has its type.
TypeOK ==
    /\ up \in BOOLEAN
    /\ currentLeague \in Otprn \cup {Nil}
    /\ pendingLeague \in Otprn \cup {Nil}
    /\ leagues \subseteq Otprn
    /\ Status \in [Otprn -> FnStatus]
    /\ Current \in [Otprn -> Nat]
    /\ BlockHash \in [Otprn -> Block \cup {Nil, ZeroHash}]
    /\ Votehash \in [Otprn -> (SUBSET Ballot) \cup {Nil}]
    /\ lastBlock \in Nat \cup {Nil}
    /\ ppc \in {"tick", "sleep", "signal"}
    /\ pstatus \in FnStatus
    /\ sendBlockAttampt \in Nat /\ leageuWaitAttampt \in Nat
    /\ mpc \in {"select", "decide", "fresh", "add", "save"}
    /\ isCur \in BOOLEAN
    /\ otpHash \in Otprn \cup {Nil}
    /\ active \subseteq Miner
    /\ otprnList \in Seq(Otprn)
    /\ leagueList \in [Otprn -> SUBSET Miner]
    /\ votes \subseteq Ballot
    /\ blockChain \subseteq Final \cup BaseFinal
    /\ blockChainRaw \subseteq Final \cup BaseFinal
    /\ saving \subseteq [block : Block, voters : SUBSET Ballot,
                         next : {"blockChain", "blockChainRaw"}]
    /\ signed \subseteq Final

\* f.voters are among the ballots bs, all for f's league and height, at
\* least MinMiner - 1 of them, and no block has more of them than f's.
Elected(bs, f) ==
    /\ f.voters \subseteq bs
    /\ \A v \in f.voters : /\ v.block.otprn = f.block.otprn
                           /\ v.block.num = f.block.num
                           /\ Count(f.voters, v.block) <= Count(f.voters, f.block)
    /\ \E v \in f.voters : v.block = f.block
    /\ Cardinality(f.voters) >= MinMiner - 1

\* Whatever the fairnode has stored as final or signed is an elected block:
\* for any clients, any delays, database errors and restarts, although votes
\* keep arriving after the count and handlers check a league and act later.
OnlyElected ==
    \A f \in (blockChain \cup blockChainRaw \cup signed) \ BaseFinal : Elected(votes, f)

\* The leader's database is an append-only chain of elected blocks, one per
\* height, without gaps: no SendBlock that races with a timeout, no league
\* change and no late vote makes two blocks of one height, and the branch of
\* FINALIZE that removes a block is never taken.
Promise == INSTANCE FinalChain WITH ballots <- votes, final <- blockChain \ BaseFinal
ImplementsFinalChain == Promise!Spec

\* No goroutine panics: not on a nil *l.BlockHash in SEND_BLOCK or FINALIZE,
\* not on a nil CurrentInfo when a pending league takes over, not on the
\* division by epoch/2.
NoPanic == up

\* A league that is collecting the final block has a winner: neither the loop
\* nor SendBlock dereferences a nil BlockHash, although FINALIZE clears it and
\* makeOtprn writes the status of the same league at any time.
HashBeforeSend ==
    \A o \in Otprn : Status[o] \in {"VOTE_COMPLETE", "SEND_BLOCK"} => BlockHash[o] # Nil

\* The league pointers never dangle: outside the window between setting the
\* pointer and addLeague, a pointer names a league of the table.  A dangling
\* currentLeague stops both loops for ever.
PointersResolve ==
    /\ currentLeague # Nil /\ ~(mpc = "add" /\ isCur) => currentLeague \in leagues
    /\ pendingLeague # Nil /\ ~(mpc = "add" /\ ~isCur) => pendingLeague \in leagues

\* The order in which the clients' state machine expects the statuses.
RoundOrder == <<"MAKE_JOIN_TX", "MAKE_BLOCK", "LEAGUE_BROADCASTING", "VOTE_START",
                "VOTE_COUNTING", "VOTE_COMPLETE", "SEND_BLOCK",
                "REQ_FAIRNODE_SIGN", "FINALIZE">>

Follows(s, t) ==
    \/ s = "NONE" /\ t = "PENDING"
    \/ s = "PENDING" /\ t \in {"MAKE_LEAGUE", "REJECT"}
    \/ s = "MAKE_LEAGUE" /\ t = "MAKE_JOIN_TX"
    \/ \E i \in 1 .. 8 : s = RoundOrder[i] /\ t = RoundOrder[i + 1]
    \/ s \in {"VOTE_COUNTING", "SEND_BLOCK"} /\ t = "REJECT"
    \/ s = "FINALIZE" /\ t \in {"MAKE_JOIN_TX", "REJECT"}

\* The two goroutines that write a league's status without a lock never make
\* it skip or repeat a phase of the round: the second signal of a FINALIZE
\* seen twice lands while the status is still what it writes.
StatusInOrder ==
    [][\A o \in Otprn : Status'[o] # Status[o] => Follows(Status[o], Status'[o])]_Status

\* A league lives for one term: it is given up after exactly those blocks whose
\* number is a multiple of Epoch, whatever order the two loops run in
\* (types.go:52 "league change term").
TermChange ==
    [][\A o \in Otprn :
          Status[o] = "FINALIZE" /\ Status'[o] # "FINALIZE" /\ Epoch # 0 /\ Current[o] # 0
              => (Status'[o] = "REJECT") = (Current[o] % Epoch = 0)]_vars

\* A league that is current finishes a block or is replaced: it is not stuck
\* waiting for nodes, votes or a block.
LeagueProgress ==
    \A o \in Otprn : (currentLeague = o) ~> (currentLeague # o \/ Status[o] = "FINALIZE")

\* Every finished round is answered over makePendingLeagueCh: the league goes
\* on with the next block or ends.
FinalizeAnswered ==
    \A o \in Otprn : (currentLeague = o /\ Status[o] = "FINALIZE")
                         ~> Status[o] \in {"MAKE_JOIN_TX", "REJECT"}

=============================================================================
