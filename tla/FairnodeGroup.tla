---------------------------- MODULE FairnodeGroup ----------------------------
(***************************************************************************)
(* A leader fairnode with one follower on the same database.  The follower *)
(* mirrors the leader's leagues from the messages of SyncController        *)
(* (fairnode/fairsync), once a second, and answers miners with what it has *)
(* mirrored: processManageLoopFollower of fairnode/fairnode.go.  When the  *)
(* leader dies the follower takes over (FnSync.tla is about who does).     *)
(***************************************************************************)
EXTENDS Fairnode

CONSTANT GroupFaults    \* which of {"skip", "late", "takeover"} happen

ASSUME GroupAssumption == GroupFaults \subseteq {"skip", "late", "takeover"}

VARIABLES
    follows,        \* the follower loop runs
    fLeagues, fStatus, fCurrent, fBlockHash, fVotehash,  \* its league table
    fLastBlock,     \* its fn.lastBlock
    dHash,          \* the otprn it has deleted last
    message,        \* what is left of the message it is handling
    gone            \* history: the leagues it has deleted on REJECT

mirror == <<fLeagues, fStatus, fCurrent, fBlockHash, fVotehash>>
fvars  == <<follows, mirror, fLastBlock, dHash, message, gone>>
gvars  == <<vars, fvars>>

GroupInit ==
    /\ Init
    /\ follows = TRUE
    /\ fLeagues = {}
    /\ fStatus = Status /\ fCurrent = Current
    /\ fBlockHash = BlockHash /\ fVotehash = Votehash
    /\ fLastBlock = lastBlock
    /\ dHash = Nil /\ gone = {}
    /\ message = <<>>

-----------------------------------------------------------------------------
\* SyncController sends the leagues with their statuses, makeMsg reading them
\* through Leagues(); the next message waits until this one is handled.
SyncController ==
    /\ up /\ follows /\ message = <<>>
    /\ message' = [o \in leagues |-> Status[o]]
    /\ UNCHANGED <<vars, follows, mirror, fLastBlock, dHash, gone>>

\* The height a new league of the follower starts from.
fLastNumber == IF fLastBlock = Nil THEN 0 ELSE fLastBlock

\* addLeague on the follower, for a league whose otprn is in the database.
FollowerAdd(o) ==
    /\ o \notin fLeagues
    /\ LET found == o \in {otprnList[i] : i \in DOMAIN otprnList} IN
       IF found /\ dHash # o
       THEN /\ fLeagues' = fLeagues \cup {o}
            /\ fStatus' = [fStatus EXCEPT ![o] = "PENDING"]
            /\ fCurrent' = [fCurrent EXCEPT ![o] = fLastNumber]
            /\ fBlockHash' = [fBlockHash EXCEPT ![o] = Nil]
            /\ fVotehash' = [fVotehash EXCEPT ![o] = Nil]
       ELSE UNCHANGED mirror
    /\ UNCHANGED <<fLastBlock, dHash, gone>>

\* The same votes have the same winner wherever they are counted: FinalBlock.
Winner(voters) == CHOOSE h \in FinalBlockHash(voters) : TRUE

\* Variant: any block with a vote wins.
FollowerRoundAny(o, st) ==
    /\ fStatus' = [fStatus EXCEPT ![o] = st]
    /\ LET voters == GetVoters(o, fCurrent[o] + 1) IN
       IF st = "VOTE_COUNTING" /\ voters # {}
       THEN /\ \E v \in voters : fBlockHash' = [fBlockHash EXCEPT ![o] = v.block]
            /\ fVotehash' = [fVotehash EXCEPT ![o] = voters]
       ELSE UNCHANGED <<fBlockHash, fVotehash>>
    /\ UNCHANGED <<fLeagues, fCurrent, fLastBlock, dHash, gone>>

\* MAKE_JOIN_TX takes the height, VOTE_COUNTING counts the votes itself.
FollowerRound(o, st) ==
    /\ fStatus' = [fStatus EXCEPT ![o] = st]
    /\ fCurrent' = IF st = "MAKE_JOIN_TX" /\ fLastBlock # Nil
                   THEN [fCurrent EXCEPT ![o] = fLastBlock] ELSE fCurrent
    /\ LET voters == GetVoters(o, fCurrent[o] + 1) IN
       IF st = "VOTE_COUNTING" /\ Cardinality(voters) >= MinMiner - 1
       THEN /\ fBlockHash' = [fBlockHash EXCEPT ![o] = Winner(voters)]
            /\ fVotehash' = [fVotehash EXCEPT ![o] = voters]
       ELSE UNCHANGED <<fBlockHash, fVotehash>>
    /\ UNCHANGED <<fLeagues, fLastBlock, dHash, gone>>

\* Variant: only the league's height is updated.
FollowerFinalizeNoLast(o) ==
    /\ fStatus' = [fStatus EXCEPT ![o] = "FINALIZE"]
    /\ \E n \in CurrentBlock \ {Nil} : fCurrent' = [fCurrent EXCEPT ![o] = n]
    /\ UNCHANGED <<fLeagues, fBlockHash, fVotehash, fLastBlock, dHash, gone>>

FollowerFinalize(o) ==
    /\ fStatus' = [fStatus EXCEPT ![o] = "FINALIZE"]
    /\ \E n \in CurrentBlock :
          IF n = Nil
          THEN UNCHANGED <<fLastBlock, fCurrent, fBlockHash, fVotehash>>
          ELSE /\ fLastBlock' = n
               /\ fCurrent' = [fCurrent EXCEPT ![o] = n]
               /\ fVotehash' = [fVotehash EXCEPT ![o] = Nil]
               /\ fBlockHash' = [fBlockHash EXCEPT ![o] = Nil]
    /\ UNCHANGED <<fLeagues, dHash, gone>>

\* Variant: the otprn deleted last is not remembered.
FollowerRejectForgets(o) ==
    /\ fStatus' = [fStatus EXCEPT ![o] = "REJECT"]
    /\ fLeagues' = fLeagues \ {o}
    /\ gone' = gone \cup {o}
    /\ UNCHANGED <<dHash, fCurrent, fBlockHash, fVotehash, fLastBlock>>

FollowerReject(o) ==
    /\ fStatus' = [fStatus EXCEPT ![o] = "REJECT"]
    /\ fLeagues' = fLeagues \ {o}
    /\ dHash' = o
    /\ gone' = gone \cup {o}
    /\ UNCHANGED <<fCurrent, fBlockHash, fVotehash, fLastBlock>>

\* One turn of the loop over the leagues of a message, in any order.
HandleLeague(o) ==
    /\ follows /\ o \in DOMAIN message
    /\ \/ FollowerAdd(o)
       \/ /\ o \in fLeagues
          /\ CASE message[o] = "FINALIZE" -> FollowerFinalize(o)
               [] message[o] = "REJECT"   -> FollowerReject(o)
               [] OTHER                   -> FollowerRound(o, message[o])
    /\ message' = [p \in DOMAIN message \ {o} |-> message[p]]
    /\ UNCHANGED <<vars, follows>>

-----------------------------------------------------------------------------
\* The sleeps of the leader's phases are as long as the follower's period or
\* longer: it sees the phases in which the loop sleeps, unless it skips some.
Slept == {"MAKE_LEAGUE", "MAKE_JOIN_TX", "MAKE_BLOCK", "LEAGUE_BROADCASTING",
          "VOTE_START", "VOTE_COUNTING", "VOTE_COMPLETE", "REQ_FAIRNODE_SIGN",
          "FINALIZE", "REJECT"}
Sampled ==
    \/ ~follows \/ "skip" \in GroupFaults
    \/ /\ message = <<>>
       /\ \A o \in leagues :
              Status[o] \in Slept => fStatus[o] = Status[o]

\* Unless requests come late, the leader does not give up on a block that is
\* being saved, and a miner connected to the follower acts in the phase in
\* which the leader is.
GivesUp == \E o \in leagues : Status[o] = "SEND_BLOCK" /\ Status'[o] = "REJECT"
InPhase(o) == "late" \in GroupFaults \/ (o \in leagues /\ fStatus[o] = Status[o])

\* A step of the leader's process.
LeaderStep ==
    /\ Next
    /\ ppc = "sleep" /\ ppc' # "sleep" => Sampled
    /\ \A o \in leagues : BlockHash'[o] \notin {BlockHash[o], Nil} =>
                              BlockHash'[o] = Winner(Votehash'[o])
    /\ GivesUp => "late" \in GroupFaults \/ saving = {}
    /\ UNCHANGED fvars

\* The gRPC service of the follower: the handlers of the leader on the leagues
\* it has mirrored.
FollowerVote(m, b) ==
    /\ b.num = fCurrent[b.otprn] + 1
    /\ fStatus[b.otprn] \in VotePhases /\ FirstVote(m, b)
    /\ votes' = votes \cup {[voter |-> m, block |-> b]}
    /\ UNCHANGED <<saving, signed>>

FollowerSendBlock(b, vs) ==
    /\ b.otprn \in fLeagues /\ fStatus[b.otprn] = "SEND_BLOCK"
    /\ fBlockHash[b.otprn] = b /\ fVotehash[b.otprn] = vs
    /\ saving' = saving \cup {[block |-> b, voters |-> vs, next |-> "blockChain"]}
    /\ UNCHANGED <<votes, signed>>

FollowerSign(b, vs) ==
    /\ b.otprn \in fLeagues
    /\ fBlockHash[b.otprn] = b /\ fVotehash[b.otprn] = vs
    /\ signed' = signed \cup {[block |-> b, voters |-> vs]}
    /\ UNCHANGED <<votes, saving>>

\* A miner that is connected to the follower votes, sends its block or asks
\* for a signature.
FollowerRequests ==
    /\ follows
    /\ \/ \E m \in Miner : \E b \in [otprn : fLeagues, num : 1 .. MaxHeight, miner : Sealer] :
             InPhase(b.otprn) /\ FollowerVote(m, b)
       \/ \E o \in fLeagues : \E b \in {fBlockHash[o]} \ {Nil, ZeroHash} :
             InPhase(o) /\ (FollowerSendBlock(b, fVotehash[o]) \/ FollowerSign(b, fVotehash[o]))
    /\ UNCHANGED <<up, pointers, league, ploop, mloop, members, chain, fvars>>

\* The leader dies and the follower becomes leader: its loop drops all leagues
\* and ends, roleCheck resets the active nodes and starts the two loops.  It
\* keeps the last block it knew.  A SaveFinalBlock of the leader is cut short.
Takeover ==
    /\ "takeover" \in GroupFaults /\ follows
    /\ follows' = FALSE /\ fLeagues' = {} /\ message' = <<>>
    /\ up' = TRUE
    /\ currentLeague' = Nil /\ pendingLeague' = Nil /\ leagues' = {}
    /\ lastBlock' = fLastBlock
    /\ ppc' = "tick" /\ pstatus' = "PENDING"
    /\ sendBlockAttampt' = 0 /\ leageuWaitAttampt' = 0
    /\ mpc' = "select" /\ isCur' = TRUE /\ otpHash' = Nil
    /\ active' = {} /\ saving' \in SUBSET saving
    /\ UNCHANGED <<Status, Current, BlockHash, Votehash, otprnList, leagueList,
                   votes, chain, signed, fStatus, fCurrent, fBlockHash,
                   fVotehash, fLastBlock, dHash, gone>>

GroupNext ==
    \/ LeaderStep
    \/ SyncController
    \/ \E o \in Otprn : HandleLeague(o)
    \/ FollowerRequests
    \/ Takeover

GroupSpec == GroupInit /\ [][GroupNext]_gvars

-----------------------------------------------------------------------------
\* The follower never announces another winner than the leader, and it is
\* never ahead of the leader's height: a miner gets the same answer from both
\* or none.
FollowerAgrees ==
    follows => \A o \in leagues \cap fLeagues :
        fStatus[o] = Status[o] /\ message = <<>> =>
            /\ Status[o] # "FINALIZE" => fCurrent[o] <= Current[o]
            /\ Status[o] \in {"VOTE_COMPLETE", "SEND_BLOCK", "REQ_FAIRNODE_SIGN"}
                   => \/ fVotehash[o] = Nil
                      \/ fVotehash[o] = Votehash[o] /\ fBlockHash[o] = BlockHash[o]

\* The follower never answers for a league that the leader has given up and
\* that it has already deleted: messages that still carry the league do not
\* bring it back.
GoneStaysGone == gone \cap fLeagues = {}

\* A block that went through FINALIZE is the follower's last block too: after
\* a takeover the new leader does not start below it.  (A block saved while the
\* leader was giving up its league is not: the leader reads it again on REJECT,
\* the follower does not.)
FinalizedIsKnown ==
    follows /\ ppc = "signal" => fLastBlock = lastBlock

=============================================================================
