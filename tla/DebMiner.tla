------------------------------ MODULE DebMiner ------------------------------
(***************************************************************************)
(* One miner in the leagues of a fairnode: the goroutines of DebClient     *)
(* (consensus/deb/client) and of the worker (miner/worker.go), and the     *)
(* channels between them.  The client runs a status loop per otprn and a   *)
(* reqSealConfirm per submitted block; the worker runs leagueStatusLoop,   *)
(* newWorkLoop, mainLoop with taskLoop, and resultLoop.  All channels are  *)
(* unbuffered but startCh (1), resultCh and chainHeadCh.                   *)
(*                                                                         *)
(* The fairnode appears as the miner sees it: a status that follows        *)
(* Follows of module Fairnode, an elected block, a stored block.  The      *)
(* stream of statuses is sampled once a second, about as long as a phase,  *)
(* and queued while the client is busy.                                    *)
(***************************************************************************)
EXTENDS Naturals, Sequences

CONSTANTS
    Leagues,    \* bound: leagues 1 .. Leagues follow each other
    MaxRounds,  \* bound: rounds begun
    Maker,      \* coinbases, ordered by the weight of their blocks
    Me,         \* the coinbase of this miner
    MaxLag,     \* samples the client may be behind
    Scenarios,  \* the faults considered together, with bounds of their own
    Nil

FaultKinds == {"skip",  \* a phase ends between two samples
               "slow",  \* a phase ends before this miner is done with it
               "lose",  \* the league elects what this miner did not vote for
               "late",  \* votes arrive after the count
               "pool",  \* no join transaction, or nothing to put in a block
               "race"}  \* resultLoop overtakes leagueStatusLoop at submitBlockCh

ASSUME MinerAssumption ==
    /\ Leagues \in Nat \ {0}
    /\ MaxRounds \in Nat
    /\ Maker \subseteq Nat /\ Me \in Maker
    /\ MaxLag \in Nat
    /\ Scenarios \subseteq [faults : SUBSET FaultKinds, leagues : 1 .. Leagues,
                            rounds : 0 .. MaxRounds]

Otprn == 1 .. Leagues
Blocks == [otprn : Otprn, number : 1 .. MaxRounds, maker : Maker]

\* A block with its voters: what the hashes of a league or a seal stand for.
Ballots == [block : Blocks, votes : {"counted", "late"}]

ASSUME NilAssumption == Nil \notin Ballots

Round == <<"MAKE_JOIN_TX", "MAKE_BLOCK", "LEAGUE_BROADCASTING", "VOTE_START",
           "VOTE_COUNTING", "VOTE_COMPLETE", "SEND_BLOCK",
           "REQ_FAIRNODE_SIGN", "FINALIZE">>

VARIABLES
    scenario,   \* what goes wrong in this behaviour, and its bounds
    \* the fairnode
    league, status, current,
    rounds,     \* rounds begun
    elected,    \* BlockHash and Votehash of the league, or Nil
    stored,     \* SaveFinalBlock has the elected block
    finals,     \* the blocks of the rounds that ended, with their votes
    ballot,     \* what this miner voted for in this round
    \* DebClient
    otprns,     \* the keys of dc.otprn
    stream,     \* samples sent and not yet received, per otprn
    loop,       \* where receiveFairnodeStatusLoop stands
    stCode,     \* its stCode
    voters,     \* the answer of requestVoteResult it passes on
    confirm,    \* the reqSealConfirm goroutines
    \* worker
    fnStatus,
    lsl,        \* what leagueStatusLoop is blocked on, for which otprn
    startCh, chainHeadCh, resultCh,
    newWork,    \* newWorkLoop: "idle", "clear" or "commit"
    work,       \* mainLoop has a newWorkReq
    sealing,    \* the block taskLoop has given to the engine, or Nil
    result,     \* resultLoop: "idle", or on its way to "read" or in a "send" on
    sendCh,     \* the submitBlockCh it has read
    submitBlockCh,
    possibleWinning, possibleFinalBlock, finalBlock,
    workNumber, \* w.current.header.Number
    engineOtprn,
    joinTx,     \* the pool holds this miner's join transaction
    chain       \* the canonical chain of this node: blocks with votes and
                \* what their fairnode signature signs

fairnode == <<league, status, current, rounds, elected, stored, finals, ballot>>
client == <<otprns, stream, loop, stCode, voters, confirm>>
channels == <<startCh, chainHeadCh, resultCh, submitBlockCh>>
blocks == <<possibleWinning, possibleFinalBlock, finalBlock>>
worker == <<fnStatus, lsl, newWork, work, sealing, result, sendCh, workNumber, engineOtprn>>
node == <<joinTx, chain>>
vars == <<fairnode, client, channels, blocks, worker, node>>

faults == scenario.faults

Idle == [at |-> "idle", o |-> 0, x |-> Nil]

Init ==
    /\ scenario \in Scenarios
    /\ league = 1 /\ status = "PENDING" /\ current = 0 /\ rounds = 0
    /\ elected = Nil /\ stored = FALSE /\ finals = <<>> /\ ballot = Nil
    /\ otprns = {}
    /\ stream = [o \in Otprn |-> <<>>]
    /\ loop = [o \in Otprn |-> "none"]
    /\ stCode = [o \in Otprn |-> "PENDING"]
    /\ voters = [o \in Otprn |-> Nil]
    /\ confirm = {}
    /\ fnStatus = "PENDING" /\ lsl = Idle
    /\ startCh = FALSE /\ chainHeadCh = 0 /\ resultCh = <<>>
    /\ newWork = "idle" /\ work = FALSE /\ sealing = Nil
    /\ result = "idle" /\ sendCh = Nil
    /\ submitBlockCh = Nil
    /\ possibleWinning = Nil /\ possibleFinalBlock = Nil /\ finalBlock = Nil
    /\ workNumber = 0 /\ engineOtprn = 0
    /\ joinTx = FALSE /\ chain = <<>>

-----------------------------------------------------------------------------
(* The fairnode and the network, as far as this miner notices them.        *)

MoreRounds == rounds < scenario.rounds

Follows(s) ==
    CASE s = "PENDING"     -> (IF MoreRounds THEN {"MAKE_LEAGUE"} ELSE {})
                                 \cup {"REJECT"}
      [] s = "MAKE_LEAGUE" -> {"MAKE_JOIN_TX"}
      [] s = "FINALIZE"    -> (IF MoreRounds THEN {"MAKE_JOIN_TX"} ELSE {})
                                 \cup {"REJECT"}
      [] s = "REJECT"      -> IF league < scenario.leagues THEN {"PENDING"} ELSE {}
      [] OTHER -> {Round[i + 1] : i \in {i \in 1 .. 8 : Round[i] = s}}
                     \cup (IF s \in {"VOTE_COUNTING", "SEND_BLOCK"} /\ "lose" \in faults
                           THEN {"REJECT"} ELSE {})

\* The channel the client has made for the answer to VOTE_COMPLETE.
submitTo(o) == <<o, voters[o].block.number>>

\* The status loop waits for an answer that nobody is going to send.
Hangs(o) ==
    \/ loop[o] = "vote" /\ ~(lsl.at = "vote" /\ lsl.o = o)
    \/ loop[o] = "submit" /\ ~(\/ lsl.at = "voteResult" /\ lsl.o = o
                               \/ result = "read"
                               \/ result = "send" /\ sendCh = submitTo(o))

\* A goroutine of this miner has something to do in the present phase, or a
\* block is still on its way to a node that is not in the league.
Busy ==
    \/ loop[league] \in {"none", "end"} /\ Len(chain) < Len(finals)
    \/ \E o \in Otprn : (stream[o] # <<>> /\ ~Hangs(o)) \/ loop[o] = "send"
    \/ lsl # Idle \/ startCh \/ chainHeadCh > 0 \/ resultCh # <<>>
    \/ newWork # "idle" \/ work \/ sealing # Nil \/ result = "read"
    \/ \E c \in confirm : \/ c.at \in {"open", "feed"}
                          \/ c.at = "recv" /\ status \in {"SEND_BLOCK",
                                "REQ_FAIRNODE_SIGN"} /\ c.code # status

\* ProcessController sends the new status to the open stream of its league,
\* unless it wakes up too late for it; the last one, REJECT, it always finds.
\* What a loop that hangs will never read is left out.
Samples(s) ==
    IF loop[league] \notin {"none", "end"} /\ ~Hangs(league) /\ s # "PENDING"
    THEN {Append(stream[league], [code |-> s, num |-> current])}
             \cup (IF "skip" \in faults /\ s # "REJECT" THEN {stream[league]} ELSE {})
    ELSE {stream[league]}

\* What ValidationFinalBlockHash finds among the votes.
Winners ==
    {b \in Blocks : /\ b.otprn = league /\ b.number = current + 1
                    /\ "lose" \in faults \/ ballot \in {b, Nil}}

\* processManageLoop moves the league on.
Advance ==
    /\ "slow" \in faults \/ ~Busy
    /\ Len(stream[league]) <= MaxLag
    /\ \E s \in Follows(status) :
         /\ s = "REQ_FAIRNODE_SIGN" => stored
         /\ status = "SEND_BLOCK" /\ s = "REJECT" => ~stored
         /\ status' = s
         /\ league' = IF s = "PENDING" THEN league + 1 ELSE league
         /\ current' = IF s = "FINALIZE" THEN current + 1 ELSE current
         /\ rounds' = IF s = "MAKE_JOIN_TX" THEN rounds + 1 ELSE rounds
         /\ \/ s = "VOTE_COMPLETE" /\ \E b \in Winners :
                   elected' = [block |-> b, votes |-> "counted"]
            \/ s # "VOTE_COMPLETE"
                   /\ elected' = IF s \in {"FINALIZE", "REJECT"} THEN Nil ELSE elected
         /\ finals' = IF s = "FINALIZE" THEN Append(finals, elected) ELSE finals
         /\ stored' = (stored /\ s # "FINALIZE")
         /\ ballot' = IF s \in {"VOTE_COMPLETE", "REJECT"} THEN Nil ELSE ballot
         /\ \E q \in Samples(s) : stream' = [stream EXCEPT ![league] = q]
    /\ UNCHANGED <<otprns, loop, stCode, voters, confirm, channels, blocks, worker, node>>

\* Another member sends the elected block.
PeerSends ==
    /\ status = "SEND_BLOCK" /\ ~stored
    /\ stored' = TRUE
    /\ UNCHANGED <<league, status, current, rounds, elected, finals, ballot, client,
                   channels, blocks, worker, node>>

\* The block of a finished round arrives from a peer and is inserted.
Import ==
    /\ Len(chain) < Len(finals)
    /\ chain' = LET f == finals[Len(chain) + 1]
               IN  Append(chain, [sealed |-> f, sign |-> f])
    /\ chainHeadCh' = chainHeadCh + 1
    /\ joinTx' = FALSE
    /\ UNCHANGED <<fairnode, client, startCh, resultCh, submitBlockCh, blocks, worker>>

-----------------------------------------------------------------------------
(* DebClient.                                                              *)

\* requestOtprn: RequestOtprn answers with the newest otprn while its league
\* is pending; a new one gets a status loop.
requestOtprn(o) ==
    /\ \/ o = league /\ status = "PENDING"
       \/ o = league + 1
    /\ loop[o] = "none" /\ o \notin otprns
    /\ otprns' = otprns \cup {o}
    /\ loop' = [loop EXCEPT ![o] = "recv"]
    /\ UNCHANGED <<fairnode, stream, stCode, voters, confirm, channels, blocks,
                   worker, node>>

\* requestVoteResult: GetVoters of the height after Current; a call that
\* fails, or comes when the round is over, gives nothing.
VoteResults(o) ==
    IF o # league \/ elected = Nil THEN {Nil}
    ELSE {elected} \cup (IF "late" \in faults
                         THEN {Nil} \cup {[block |-> b, votes |-> "late"] : b \in Winners}
                         ELSE {})

\* receiveFairnodeStatusLoop: stream.Recv and the cases of the switch that do
\* not involve the worker.  After REJECT the server closes the stream.
statusRecv(o) ==
    /\ loop[o] = "recv" /\ stream[o] # <<>>
    /\ LET in == Head(stream[o])
           at(s) == loop' = [loop EXCEPT ![o] = s]
       IN /\ stream' = [stream EXCEPT ![o] = Tail(@)]
          /\ stCode' = [stCode EXCEPT ![o] = in.code]
          /\ otprns' = IF in.code = "REJECT" THEN otprns \ {o} ELSE otprns
          /\ engineOtprn' = IF in.code = "MAKE_LEAGUE" THEN o ELSE engineOtprn
          /\ \/ in.code \in {"MAKE_BLOCK", "LEAGUE_BROADCASTING", "VOTE_START", "FINALIZE"}
                /\ in.code # stCode[o] /\ at("send") /\ UNCHANGED <<voters, joinTx>>
             \/ in.code = "VOTE_COMPLETE" /\ in.code # stCode[o]
                /\ \E v \in VoteResults(o) : voters' = [voters EXCEPT ![o] = v]
                /\ at(IF voters'[o] = Nil THEN "recv" ELSE "send")
                /\ UNCHANGED joinTx
             \/ in.code = "MAKE_JOIN_TX" /\ in.code # stCode[o] /\ UNCHANGED voters
                /\ \/ in.num = Len(chain) /\ joinTx' = TRUE /\ at("recv")
                   \/ /\ in.num # Len(chain) \/ "pool" \in faults
                      /\ joinTx' = joinTx /\ at("end")
             \/ in.code = "REJECT" /\ at("end") /\ UNCHANGED <<voters, joinTx>>
             \/ /\ \/ in.code \in {"MAKE_LEAGUE", "VOTE_COUNTING", "SEND_BLOCK",
                                   "REQ_FAIRNODE_SIGN"}
                   \/ in.code = stCode[o]
                /\ UNCHANGED <<loop, voters, joinTx>>
    /\ UNCHANGED <<fairnode, confirm, channels, blocks, fnStatus, lsl, newWork, work, sealing,
                   result, sendCh, workNumber, chain>>

\* statusFeed.Send hands the event to leagueStatusLoop, which is in its
\* select; the client then waits for an answer to VOTE_START and VOTE_COMPLETE.
statusFeedSend(o) ==
    /\ loop[o] = "send" /\ lsl = Idle
    /\ fnStatus' = stCode[o]
    /\ engineOtprn' = IF stCode[o] = "MAKE_BLOCK" THEN o ELSE engineOtprn
    /\ lsl' = LET to(s, x) == [at |-> s, o |-> o, x |-> x]
              IN  CASE stCode[o] = "MAKE_BLOCK"          -> to("start", Nil)
                    [] stCode[o] = "LEAGUE_BROADCASTING" -> to("broadcast", Nil)
                    [] stCode[o] = "VOTE_START" /\ possibleWinning # Nil ->
                           to("vote", possibleWinning)
                    [] stCode[o] = "VOTE_COMPLETE"       -> to("voteResult", voters[o])
                    [] stCode[o] = "FINALIZE" /\ finalBlock # Nil -> to("finalize", Nil)
                    [] OTHER -> Idle
    /\ loop' = [loop EXCEPT ![o] = CASE stCode[o] = "VOTE_START"    -> "vote"
                                     [] stCode[o] = "VOTE_COMPLETE" -> "submit"
                                     [] OTHER -> "recv"]
    /\ UNCHANGED <<fairnode, otprns, stream, stCode, voters, confirm, channels, blocks,
                   newWork, work, sealing, result, sendCh, workNumber, node>>

\* voteCh: the client receives the block and calls Vote, which counts it if
\* the league and the height are right.
vote(o) ==
    /\ lsl.at = "vote" /\ lsl.o = o /\ loop[o] = "vote"
    /\ ballot' = IF /\ lsl.x.otprn = league /\ lsl.x.number = current + 1
                    /\ status \in {"VOTE_START", "VOTE_COUNTING"}
                 THEN lsl.x ELSE ballot
    /\ lsl' = Idle
    /\ loop' = [loop EXCEPT ![o] = "recv"]
    /\ UNCHANGED <<league, status, current, rounds, elected, stored, finals, otprns, stream,
                   stCode, voters, confirm, channels, blocks, fnStatus, newWork, work, sealing,
                   result, sendCh, workNumber, engineOtprn, node>>

\* reqSealConfirm: SealConfirm is refused unless both hashes are the league's.
confirmOpen(c) ==
    /\ c.at = "open"
    /\ confirm' = (confirm \ {c}) \cup
                     (IF c.o = league /\ c.sealed = elected
                      THEN {[c EXCEPT !.at = "recv"]} ELSE {})
    /\ UNCHANGED <<fairnode, otprns, stream, loop, stCode, voters, channels, blocks,
                   worker, node>>

\* The stream says SEND_BLOCK: sendBlock, which SendBlock stores.
sendBlock(c) ==
    /\ c.at = "recv" /\ c.o = league /\ status = "SEND_BLOCK" /\ c.code # status
    /\ stored' = TRUE
    /\ confirm' = (confirm \ {c}) \cup {[c EXCEPT !.code = "SEND_BLOCK"]}
    /\ UNCHANGED <<league, status, current, rounds, elected, finals, ballot, otprns, stream,
                   loop, stCode, voters, channels, blocks, worker, node>>

\* The stream says REQ_FAIRNODE_SIGN: requestFairnodeSign.  If that call comes
\* too late it is not repeated, because stCode has changed already.
requestFairnodeSign(c) ==
    /\ c.at = "recv" /\ c.o = league /\ status = "REQ_FAIRNODE_SIGN" /\ c.code # status
    /\ \E ok \in IF "slow" \in faults THEN BOOLEAN ELSE {TRUE} :
         confirm' = (confirm \ {c}) \cup {[c EXCEPT !.code = "REQ_FAIRNODE_SIGN",
                                                   !.at = IF ok THEN "feed" ELSE "recv"]}
    /\ UNCHANGED <<fairnode, otprns, stream, loop, stCode, voters, channels, blocks,
                   worker, node>>

\* SealConfirm returns in FINALIZE and REJECT.
confirmEnd(c) ==
    /\ c.at = "recv" /\ (c.o # league \/ status \in {"FINALIZE", "REJECT"})
    /\ confirm' = confirm \ {c}
    /\ UNCHANGED <<fairnode, otprns, stream, loop, stCode, voters, channels, blocks,
                   worker, node>>

\* statusFeed.Send of the signature.
confirmFeedSend(c) ==
    /\ c.at = "feed" /\ lsl = Idle
    /\ fnStatus' = "REQ_FAIRNODE_SIGN"
    /\ lsl' = [at |-> "fnSign", o |-> c.o, x |-> c.sealed]
    /\ confirm' = confirm \ {c}
    /\ UNCHANGED <<fairnode, otprns, stream, loop, stCode, voters, channels, blocks,
                   newWork, work, sealing, result, sendCh, workNumber, engineOtprn, node>>

-----------------------------------------------------------------------------
(* leagueStatusLoop, when it waits for the other goroutines of the worker. *)

lslUnchanged == UNCHANGED <<fairnode, client, fnStatus, newWork, work, sealing,
                            workNumber, engineOtprn>>

startSend ==
    /\ lsl.at = "start" /\ ~startCh
    /\ startCh' = TRUE /\ lsl' = Idle
    /\ lslUnchanged /\ UNCHANGED <<chainHeadCh, resultCh, submitBlockCh, blocks, result, sendCh, node>>

\* Variant: the channel is not stored.
setSubmitBlockChKept ==
    /\ lsl.at = "setSubmit"
    /\ lsl' = Idle
    /\ lslUnchanged /\ UNCHANGED <<channels, blocks, result, sendCh, node>>

\* After voteResultCh leagueStatusLoop stores the channel of the answer.
setSubmitBlockCh ==
    /\ lsl.at = "setSubmit"
    /\ submitBlockCh' = submitTo(lsl.o) /\ lsl' = Idle
    /\ lslUnchanged /\ UNCHANGED <<startCh, chainHeadCh, resultCh, blocks, result, sendCh, node>>

-----------------------------------------------------------------------------
(* resultLoop.                                                             *)

\* leagueBroadCastCh: the preferred block goes to the peers.
leagueBroadCast ==
    /\ result = "idle" /\ lsl.at = "broadcast"
    /\ lsl' = Idle
    /\ lslUnchanged /\ UNCHANGED <<channels, blocks, result, sendCh, node>>

\* resultCh: the own block, if the phase is still MAKE_BLOCK.
takeResult ==
    /\ result = "idle" /\ resultCh # <<>>
    /\ resultCh' = Tail(resultCh)
    /\ possibleWinning' = IF fnStatus = "MAKE_BLOCK" THEN Head(resultCh) ELSE possibleWinning
    /\ lslUnchanged
    /\ UNCHANGED <<lsl, startCh, chainHeadCh, submitBlockCh, possibleFinalBlock,
                   finalBlock, result, sendCh, node>>

\* SelectWinningBlock, with the weight of the blocks.
SelectWinningBlock(p, r) == IF p = Nil \/ r.maker > p.maker THEN r ELSE p

\* leagueBlockCh: a block of another member that passes VerifyHeader and
\* ValidationLeagueBlock.
takeLeagueBlock(b) ==
    /\ result = "idle" /\ fnStatus \in {"MAKE_BLOCK", "LEAGUE_BROADCASTING"}
    /\ b.maker # Me /\ b.number = Len(chain) + 1 /\ b.otprn = engineOtprn
    /\ SelectWinningBlock(possibleWinning, b) # possibleWinning
    /\ possibleWinning' = SelectWinningBlock(possibleWinning, b)
    /\ lslUnchanged
    /\ UNCHANGED <<lsl, channels, possibleFinalBlock, finalBlock, result, sendCh, node>>

\* Variant: the block has to be one that is already being finalised.
takeVoteResultSilent ==
    /\ result = "idle" /\ lsl.at = "voteResult"
    /\ lsl' = [lsl EXCEPT !.at = "setSubmit"]
    /\ IF possibleWinning # Nil /\ lsl.x = possibleFinalBlock
       THEN result' = "read" /\ possibleFinalBlock' = lsl.x
       ELSE UNCHANGED <<result, possibleFinalBlock>>
    /\ lslUnchanged /\ UNCHANGED <<channels, possibleWinning, finalBlock, sendCh, node>>

\* voteResultCh: unless the votes confirm the preference nobody answers the
\* client.  pendingMu is held from here until the answer is taken.
takeVoteResult ==
    /\ result = "idle" /\ lsl.at = "voteResult"
    /\ lsl' = [lsl EXCEPT !.at = "setSubmit"]
    /\ IF possibleWinning # Nil /\ lsl.x.block = possibleWinning
       THEN result' = "read" /\ possibleFinalBlock' = lsl.x
       ELSE UNCHANGED <<result, possibleFinalBlock>>
    /\ lslUnchanged /\ UNCHANGED <<channels, possibleWinning, finalBlock, sendCh, node>>

\* w.submitBlockCh is read ...
readSubmitBlockCh ==
    /\ result = "read"
    /\ "race" \in faults \/ lsl.at # "setSubmit"
    /\ result' = "send" /\ sendCh' = submitBlockCh
    /\ lslUnchanged /\ UNCHANGED <<lsl, channels, blocks, node>>

\* ... and the client takes the block from it: go reqSealConfirm.
submitBlock(o) ==
    /\ result = "send" /\ loop[o] = "submit" /\ sendCh = submitTo(o)
    /\ loop' = [loop EXCEPT ![o] = "recv"]
    /\ confirm' = confirm \cup {[o |-> o, sealed |-> possibleFinalBlock, at |-> "open",
                                 code |-> "PENDING"]}
    /\ possibleWinning' = Nil
    /\ result' = "idle"
    /\ UNCHANGED <<fairnode, otprns, stream, stCode, voters, channels,
                   possibleFinalBlock, finalBlock, fnStatus, lsl, newWork, work, sealing,
                   sendCh, workNumber, engineOtprn, node>>

\* Variant: the signature is not checked.
takeFnSignUnverified ==
    /\ result = "idle" /\ lsl.at = "fnSign"
    /\ lsl' = Idle
    /\ finalBlock' = IF possibleFinalBlock # Nil
                     THEN [sealed |-> possibleFinalBlock, sign |-> lsl.x] ELSE finalBlock
    /\ lslUnchanged
    /\ UNCHANGED <<channels, possibleWinning, possibleFinalBlock, result, sendCh, node>>

\* fnSignCh: the signature is kept if VerifyFairnodeSign accepts it.
takeFnSign ==
    /\ result = "idle" /\ lsl.at = "fnSign"
    /\ lsl' = Idle
    /\ finalBlock' = IF possibleFinalBlock # Nil /\ lsl.x = possibleFinalBlock
                     THEN [sealed |-> possibleFinalBlock, sign |-> lsl.x] ELSE finalBlock
    /\ lslUnchanged
    /\ UNCHANGED <<channels, possibleWinning, possibleFinalBlock, result, sendCh, node>>

\* Variant: the block has to be of the height of the head.
takeFinalizeAtHead ==
    /\ result = "idle" /\ lsl.at = "finalize"
    /\ lsl' = Idle
    /\ IF finalBlock # Nil /\ finalBlock.sealed.block.number = Len(chain)
       THEN /\ chain' = [chain EXCEPT ![Len(chain)] = finalBlock]
            /\ chainHeadCh' = chainHeadCh + 1
            /\ joinTx' = FALSE
            /\ possibleFinalBlock' = Nil /\ finalBlock' = Nil
       ELSE UNCHANGED <<chain, chainHeadCh, joinTx, possibleFinalBlock, finalBlock>>
    /\ lslUnchanged
    /\ UNCHANGED <<startCh, resultCh, submitBlockCh, possibleWinning, result, sendCh>>

\* finalizeCh: WriteBlockWithState and the head event, if the block is of the
\* height that was worked on last.
takeFinalize ==
    /\ result = "idle" /\ lsl.at = "finalize"
    /\ lsl' = Idle
    /\ IF finalBlock # Nil /\ finalBlock.sealed.block.number = workNumber
       THEN /\ chain' = IF workNumber = Len(chain) + 1
                        THEN Append(chain, finalBlock)
                        ELSE [chain EXCEPT ![workNumber] = finalBlock]
            /\ chainHeadCh' = chainHeadCh + 1
            /\ joinTx' = FALSE
            /\ possibleFinalBlock' = Nil /\ finalBlock' = Nil
       ELSE UNCHANGED <<chain, chainHeadCh, joinTx, possibleFinalBlock, finalBlock>>
    /\ lslUnchanged
    /\ UNCHANGED <<startCh, resultCh, submitBlockCh, possibleWinning, result, sendCh>>

-----------------------------------------------------------------------------
(* newWorkLoop, mainLoop and taskLoop.                                     *)

pendingMuFree == result = "idle"

takeStart ==
    /\ newWork = "idle" /\ startCh
    /\ startCh' = FALSE /\ newWork' = "start"
    /\ UNCHANGED <<fairnode, client, chainHeadCh, resultCh, submitBlockCh, blocks,
                   fnStatus, lsl, work, sealing, result, sendCh, workNumber, engineOtprn, node>>

takeChainHead ==
    /\ newWork = "idle" /\ chainHeadCh > 0
    /\ chainHeadCh' = chainHeadCh - 1 /\ newWork' = "head"
    /\ UNCHANGED <<fairnode, client, startCh, resultCh, submitBlockCh, blocks,
                   fnStatus, lsl, work, sealing, result, sendCh, workNumber, engineOtprn, node>>

clearPending ==
    /\ newWork \in {"start", "head"} /\ pendingMuFree
    /\ possibleWinning' = Nil /\ possibleFinalBlock' = Nil /\ finalBlock' = Nil
    /\ newWork' = IF newWork = "start" THEN "commit" ELSE "idle"
    /\ UNCHANGED <<fairnode, client, channels, fnStatus, lsl, work, sealing, result, sendCh,
                   workNumber, engineOtprn, node>>

\* commit: newWorkCh.
commit ==
    /\ newWork = "commit" /\ ~work
    /\ newWork' = "idle" /\ work' = TRUE
    /\ UNCHANGED <<fairnode, client, channels, blocks, fnStatus, lsl, sealing, result, sendCh,
                   workNumber, engineOtprn, node>>

\* commitNewWork builds on the head with the otprn of the engine, if the pool
\* has this miner's join transaction.
commitNewWork ==
    /\ work /\ sealing = Nil /\ work' = FALSE
    /\ workNumber' = IF engineOtprn = 0 THEN workNumber ELSE Len(chain) + 1
    /\ \/ /\ engineOtprn # 0 /\ joinTx /\ Len(chain) < MaxRounds /\ pendingMuFree
          /\ sealing' = [otprn |-> engineOtprn, number |-> Len(chain) + 1, maker |-> Me]
       \/ /\ engineOtprn = 0 \/ ~joinTx \/ Len(chain) = MaxRounds \/ "pool" \in faults
          /\ sealing' = Nil
    /\ UNCHANGED <<fairnode, client, channels, blocks, fnStatus, lsl, newWork, result, sendCh,
                   engineOtprn, node>>

Seal ==
    /\ sealing # Nil
    /\ resultCh' = Append(resultCh, sealing) /\ sealing' = Nil
    /\ UNCHANGED <<fairnode, client, startCh, chainHeadCh, submitBlockCh, blocks,
                   fnStatus, lsl, newWork, work, result, sendCh, workNumber, engineOtprn, node>>

-----------------------------------------------------------------------------
statusLoop(o) == statusRecv(o) \/ statusFeedSend(o)
reqSealConfirm == \E c \in confirm : \/ confirmOpen(c) \/ sendBlock(c) \/ confirmEnd(c)
                                     \/ requestFairnodeSign(c) \/ confirmFeedSend(c)
leagueStatusLoop == startSend \/ setSubmitBlockCh \/ \E o \in Otprn : vote(o)
resultLoop == \/ leagueBroadCast \/ takeVoteResult \/ readSubmitBlockCh
              \/ takeFnSign \/ takeFinalize \/ \E o \in Otprn : submitBlock(o)
newWorkLoop == takeStart \/ takeChainHead \/ clearPending \/ commit
mainLoop == commitNewWork \/ Seal

Next ==
    \/ Advance \/ PeerSends \/ Import
    \/ \E o \in Otprn : requestOtprn(o) \/ statusLoop(o)
    \/ reqSealConfirm \/ leagueStatusLoop
    \/ resultLoop \/ takeResult \/ \E b \in Blocks : takeLeagueBlock(b)
    \/ newWorkLoop \/ mainLoop

Spec == Init /\ [][Next /\ UNCHANGED scenario]_<<vars, scenario>>

-----------------------------------------------------------------------------
\* The blocks whose place on the chain is decided: the finished rounds, and the
\* round whose block is stored and signed, after which only FINALIZE can come.
Decided == IF status = "REQ_FAIRNODE_SIGN" THEN Append(finals, elected) ELSE finals

\* The block this node puts on its chain for a height is the one the fairnode
\* has decided on for it, with the votes that were counted and a signature of
\* just that, whatever is late, lost or out of order between the client, the
\* worker and the fairnode (resultLoop, finalizeCh).
WritesFinal ==
    \A i \in 1 .. Len(chain) :
        i <= Len(Decided) /\ chain[i] = [sealed |-> Decided[i], sign |-> Decided[i]]

\* A status loop ends only when its league has ended: the heights of miner and
\* fairnode agree whenever a join transaction is asked for (services.go:246).
StaysInLeague ==
    faults = {} => \A o \in Otprn : loop[o] = "end" => o < league \/ status = "REJECT"

\* The status loop never waits on voteCh or submitBlockCh for an answer that
\* nobody is going to send, as long as nothing goes wrong: it has no timeout
\* there and would never hear of the end of its league.
ClientIsAnswered == faults = {} => \A o \in Otprn : ~Hangs(o)

\* The worker never offers an answer that nobody is going to take, even when a
\* status loop hangs: a miner whose status loop is lost in one league can take
\* part in the next.  (A resultLoop that overtakes leagueStatusLoop reads the
\* channel of the last answer, and stays there.)
WorkerIsHeard ==
    /\ lsl.at = "vote" => loop[lsl.o] = "vote"
    /\ result = "send" /\ "race" \notin faults =>
           \E o \in Otprn : loop[o] = "submit" /\ sendCh = submitTo(o)
=============================================================================
