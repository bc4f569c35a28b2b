----------------------------- MODULE LeagueGossip -----------------------------
(***************************************************************************)
(* How the members of a league come to prefer one block: the league block  *)
(* cases of resultLoop (miner/worker.go), the leagueBroadCast goroutine    *)
(* and the MakeLeagueBlockMsg handler (eth/handler.go).                    *)
(*                                                                         *)
(* Every node runs one handler goroutine per peer, and all of them read    *)
(* and write pm.possibleWinningBlock without a lock.  The worker gets a    *)
(* block over an unbuffered channel, so its part of the handling and the   *)
(* hand-over are one step.  A node that is no member takes part as a relay:*)
(* its worker drops what it gets, its handler does not.                    *)
(***************************************************************************)
EXTENDS Naturals, FiniteSets, Sequences

CONSTANTS
    Members,    \* the league, as the numbers of the coinbases
    Relays,     \* further nodes
    Links,      \* the connections: sets of two nodes
    Weights,    \* the pairs of difficulty and nonce, in their order
    Rounds,     \* how many rounds are played
    Faults,     \* which of {"reject", "slow", "late"} happen
    Nil

Node == Members \cup Relays

ASSUME GossipAssumption ==
    /\ Node \subseteq Nat /\ Weights \subseteq Nat /\ Rounds \in Nat
    /\ Members \cap Relays = {}
    /\ \A l \in Links : l \subseteq Node /\ Cardinality(l) = 2
    /\ Faults \subseteq {"reject", "slow", "late"}

Peers(n) == {m \in Node : {m, n} \in Links}
Channel == {c \in Node \X Node : c[2] \in Peers(c[1])}

VARIABLES
    round,      \* the league being played, which names its otprn
    nextNumber, \* the number of the block it makes: one more than the head
    made,       \* the blocks sealed in this round
    fnStatus,   \* of each node's worker
    possible,   \* w.possibleWinning
    winning,    \* pm.possibleWinningBlock
    feed,       \* pm.newLeagueBlockCh
    net,        \* what is on its way from one node to another
    handler     \* what each handler goroutine does, and with which block

gossipVars == <<round, nextNumber, made, fnStatus, possible, winning, feed, net, handler>>

Block == [otprn : Nat, number : Nat, coinbase : Members, weight : Weights]

Free == [pc |-> "read", block |-> Nil]

GossipInit ==
    /\ round = 1 /\ nextNumber = 1 /\ made = {}
    /\ fnStatus = [n \in Node |-> IF n \in Members THEN "MAKE_BLOCK" ELSE "NONE"]
    /\ possible = [n \in Node |-> Nil]
    /\ winning = [n \in Node |-> Nil]
    /\ feed = [n \in Node |-> << >>]
    /\ net = [c \in Channel |-> << >>]
    /\ handler = [c \in Channel |-> Free]

Quiet ==
    /\ \A n \in Node : feed[n] = << >>
    /\ \A c \in Channel : net[c] = << >> /\ handler[c] = Free

-----------------------------------------------------------------------------
\* r surpasses p.  Number even: the larger coinbase wins the tie, odd: the smaller.
Surpasses(r, p) ==
    \/ r.weight > p.weight
    \/ /\ r.weight = p.weight
       /\ IF r.number % 2 = 0 THEN r.coinbase > p.coinbase ELSE r.coinbase < p.coinbase

SelectWinningBlock(p, r) ==
    IF p = Nil THEN r ELSE IF Surpasses(r, p) THEN r ELSE p

\* Variant: a block of another league with the same number is accepted.
ValidationNumber(b) == b.number = nextNumber

\* ValidationLeagueBlock: the next number, and the otprn of the league.
ValidationLeagueBlock(b) == b.number = nextNumber /\ b.otprn = round

\* n sends b to all its peers.
SendMakeLeagueBlock(n, b) ==
    [c \in Channel |-> IF c[1] = n THEN Append(net[c], b) ELSE net[c]]

-----------------------------------------------------------------------------
\* resultLoop, case resultCh: the own block replaces whatever there was.
\* Timing: a member seals before any member broadcasts.
takeResult(n) ==
    /\ fnStatus[n] = "MAKE_BLOCK" /\ \A b \in made : b.coinbase # n
    /\ "late" \in Faults \/ \A m \in Members : fnStatus[m] = "MAKE_BLOCK"
    /\ \E w \in Weights :
         LET b == [otprn |-> round, number |-> nextNumber, coinbase |-> n, weight |-> w] IN
         /\ made' = made \cup {b}
         /\ possible' = [possible EXCEPT ![n] = b]
    /\ UNCHANGED <<round, nextNumber, fnStatus, winning, feed, net, handler>>

\* leagueStatusLoop and resultLoop, case leagueBroadCastCh.
takeBroadCast(n) ==
    /\ fnStatus[n] = "MAKE_BLOCK"
    /\ fnStatus' = [fnStatus EXCEPT ![n] = "LEAGUE_BROADCASTING"]
    /\ feed' = IF possible[n] = Nil THEN feed
               ELSE [feed EXCEPT ![n] = Append(@, possible[n])]
    /\ UNCHANGED <<round, nextNumber, made, possible, winning, net, handler>>

\* leagueBroadCast: no peer is ever known to have a league block.
leagueBroadCast(n) ==
    /\ feed[n] # << >>
    /\ net' = SendMakeLeagueBlock(n, Head(feed[n]))
    /\ feed' = [feed EXCEPT ![n] = Tail(@)]
    /\ UNCHANGED <<round, nextNumber, made, fnStatus, possible, winning, handler>>

\* resultLoop, case leagueBlockCh: a better block is taken over and announced.
takeLeagueBlock(n, b) ==
    IF /\ fnStatus[n] \in {"MAKE_BLOCK", "LEAGUE_BROADCASTING"}
       /\ ValidationLeagueBlock(b)
       /\ SelectWinningBlock(possible[n], b) # possible[n]
    THEN /\ possible' = [possible EXCEPT ![n] = b]
         /\ feed' = [feed EXCEPT ![n] = Append(@, b)]
    ELSE UNCHANGED <<possible, feed>>

\* The handler hands the block to the worker ...
handleMsg(c) ==
    /\ handler[c] = Free /\ net[c] # << >>
    /\ takeLeagueBlock(c[2], Head(net[c]))
    /\ net' = [net EXCEPT ![c] = Tail(@)]
    /\ handler' = [handler EXCEPT ![c] = [pc |-> "relay", block |-> Head(net[c])]]
    /\ UNCHANGED <<round, nextNumber, made, fnStatus, winning>>

\* Variant: only the first block of a number is relayed.
relayFirst(c) ==
    LET b == handler[c].block IN
    LET w == winning[c[2]] IN
    /\ handler[c].pc = "relay"
    /\ handler' = [handler EXCEPT ![c] =
         IF nextNumber - 1 < b.number /\ (w = Nil \/ w.number < b.number)
         THEN [@ EXCEPT !.pc = "store"] ELSE Free]
    /\ UNCHANGED <<round, nextNumber, made, fnStatus, possible, winning, feed, net>>

\* ... compares it with the best block it knows of ...
relay(c) ==
    LET b == handler[c].block IN
    LET w == winning[c[2]] IN
    /\ handler[c].pc = "relay"
    /\ handler' = [handler EXCEPT ![c] =
         IF /\ nextNumber - 1 < b.number
            /\ \/ w = Nil
               \/ w.number < b.number
               \/ SelectWinningBlock(w, b) # w
         THEN [@ EXCEPT !.pc = "store"] ELSE Free]
    /\ UNCHANGED <<round, nextNumber, made, fnStatus, possible, winning, feed, net>>

\* ... and after the check of its otprn's signature stores it and sends it on.
store(c) ==
    LET b == handler[c].block IN
    /\ handler[c].pc = "store"
    /\ winning' = [winning EXCEPT ![c[2]] = b]
    /\ net' = SendMakeLeagueBlock(c[2], b)
    /\ handler' = [handler EXCEPT ![c] = Free]
    /\ UNCHANGED <<round, nextNumber, made, fnStatus, possible, feed>>

\* VOTE_START and what follows.  The round ends with a block that every node
\* imports, or the league is rejected and the next one makes the same number.
\* Timing: three seconds of broadcasting are enough for the blocks to arrive.
Close(n) ==
    /\ round < Rounds
    /\ \A m \in Members : fnStatus[m] = "LEAGUE_BROADCASTING"
    /\ Quiet \/ "slow" \in Faults
    /\ n \in {nextNumber + 1} \cup (IF "reject" \in Faults THEN {nextNumber} ELSE {})
    /\ round' = round + 1 /\ nextNumber' = n /\ made' = {}
    /\ fnStatus' = [m \in Node |-> IF m \in Members THEN "MAKE_BLOCK" ELSE "NONE"]
    /\ possible' = [m \in Node |-> Nil]
    /\ UNCHANGED <<winning, feed, net, handler>>

GossipNext ==
    \/ \E n \in Members : takeResult(n) \/ takeBroadCast(n)
    \/ \E n \in Node : leagueBroadCast(n)
    \/ \E c \in Channel : handleMsg(c) \/ relay(c) \/ store(c)
    \/ \E n \in 1 .. Rounds : Close(n)

GossipSpec == GossipInit /\ [][GossipNext]_gossipVars

-----------------------------------------------------------------------------
\* When all members have broadcast and nothing is on its way, every member
\* prefers the best of the blocks that were sealed, whatever the order in which
\* handlers and workers ran; if a league has been rejected, provided that all
\* members are connected: other nodes keep its blocks in possibleWinningBlock
\* and do not relay worse ones of the same number.
Converges ==
    /\ nextNumber = round \/ \A m, n \in Members : m # n => {m, n} \in Links
    /\ Quiet /\ \A n \in Members : fnStatus[n] = "LEAGUE_BROADCASTING"
    /\ made # {}
    => \A n \in Members : possible[n] \in made
                          /\ \A b \in made : ~Surpasses(b, possible[n])

\* A member never prefers a block of another league or number, also when blocks
\* of the last round arrive in this one.
PrefersOfRound == \A n \in Members : possible[n] # Nil => possible[n] \in made

=============================================================================
