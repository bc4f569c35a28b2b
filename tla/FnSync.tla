------------------------------- MODULE FnSync -------------------------------
(***************************************************************************)
(* How the fairnodes choose a leader: FnSyncer of fairnode/fairsync/sync.go*)
(* over the ActiveFairnode collection of the database, with the consumers  *)
(* of the role in fairnode/fairnode.go (roleCheck and the loops it starts).*)
(*                                                                         *)
(* A node is one run of a fairnode process: getFairnodeID hashes the time, *)
(* so a process that is started again is a new node, and the record of a   *)
(* process that crashed stays in the database until somebody removes it.   *)
(* Every database call is a step of its own.                               *)
(***************************************************************************)
EXTENDS Naturals, FiniteSets

CONSTANTS
    Node,       \* the ids, compared as numbers (top.Big().Cmp)
    FaultSets,  \* the combinations of {"overlap", "lostStream", "stop"} considered
    Nil

ASSUME NodeAssumption ==
    /\ Node \subseteq Nat
    /\ IsFiniteSet(Node)
    /\ Nil \notin Node
    /\ FaultSets \subseteq SUBSET {"overlap", "lostStream", "stop"}

FnType == {"PENDING", "LEADER", "FOLLOWER"}

VARIABLES
    faults,     \* what goes wrong in this behaviour
    db,         \* ActiveFairnode: the status of each record, or "NONE"
    pc,         \* where FnSyncer.Start or roleChecker stands
    curRole,    \* fs.curRole
    leager,     \* fs.leager
    nodes,      \* fs.nodes: the records read last
    stream,     \* the LeaderMessageStream goroutine: "none", "open", "failed"
    listening,  \* newRpcSyncServer has opened the port
    stopping,   \* Stop waits to send on exitCh
    fnRole,     \* fn.curRole of the Fairnode
    signal,     \* roleCheck is blocked on fn.syncErrorCh
    loops       \* the loops roleCheck has started and that still run

vars == <<db, pc, curRole, leager, nodes, stream, listening, stopping, fnRole,
          signal, loops>>

-----------------------------------------------------------------------------
Alive(n) == pc[n] \notin {"off", "dead"}
Starting(n) == pc[n] \in {"insert", "read", "first"}
Serving(n) == Alive(n) /\ curRole[n] = "LEADER" /\ pc[n] = "up"

\* n takes no step before something happens to its leader.
Calm(n) == pc[n] = "up" /\ (curRole[n] = "FOLLOWER" =>
                               stream[n] = "open" /\ Serving(leager[n]))

\* The registry: DeleteOne, and UpdateOne without upsert.
RemoveActiveFairnode(k) == [db EXCEPT ![k] = "NONE"]
UpdateActiveFairnode(k, s) == [db EXCEPT ![k] = IF @ = "NONE" THEN @ ELSE s]

Init ==
    /\ faults \in FaultSets
    /\ db = [n \in Node |-> "NONE"]
    /\ pc = [n \in Node |-> "off"]
    /\ curRole = [n \in Node |-> "PENDING"]
    /\ leager = [n \in Node |-> Nil]
    /\ nodes = [n \in Node |-> {}]
    /\ stream = [n \in Node |-> "none"]
    /\ listening = {}
    /\ stopping = {}
    /\ fnRole = [n \in Node |-> "PENDING"]
    /\ signal = {}
    /\ loops = [n \in Node |-> {}]

-----------------------------------------------------------------------------
\* The process starts.  Without "overlap" an operator starts one node at a
\* time, and only while the others have a leader.
Boot(n) ==
    /\ pc[n] = "off"
    /\ "overlap" \notin faults => \A m \in Node : Alive(m) => Calm(m)
    /\ pc' = [pc EXCEPT ![n] = "insert"]
    /\ UNCHANGED <<db, curRole, leager, nodes, stream, listening, stopping,
                   fnRole, signal, loops>>

\* Start: InsertActiveFairnode, with status PENDING.
InsertActiveFairnode(n) ==
    /\ pc[n] = "insert"
    /\ db' = [db EXCEPT ![n] = "PENDING"]
    /\ pc' = [pc EXCEPT ![n] = "read"]
    /\ UNCHANGED <<curRole, leager, nodes, stream, listening, stopping, fnRole,
                   signal, loops>>

Records == {m \in Node : db[m] # "NONE"}

\* Variant: only the top id counts, a record that says LEADER does not.
checkRoleTop(n, ns) ==
    {[role |-> IF m = n THEN "LEADER" ELSE "FOLLOWER", leager |-> m] :
         m \in {m \in ns \cup {n} : \A k \in ns : k <= m}}

\* checkRole over the records ns.  The map is read in any order, so that any
\* of several LEADER records may be the one that is followed.
checkRole(n, ns) ==
    LET leaders == {m \in ns : db[m] = "LEADER"}
        top     == CHOOSE m \in ns : \A k \in ns : k <= m
    IN  CASE ns = {} \/ ns = {n} -> {[role |-> "LEADER", leager |-> n]}
          [] Cardinality(ns) = 1 /\ n \notin ns ->
                 {[role |-> "FOLLOWER", leager |-> leager[n]]}
          [] Cardinality(ns) > 1 /\ leaders # {} ->
                 {[role |-> "FOLLOWER", leager |-> m] : m \in leaders}
          [] OTHER -> {[role |-> IF top = n THEN "LEADER" ELSE "FOLLOWER",
                        leager |-> top]}

\* GetActiveFairnodes and checkRole; in Start, newRpcSyncServer follows.
GetActiveFairnodes(n) ==
    /\ pc[n] \in {"read", "reread"}
    /\ nodes' = [nodes EXCEPT ![n] = Records]
    /\ \E c \in checkRole(n, Records) :
           /\ curRole' = [curRole EXCEPT ![n] = c.role]
           /\ leager' = [leager EXCEPT ![n] = c.leager]
    /\ pc' = [pc EXCEPT ![n] = IF @ = "read" THEN "first" ELSE "change"]
    /\ UNCHANGED <<db, stream, listening, stopping, fnRole, signal, loops>>

\* newRpcSyncServer (in Start) and roleChanger: UpdateActiveFairnode changes
\* a record only if it is still there; a follower opens a stream to its
\* leader if it knows the leader's address.
roleChanger(n) ==
    /\ pc[n] \in {"first", "change"}
    /\ listening' = listening \cup {n}
    /\ db' = UpdateActiveFairnode(n, curRole[n])
    /\ stream' = [stream EXCEPT ![n] =
                      IF curRole[n] = "FOLLOWER" /\ leager[n] \in nodes[n]
                      THEN "open" ELSE "none"]
    /\ pc' = [pc EXCEPT ![n] = "up"]
    /\ UNCHANGED <<curRole, leager, nodes, stopping, fnRole, signal, loops>>

-----------------------------------------------------------------------------
\* roleChecker: the ticker fires and roleCheck takes the role.  As LEADER it
\* starts makeOtprn and processManageLoop, as FOLLOWER the follower loop.
Tick(n) ==
    /\ pc[n] = "up" /\ n \notin signal
    /\ fnRole' = [fnRole EXCEPT ![n] = curRole[n]]
    /\ loops' = [loops EXCEPT ![n] =
                     IF fnRole[n] = curRole[n] THEN @ ELSE @ \cup {curRole[n]}]
    /\ UNCHANGED <<db, pc, curRole, leager, nodes, stream, listening, stopping,
                   signal>>

\* Variant: the record of the lost leader stays.
SyncErrorKeepsRecord(n) ==
    /\ pc[n] = "up" /\ stream[n] = "failed" /\ curRole[n] = "FOLLOWER"
    /\ stream' = [stream EXCEPT ![n] = "none"]
    /\ curRole' = [curRole EXCEPT ![n] = "PENDING"]
    /\ pc' = [pc EXCEPT ![n] = "pending"]
    /\ UNCHANGED <<db, leager, nodes, listening, stopping, fnRole, signal, loops>>

\* roleChecker: the stream has ended.  A leader ignores it.
SyncError(n) ==
    /\ pc[n] = "up" /\ stream[n] = "failed" /\ curRole[n] = "FOLLOWER"
    /\ stream' = [stream EXCEPT ![n] = "none"]
    /\ db' = RemoveActiveFairnode(leager[n])
    /\ curRole' = [curRole EXCEPT ![n] = "PENDING"]
    /\ pc' = [pc EXCEPT ![n] = "pending"]
    /\ UNCHANGED <<leager, nodes, listening, stopping, fnRole, signal, loops>>

\* Variant: roleCheck signals even if it knew that the role is PENDING.
SendPendingAlways(n) ==
    /\ pc[n] = "pending" /\ n \notin signal
    /\ fnRole' = [fnRole EXCEPT ![n] = "PENDING"]
    /\ signal' = signal \cup {n}
    /\ pc' = [pc EXCEPT ![n] = "reset"]
    /\ UNCHANGED <<db, curRole, leager, nodes, stream, listening, stopping, loops>>

\* fs.roleCh <- PENDING: roleCheck takes it and, if that is news, signals the
\* follower loop.
SendPending(n) ==
    /\ pc[n] = "pending" /\ n \notin signal
    /\ fnRole' = [fnRole EXCEPT ![n] = "PENDING"]
    /\ signal' = IF fnRole[n] = "PENDING" THEN signal ELSE signal \cup {n}
    /\ pc' = [pc EXCEPT ![n] = "reset"]
    /\ UNCHANGED <<db, curRole, leager, nodes, stream, listening, stopping, loops>>

\* processManageLoopFollower receives the signal, drops its leagues and ends.
FollowerEnds(n) ==
    /\ Alive(n) /\ n \in signal /\ "FOLLOWER" \in loops[n]
    /\ signal' = signal \ {n}
    /\ loops' = [loops EXCEPT ![n] = @ \ {"FOLLOWER"}]
    /\ UNCHANGED <<db, pc, curRole, leager, nodes, stream, listening, stopping,
                   fnRole>>

UpdatePending(n) ==
    /\ pc[n] = "reset"
    /\ db' = UpdateActiveFairnode(n, "PENDING")
    /\ pc' = [pc EXCEPT ![n] = "reread"]
    /\ UNCHANGED <<curRole, leager, nodes, stream, listening, stopping, fnRole,
                   signal, loops>>

-----------------------------------------------------------------------------
\* The stream of a follower ends when its leader is gone, was never
\* reachable, or the connection is lost.
StreamFails(n) ==
    /\ Alive(n) /\ stream[n] = "open"
    /\ leager[n] \notin listening \/ "lostStream" \in faults
    /\ stream' = [stream EXCEPT ![n] = "failed"]
    /\ UNCHANGED <<db, pc, curRole, leager, nodes, listening, stopping, fnRole,
                   signal, loops>>

Dies(n) ==
    /\ pc' = [pc EXCEPT ![n] = "dead"]
    /\ listening' = listening \ {n}
    /\ stopping' = stopping \ {n}
    /\ signal' = signal \ {n}
    /\ loops' = [loops EXCEPT ![n] = {}]
    /\ UNCHANGED <<curRole, leager, nodes, stream, fnRole>>

\* The process is killed; its record stays.  Without "overlap" no process
\* dies while another one starts.
Crash(n) ==
    /\ Alive(n)
    /\ "overlap" \notin faults => \A m \in Node : ~Starting(m)
    /\ Dies(n)
    /\ UNCHANGED db

\* Stop: the record is removed and the server or the client is closed, which
\* ends a follower's stream; then Stop waits for roleChecker.
Stop(n) ==
    /\ "stop" \in faults
    /\ pc[n] = "up" /\ n \notin stopping
    /\ db' = RemoveActiveFairnode(n)
    /\ stopping' = stopping \cup {n}
    /\ listening' = IF curRole[n] = "LEADER" THEN listening \ {n} ELSE listening
    /\ stream' = [stream EXCEPT ![n] = IF @ = "open" THEN "failed" ELSE @]
    /\ UNCHANGED <<pc, curRole, leager, nodes, fnRole, signal, loops>>

\* roleChecker receives from exitCh.
Exit(n) ==
    /\ pc[n] = "up" /\ n \in stopping
    /\ db' = RemoveActiveFairnode(n)
    /\ Dies(n)

Syncer(n) == InsertActiveFairnode(n) \/ GetActiveFairnodes(n) \/ roleChanger(n)
             \/ SyncError(n) \/ SendPending(n) \/ UpdatePending(n)
             \/ Exit(n)

Next == \E n \in Node : \/ Boot(n) \/ Syncer(n) \/ Tick(n) \/ FollowerEnds(n)
                        \/ StreamFails(n) \/ Crash(n) \/ Stop(n)

\* The goroutines run; a lost peer is noticed.  Nobody has to start or stop a
\* process, and a ticker fires again and again.
Fairness == \A n \in Node :
    /\ WF_vars(Syncer(n)) /\ WF_vars(FollowerEnds(n))
    /\ WF_vars(Tick(n)) /\ WF_vars(StreamFails(n))

Spec == Init /\ [][Next /\ UNCHANGED faults]_<<vars, faults>> /\ Fairness

-----------------------------------------------------------------------------
TypeOK ==
    /\ db \in [Node -> FnType \cup {"NONE"}]
    /\ pc \in [Node -> {"off", "insert", "read", "first", "change", "up",
                        "pending", "reset", "reread", "dead"}]
    /\ curRole \in [Node -> FnType]
    /\ leager \in [Node -> Node \cup {Nil}]
    /\ nodes \in [Node -> SUBSET Node]
    /\ stream \in [Node -> {"none", "open", "failed"}]
    /\ listening \in SUBSET Node
    /\ stopping \in SUBSET Node
    /\ fnRole \in [Node -> FnType]
    /\ signal \in SUBSET Node
    /\ loops \in [Node -> SUBSET FnType]

\* At most one fairnode runs the leader's loops (makeOtprn and
\* processManageLoop), and no second one has already decided to, as long as
\* starts do not overlap, streams hold and nodes crash rather than stop.
OneLeader == faults = {} =>
    \A m, n \in Node : /\ Alive(m) /\ curRole[m] = "LEADER"
                       /\ Alive(n) /\ (curRole[n] = "LEADER" \/ "LEADER" \in loops[n])
                       => m = n

\* When roleCheck blocks on fn.syncErrorCh there is a follower loop to take
\* the signal: the role channel never jams.
SignalHasReceiver == \A n \in signal : "FOLLOWER" \in loops[n]

\* As long as a process lives, a leader comes back after every crash.
LeaderReturns ==
    (faults = {} /\ \E n \in Node : Alive(n)) ~>
        \/ \E n \in Node : Alive(n) /\ "LEADER" \in loops[n]
        \/ \A n \in Node : ~Alive(n)
=============================================================================
