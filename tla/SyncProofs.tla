----------------------------- MODULE SyncProofs -----------------------------
(***************************************************************************)
(* Theorems about the election of the leader in FnSync, for every finite   *)
(* number of fairnodes: the role channel never jams, whatever goes wrong,  *)
(* and where nothing but crashes goes wrong there is at most one leader.   *)
(***************************************************************************)
EXTENDS FnSync, FiniteSetTheorems, WellFoundedInduction, TLAPS

-----------------------------------------------------------------------------
\* Among the records there is one with the highest id: a smallest set without
\* one could be made smaller by any of its members.
LEMMA TopExists ==
    ASSUME NEW ns \in SUBSET Node, ns # {}
    PROVE  \E m \in ns : \A k \in ns : k <= m
<1> DEFINE Topless == {S \in SUBSET Node : S # {} /\ ~\E m \in S : \A k \in S : k <= m}
<1>1. SUFFICES ASSUME Topless # {} PROVE FALSE
  OBVIOUS
<1>2. IsWellFoundedOn(StrictSubsetOrdering(Node), SUBSET Node)
  BY FS_StrictSubsetOrderingWellFounded, FS_FiniteSubsetsOfFinite, NodeAssumption
<1>3. \E S \in Topless : \A T \in Topless : <<T, S>> \notin StrictSubsetOrdering(Node)
  BY <1>1, <1>2, WFMin, Zenon
<1>4. PICK S \in Topless : \A T \in Topless : <<T, S>> \notin StrictSubsetOrdering(Node)
  BY <1>3, Zenon
<1>5. PICK x \in S : TRUE
  BY Zenon
<1>6. x \in Nat /\ S \subseteq Nat
  BY NodeAssumption
<1>7. S \ {x} \notin Topless
  <2>1. <<S \ {x}, S>> \in StrictSubsetOrdering(Node)
    BY DEF StrictSubsetOrdering
  <2> QED BY <1>4, <2>1, Zenon
<1>8. CASE S \ {x} = {}
  BY <1>6, <1>8
<1>9. CASE S \ {x} # {}
  <2>1. PICK y \in S \ {x} : \A k \in S \ {x} : k <= y
    BY <1>7, <1>9
  <2>2. CASE x <= y
    BY <2>1, <2>2
  <2>3. CASE y <= x
    BY <1>6, <2>1, <2>3
  <2> QED BY <1>6, <2>1, <2>2, <2>3
<1> QED BY <1>8, <1>9

\* A set with a second member counts for more than one.
LEMMA TwoRecords ==
    ASSUME NEW ns \in SUBSET Node, NEW n \in ns, NEW k \in ns, k # n
    PROVE  Cardinality(ns) > 1
<1>1. IsFiniteSet(ns) /\ IsFiniteSet({n})
  BY NodeAssumption, FS_Subset, FS_Singleton
<1>2. Cardinality({n}) = 1
  BY FS_Singleton
<1>3. IsFiniteSet({n} \cup {k}) /\ Cardinality({n} \cup {k}) = 2
  <2>1. k \notin {n}
    OBVIOUS
  <2>2. /\ IsFiniteSet({n} \cup {k})
        /\ k \notin {n} => Cardinality({n} \cup {k}) = Cardinality({n}) + 1
    BY <1>1, FS_AddElement
  <2> QED BY <1>2, <2>1, <2>2
<1>4. {n} \cup {k} \subseteq ns
  OBVIOUS
<1>5. Cardinality({n} \cup {k}) <= Cardinality(ns)
  BY <1>1, <1>4, FS_Subset
<1> QED BY <1>1, <1>3, <1>5, FS_CardinalityType

\* What checkRole decides: a node that has its record among those it read leads
\* only as the top of them, and only if no other one says LEADER.
LEMMA RoleDecided ==
    ASSUME TypeOK, NEW n \in Node, NEW ns \in SUBSET Node, NEW c \in checkRole(n, ns)
    PROVE  /\ c.role \in {"LEADER", "FOLLOWER"} /\ c.leager \in Node \cup {Nil}
           /\ n \in ns /\ c.role = "LEADER" =>
                  \A k \in ns : k # n => k < n /\ db[k] # "LEADER"
           /\ n \in ns /\ db[n] # "LEADER" /\ c.role = "FOLLOWER" => c.leager \in ns \ {n}
<1> DEFINE leaders == {m \in ns : db[m] = "LEADER"}
           top == CHOOSE m \in ns : \A k \in ns : k <= m
<1>1. ns # {} => top \in ns /\ \A k \in ns : k <= top
  BY TopExists, Zenon
<1> HIDE DEF top
<1>2. CASE ns = {} \/ ns = {n}
  <2>1. Cardinality({n}) = 1 /\ Cardinality({}) = 0
    BY FS_Singleton, FS_EmptySet
  <2>2. c = [role |-> "LEADER", leager |-> n]
    <3>1. CASE ns = {}
      BY <2>1, <3>1 DEF checkRole
    <3>2. CASE ns = {n}
      BY <2>1, <3>2 DEF checkRole
    <3> QED BY <1>2, <3>1, <3>2
  <2> QED BY <1>2, <2>2
<1>3. CASE ns # {} /\ ns # {n} /\ Cardinality(ns) = 1 /\ n \notin ns
  <2>1. c = [role |-> "FOLLOWER", leager |-> leager[n]]
    BY <1>3 DEF checkRole
  <2> QED BY <1>3, <2>1 DEF TypeOK
<1>4. CASE ns # {} /\ ns # {n} /\ Cardinality(ns) > 1 /\ leaders # {}
  <2>1. c \in {[role |-> "FOLLOWER", leager |-> m] : m \in leaders}
    BY <1>4 DEF checkRole
  <2> QED BY <2>1
<1>5. CASE /\ ns # {} /\ ns # {n} /\ ~(Cardinality(ns) = 1 /\ n \notin ns)
           /\ ~(Cardinality(ns) > 1 /\ leaders # {})
  <2>1. c = [role |-> IF top = n THEN "LEADER" ELSE "FOLLOWER", leager |-> top]
    BY <1>5 DEF checkRole, top
  <2>2. n \in ns => leaders = {}
    BY <1>5, TwoRecords
  <2>3. ns \subseteq Nat
    BY NodeAssumption
  <2>4. c.leager = top /\ top \in ns /\ c.role \in {"LEADER", "FOLLOWER"}
    BY <1>1, <1>5, <2>1
  <2>5. c.role = "LEADER" => top = n
    BY <2>1
  <2>6. c.role = "FOLLOWER" => top # n
    BY <2>1
  <2>7. top = n => \A k \in ns : k # n => k < n
    BY <1>1, <1>5, <2>3
  <2> QED BY <2>2, <2>4, <2>5, <2>6, <2>7
<1> QED BY <1>2, <1>3, <1>4, <1>5

-----------------------------------------------------------------------------
\* The steps of one node.
Step(n) == Boot(n) \/ Syncer(n) \/ Tick(n) \/ FollowerEnds(n) \/ StreamFails(n) \/ Crash(n) \/ Stop(n)

LEMMA StepType ==
    ASSUME TypeOK, NEW n \in Node, Step(n)
    PROVE  TypeOK'
<1> USE DEF TypeOK, FnType
<1>1. CASE Boot(n) \/ InsertActiveFairnode(n) \/ Tick(n) \/ FollowerEnds(n) \/ StreamFails(n)
  BY <1>1 DEF Boot, InsertActiveFairnode, Tick, FollowerEnds, StreamFails
<1>2. CASE GetActiveFairnodes(n)
  <2>1. PICK c \in checkRole(n, Records) : /\ curRole' = [curRole EXCEPT ![n] = c.role]
                                           /\ leager' = [leager EXCEPT ![n] = c.leager]
    BY <1>2 DEF GetActiveFairnodes
  <2>2. c.role \in {"LEADER", "FOLLOWER"} /\ c.leager \in Node \cup {Nil} /\ Records \in SUBSET Node
    BY RoleDecided DEF Records
  <2> QED BY <1>2, <2>1, <2>2 DEF GetActiveFairnodes
<1>3. CASE roleChanger(n)
  BY <1>3 DEF roleChanger, UpdateActiveFairnode
<1>4. CASE SyncError(n) \/ SendPending(n) \/ UpdatePending(n)
  BY <1>4 DEF SyncError, SendPending, UpdatePending, UpdateActiveFairnode, RemoveActiveFairnode
<1>5. CASE Crash(n) \/ Exit(n)
  BY <1>5 DEF Crash, Exit, Dies, RemoveActiveFairnode
<1>6. CASE Stop(n)
  BY <1>6 DEF Stop, RemoveActiveFairnode
<1> QED BY <1>1, <1>2, <1>3, <1>4, <1>5, <1>6 DEF Step, Syncer

\* Why the role channel never jams: while roleCheck waits for the follower loop
\* it takes no other role, the loop of a follower ends only when it has taken
\* the signal, and a node that leads stays a leader for as long as it lives.
Signalled(n) ==
    /\ n \in signal => Alive(n) /\ fnRole[n] = "PENDING" /\ "FOLLOWER" \in loops[n]
    /\ pc[n] = "off" => fnRole[n] = "PENDING"
    /\ Alive(n) /\ fnRole[n] = "FOLLOWER" => "FOLLOWER" \in loops[n]
    /\ Alive(n) /\ fnRole[n] = "LEADER" => curRole[n] = "LEADER" /\ pc[n] = "up"
SignalInv == \A n \in Node : Signalled(n)

LEMMA StepSignal ==
    ASSUME TypeOK, SignalInv, NEW n \in Node, Step(n)
    PROVE  SignalInv'
<1> SUFFICES ASSUME NEW k \in Node PROVE Signalled(k)'
  BY DEF SignalInv
<1> USE DEF TypeOK, FnType, SignalInv, Signalled, Alive
<1>1. CASE Boot(n) \/ InsertActiveFairnode(n)
  BY <1>1 DEF Boot, InsertActiveFairnode
<1>2. CASE GetActiveFairnodes(n)
  <2>1. PICK c : curRole' = [curRole EXCEPT ![n] = c.role]
    BY <1>2 DEF GetActiveFairnodes
  <2> QED BY <1>2, <2>1 DEF GetActiveFairnodes
<1>3. CASE roleChanger(n) \/ StreamFails(n) \/ UpdatePending(n)
  BY <1>3 DEF roleChanger, StreamFails, UpdatePending
<1>4. CASE Tick(n)
  BY <1>4 DEF Tick
<1>5. CASE SyncError(n)
  BY <1>5 DEF SyncError
<1>6. CASE SendPending(n)
  BY <1>6 DEF SendPending
<1>7. CASE FollowerEnds(n)
  BY <1>7 DEF FollowerEnds
<1>8. CASE Crash(n) \/ Exit(n)
  BY <1>8 DEF Crash, Exit, Dies
<1>9. CASE Stop(n)
  BY <1>9 DEF Stop
<1> QED BY <1>1, <1>2, <1>3, <1>4, <1>5, <1>6, <1>7, <1>8, <1>9 DEF Step, Syncer

\* When roleCheck blocks on fn.syncErrorCh a follower loop is there to take the
\* signal, for every number of fairnodes and whatever starts, stops, crashes and
\* lost streams overlap: fs.roleCh never jams.
THEOREM RoleChannelNeverJams == Spec => []SignalHasReceiver
<1>1. Init => TypeOK /\ SignalInv
  BY DEF Init, TypeOK, FnType, SignalInv, Signalled, Alive
<1>2. TypeOK /\ SignalInv /\ [Next]_vars => TypeOK' /\ SignalInv'
  <2>1. ASSUME TypeOK, SignalInv, Next PROVE TypeOK' /\ SignalInv'
    BY <2>1, StepType, StepSignal DEF Next, Step
  <2>2. ASSUME TypeOK, SignalInv, UNCHANGED vars PROVE TypeOK' /\ SignalInv'
    BY <2>2 DEF vars, TypeOK, SignalInv, Signalled, Alive
  <2> QED BY <2>1, <2>2
<1>3. [Next /\ UNCHANGED faults]_<<vars, faults>> => [Next]_vars
  BY DEF vars
<1>4. TypeOK /\ SignalInv => SignalHasReceiver
  BY DEF TypeOK, SignalInv, Signalled, SignalHasReceiver
<1> QED BY <1>1, <1>2, <1>3, <1>4, PTL DEF Spec

-----------------------------------------------------------------------------
\* Why there is one leader.  A record exists from the insert on and for as long
\* as its node lives: only the record of a dead leader is ever removed.
Recorded(n) ==
    /\ db[n] # "NONE" => pc[n] \notin {"off", "insert"}
    /\ Alive(n) /\ pc[n] # "insert" => db[n] # "NONE"

\* The port is open from the end of Start on.
Listens(n) == Alive(n) /\ ~Starting(n) => n \in listening

\* A node has a role between two readings of the records.
Undecided(n) == pc[n] # "dead" =>
    (curRole[n] = "PENDING") = (pc[n] \in {"off", "insert", "read", "pending", "reset", "reread"})

\* The record of a living node says LEADER while it serves, and only then.
LeaderRecord(n) == Alive(n) => (db[n] = "LEADER") = (curRole[n] = "LEADER" /\ pc[n] = "up")

\* The stream of a follower fails only when its leader is dead.
Streams(n) == Alive(n) /\ stream[n] # "none" =>
    /\ pc[n] = "up" /\ curRole[n] = "FOLLOWER"
    /\ stream[n] = "failed" => ~Alive(leager[n])

\* The leader that is followed has started.
Followed(n) == Alive(n) /\ curRole[n] = "FOLLOWER" =>
    leager[n] \in Node /\ pc[leager[n]] \notin {"off", "insert", "read", "first"}

\* The leader's loops run in a node that serves.
LoopLeads(n) == Alive(n) /\ "LEADER" \in loops[n] => curRole[n] = "LEADER" /\ pc[n] = "up"
Unborn(n) == pc[n] = "off" => stream[n] = "none" /\ loops[n] = {}
NodeInv(n) == Recorded(n) /\ Listens(n) /\ Undecided(n) /\ LeaderRecord(n) /\ Streams(n)
              /\ Followed(n) /\ LoopLeads(n) /\ Unborn(n)


\* While a node starts the others are calm.
Alone == \A n, m \in Node : Starting(n) /\ Alive(m) /\ m # n => Calm(m)

\* A node that has decided to lead, and not yet written so, has the top id of
\* those that could decide the same.
TopLeads == \A n, m \in Node :
    Alive(n) /\ curRole[n] = "LEADER" /\ pc[n] # "up" =>
        (Alive(m) /\ ~Starting(m) /\ m # n => m < n)

Single == \A m, n \in Node :
    Alive(m) /\ Alive(n) /\ curRole[m] = "LEADER" /\ curRole[n] = "LEADER" => m = n

ElectInv == stopping = {} /\ (\A n \in Node : NodeInv(n)) /\ Alone /\ TopLeads /\ Single

LEMMA StepNode ==
    ASSUME TypeOK, faults = {}, ElectInv, NEW n \in Node, Step(n), NEW k \in Node
    PROVE  NodeInv(k)'
<1> USE DEF TypeOK, FnType, ElectInv, NodeInv, Recorded, Listens, Undecided, LeaderRecord, Streams,
            Followed, LoopLeads, Unborn, Alive, Starting
<1>1. CASE Boot(n) \/ InsertActiveFairnode(n)
  BY <1>1 DEF Boot, InsertActiveFairnode
<1>2. CASE GetActiveFairnodes(n)
  <2>1. PICK c \in checkRole(n, Records) : /\ curRole' = [curRole EXCEPT ![n] = c.role]
                                           /\ leager' = [leager EXCEPT ![n] = c.leager]
    BY <1>2 DEF GetActiveFairnodes
  <2>2. c.role \in {"LEADER", "FOLLOWER"} /\ Records \in SUBSET Node
    BY RoleDecided DEF Records
  <2>3. c.role = "FOLLOWER" => c.leager \in Records \ {n}
    <3>1. n \in Records /\ db[n] # "LEADER"
      BY <1>2 DEF Records, GetActiveFairnodes
    <3> QED BY <2>2, <3>1, RoleDecided
  <2>4. \A m \in Records \ {n} : pc[m] \notin {"off", "insert", "read", "first"}
    BY <1>2 DEF Records, GetActiveFairnodes, Alone, Calm
  <2> QED BY <1>2, <2>1, <2>2, <2>3, <2>4 DEF GetActiveFairnodes
<1>3. CASE roleChanger(n)
  BY <1>3 DEF roleChanger, UpdateActiveFairnode
<1>4. CASE StreamFails(n)
  BY <1>4 DEF StreamFails
<1>5. CASE UpdatePending(n)
  BY <1>5 DEF UpdatePending, UpdateActiveFairnode
<1>6. CASE Tick(n)
  BY <1>6 DEF Tick
<1>7. CASE SyncError(n)
  BY <1>7 DEF SyncError, RemoveActiveFairnode
<1>8. CASE SendPending(n) \/ FollowerEnds(n)
  BY <1>8 DEF SendPending, FollowerEnds
<1>9. CASE Crash(n)
  BY <1>9 DEF Crash, Dies
<1>10. ~Stop(n) /\ ~Exit(n)
  BY DEF Stop, Exit
<1> QED BY <1>1, <1>2, <1>3, <1>4, <1>5, <1>6, <1>7, <1>8, <1>9, <1>10 DEF Step, Syncer

\* Nobody crashes while a node starts, so that the leader the others follow
\* keeps serving and their streams stay open.
LEMMA StepAlone ==
    ASSUME TypeOK, faults = {}, ElectInv, NEW n \in Node, Step(n)
    PROVE  Alone'
<1> SUFFICES ASSUME NEW s \in Node, NEW m \in Node, Starting(s)', Alive(m)', m # s
             PROVE  Calm(m)'
  BY DEF Alone
<1> USE DEF TypeOK, Alive, Starting
<1>1. CASE Boot(n)
  <2>1. s = n /\ Alive(m) /\ Calm(m)
    BY <1>1 DEF Boot, Calm
  <2>2. curRole[m] = "FOLLOWER" => leager[m] \in Node \ {n}
    BY <1>1, <2>1 DEF Boot, Calm, Serving, ElectInv, NodeInv, Followed
  <2> QED BY <1>1, <2>1, <2>2 DEF Boot, Calm, Serving

<1>2. CASE ~Boot(n)
  <2>1. Starting(s) /\ Alive(m) /\ Alive(n)
    BY <1>2 DEF Step, Syncer, InsertActiveFairnode, GetActiveFairnodes, roleChanger, SyncError,
                SendPending, UpdatePending, Exit, Dies, Tick, FollowerEnds, StreamFails, Crash, Stop
  <2>2. Calm(m) /\ (n # s => Calm(n))
    BY <2>1 DEF ElectInv, Alone
  <2>3. pc[m] = "up" /\ (curRole[m] = "FOLLOWER" =>
            leager[m] \in Node /\ stream[m] = "open" /\ Serving(leager[m]))
    BY <2>1, <2>2 DEF Calm, ElectInv, NodeInv, Followed
  <2>4. CASE n = s
    <3>1. /\ curRole'[m] = curRole[m] /\ leager'[m] = leager[m] /\ stream'[m] = stream[m]
          /\ \A k \in Node : k # n => pc'[k] = pc[k] /\ curRole'[k] = curRole[k]
      BY <2>1, <2>4 DEF Step, Syncer, InsertActiveFairnode, GetActiveFairnodes, roleChanger,
            SyncError, SendPending, UpdatePending, Exit, Dies, Tick, FollowerEnds, StreamFails,
            Crash, Stop, Boot
    <3> QED BY <2>1, <2>3, <2>4, <3>1 DEF Calm, Serving
  <2>5. CASE n # s
    <3>1. pc[n] = "up" /\ ~Crash(n) /\ ~Stop(n) /\ ~Exit(n)
      BY <2>1, <2>2, <2>5 DEF Calm, Crash, Stop, Exit, ElectInv
    <3>2. ~SyncError(n)
      BY <2>2, <2>5 DEF SyncError, Calm
    <3>3. ~StreamFails(n)
      BY <2>1, <2>2, <2>5 DEF StreamFails, Calm, Serving, ElectInv, NodeInv, Listens, Streams, Followed
    <3>4. UNCHANGED <<pc, curRole, leager, stream>>
      BY <1>2, <3>1, <3>2, <3>3 DEF Step, Syncer, InsertActiveFairnode, GetActiveFairnodes,
            roleChanger, SendPending, UpdatePending, Tick, FollowerEnds
    <3> QED BY <2>2, <3>4 DEF Calm, Serving
  <2> QED BY <2>4, <2>5
<1> QED BY <1>1, <1>2

\* A node that reads the records decides to lead only if no other living node
\* leads and none of those that could decide the same has a higher id.
LEMMA DecidesAlone ==
    ASSUME TypeOK, ElectInv, NEW n \in Node, pc[n] \in {"read", "reread"},
           NEW c \in checkRole(n, Records), c.role = "LEADER",
           NEW m \in Node, m # n, Alive(m)
    PROVE  curRole[m] # "LEADER" /\ (~Starting(m) => m < n)
<1> USE DEF TypeOK, Alive, Starting
<1>1. Records \in SUBSET Node /\ n \in Records
  BY DEF Records, ElectInv, NodeInv, Recorded
<1>2. \A k \in Records : k # n => k < n /\ db[k] # "LEADER"
  BY <1>1, RoleDecided
<1>3. ~Starting(m) => m < n
  BY <1>2 DEF Records, ElectInv, NodeInv, Recorded
<1>4. ASSUME curRole[m] = "LEADER" PROVE FALSE
  <2>1. pc[m] # "insert" /\ m \in Records
    BY <1>4 DEF Records, ElectInv, NodeInv, Recorded, Undecided
  <2>2. m < n /\ pc[m] # "up"
    BY <1>2, <1>4, <2>1 DEF ElectInv, NodeInv, LeaderRecord
  <2>3. ~Starting(n)
    BY <2>2 DEF ElectInv, Alone, Calm
  <2>4. n < m
    BY <1>4, <2>2, <2>3 DEF ElectInv, TopLeads
  <2>5. m \in Nat /\ n \in Nat
    BY NodeAssumption
  <2> QED BY <2>2, <2>4, <2>5
<1> QED BY <1>3, <1>4

LEMMA StepSingle ==
    ASSUME TypeOK, faults = {}, ElectInv, NEW n \in Node, Step(n)
    PROVE  TopLeads' /\ Single'
<1> USE DEF TypeOK, Alive, Starting
<1>1. CASE GetActiveFairnodes(n)
  <2>1. PICK c \in checkRole(n, Records) : curRole' = [curRole EXCEPT ![n] = c.role]
    BY <1>1 DEF GetActiveFairnodes
  <2>2. /\ pc[n] \in {"read", "reread"}
        /\ \A k \in Node : k # n => pc'[k] = pc[k] /\ curRole'[k] = curRole[k]
        /\ curRole'[n] = c.role /\ pc'[n] \in {"first", "change"} /\ Starting(n)' = Starting(n)
    BY <1>1, <2>1 DEF GetActiveFairnodes
  <2>3. CASE c.role = "LEADER"
    <3>1. \A m \in Node : m # n /\ Alive(m) => curRole[m] # "LEADER" /\ (~Starting(m) => m < n)
      BY <2>2, <2>3, DecidesAlone
    <3> QED BY <2>2, <2>3, <3>1 DEF TopLeads, Single
  <2>4. CASE c.role # "LEADER"
    BY <2>2, <2>4 DEF ElectInv, TopLeads, Single
  <2> QED BY <2>3, <2>4
<1>2. CASE ~GetActiveFairnodes(n)
  <2>1. \A k \in Node : curRole'[k] = "LEADER" => curRole[k] = "LEADER"
    BY <1>2 DEF Step, Syncer, InsertActiveFairnode, roleChanger, SyncError, SendPending, UpdatePending,
                Exit, Dies, Tick, FollowerEnds, StreamFails, Crash, Stop, Boot
  <2>2. \A k \in Node : Alive(k)' => Alive(k) \/ (k = n /\ Boot(n))
    BY <1>2 DEF Step, Syncer, InsertActiveFairnode, roleChanger, SyncError, SendPending, UpdatePending,
                Exit, Dies, Tick, FollowerEnds, StreamFails, Crash, Stop, Boot
  <2>3. Boot(n) => Starting(n)' /\ curRole[n] # "LEADER"
    BY DEF Boot, ElectInv, NodeInv, Undecided
  <2>4. Single'
    BY <2>1, <2>2, <2>3 DEF ElectInv, Single
  <2>5. TopLeads'
    <3> SUFFICES ASSUME NEW k \in Node, NEW m \in Node, Alive(k)', curRole'[k] = "LEADER",
                        pc'[k] # "up", Alive(m)', ~Starting(m)', m # k
                 PROVE  m < k
      BY DEF TopLeads
    <3>1. curRole[k] = "LEADER" /\ Alive(k) /\ Alive(m)
      BY <2>1, <2>2, <2>3
    <3>2. pc[k] # "up"
      BY <1>2, <3>1 DEF Step, Syncer, InsertActiveFairnode, roleChanger, SyncError, SendPending,
            UpdatePending, Exit, Dies, Tick, FollowerEnds, StreamFails, Crash, Stop, Boot
    <3>3. ~Starting(m)
      BY <3>1, <3>2 DEF ElectInv, Alone, Calm
    <3> QED BY <3>1, <3>2, <3>3 DEF ElectInv, TopLeads
  <2> QED BY <2>4, <2>5
<1> QED BY <1>1, <1>2

\* At most one fairnode runs the leader's loops or has decided to, for every
\* number of fairnodes, where processes are started one at a time while the
\* others have a leader, streams hold, and nodes crash at any other moment.
THEOREM AtMostOneLeader == Spec => []OneLeader
<1> DEFINE Elects == faults = {} => ElectInv
<1>1. Init => TypeOK /\ Elects
  BY DEF Init, TypeOK, FnType, ElectInv, NodeInv, Recorded, Listens, Undecided, LeaderRecord, Streams,
         Followed, LoopLeads, Unborn, Alone, TopLeads, Single, Alive, Starting
<1>2. TypeOK /\ Elects /\ [Next /\ UNCHANGED faults]_<<vars, faults>> => TypeOK' /\ Elects'
  <2>1. ASSUME TypeOK, Elects, Next, UNCHANGED faults PROVE TypeOK' /\ Elects'
    <3>1. PICK n \in Node : Step(n)
      BY <2>1 DEF Next, Step
    <3>2. faults = {} => stopping' = {}
      BY <2>1, <3>1 DEF ElectInv, Step, Syncer, InsertActiveFairnode, GetActiveFairnodes, roleChanger,
            SyncError, SendPending, UpdatePending, Exit, Dies, Tick, FollowerEnds, StreamFails,
            Crash, Stop, Boot
    <3>3. faults = {} => ElectInv'
      BY <2>1, <3>1, <3>2, StepNode, StepAlone, StepSingle DEF ElectInv
    <3> QED BY <2>1, <3>1, <3>3, StepType
  <2>2. ASSUME TypeOK, Elects, UNCHANGED <<vars, faults>> PROVE TypeOK' /\ Elects'
    BY <2>2 DEF vars, TypeOK, ElectInv, NodeInv, Recorded, Listens, Undecided, LeaderRecord, Streams,
                Followed, LoopLeads, Unborn, Alone, TopLeads, Single, Alive, Starting, Calm, Serving
  <2> QED BY <2>1, <2>2
<1>3. TypeOK /\ Elects => OneLeader
  BY DEF ElectInv, NodeInv, LoopLeads, Single, OneLeader
<1> QED BY <1>1, <1>2, <1>3, PTL DEF Spec
=============================================================================
