------------------------------ MODULE DebClient ------------------------------
(***************************************************************************)
(* The life of the connection to the fairnode: DebClient.Start, Stop and   *)
(* close (consensus/deb/client/client.go), the heartBeat goroutine with    *)
(* its requestOtprn, and the worker's side of it: start, stop, debStart    *)
(* and clientStatusLoop, which starts the client again ten seconds after   *)
(* it was closed (miner/worker.go).                                        *)
(***************************************************************************)
EXTENDS Naturals, FiniteSets

CONSTANTS
    Beats,      \* how many heartBeat goroutines may be alive at once
    MaxTimers,  \* no connection is lost or stopped with more retries pending
    Faults      \* {"overtake"}: another goroutine runs between two adjacent
                \* statements of Start or close

ASSUME ClientAssumption == Beats \in Nat \ {0} /\ MaxTimers \in Nat
                           /\ Faults \subseteq {"overtake"}

Beat == 1 .. Beats

VARIABLES
    mining,     \* w.running
    running,    \* dc.running
    conn,       \* dc.grpcConn is open
    beat,       \* the heartBeat goroutines: "none", "run", or in close
    stop,       \* where worker.stop is: "idle", or in close
    csl,        \* clientStatusLoop: "idle", "stop", or in close
    timers,     \* pending AfterFunc calls
    dialling,   \* who is in Start: "api", "timer"
    started     \* heartBeats whose Start has not yet set dc.running

clientVars == <<mining, running, conn, beat, stop, csl, timers, dialling, started>>

ClientInit ==
    /\ mining = FALSE /\ running = FALSE /\ conn = FALSE
    /\ beat = [b \in Beat |-> "none"]
    /\ stop = "idle" /\ csl = "idle"
    /\ timers = 0
    /\ dialling = {} /\ started = {}

\* A goroutine that stands before an assignment of dc.running gets there before
\* clientStatusLoop reads it, and that before a new call is made.
Stored == started = {} /\ stop # "store" /\ \A b \in Beat : beat[b] # "store"
Undisturbed == "overtake" \in Faults \/ (Stored /\ csl # "stop")

-----------------------------------------------------------------------------
\* Start returns at once if the client is running.
Enter(t) == dialling' = IF running THEN dialling ELSE dialling \cup {t}

\* worker.start, called by the miner's API.  (Bound: heartBeats left over from
\* earlier starts leave room for two more.)
start ==
    /\ Undisturbed /\ ~mining /\ stop = "idle" /\ "api" \notin dialling
    /\ Cardinality({b \in Beat : beat[b] # "none"}) + 1 < Beats
    /\ mining' = TRUE
    /\ Enter("api")
    /\ UNCHANGED <<running, conn, beat, stop, csl, timers, started>>

\* The function that clientStatusLoop leaves behind runs.
retry ==
    /\ Undisturbed /\ timers > 0 /\ "timer" \notin dialling
    /\ timers' = timers - 1
    /\ IF mining THEN Enter("timer") ELSE UNCHANGED dialling
    /\ UNCHANGED <<mining, running, conn, beat, stop, csl, started>>

\* Start: grpc.Dial and go heartBeat ...
Dial(t) ==
    /\ Undisturbed /\ t \in dialling
    /\ dialling' = dialling \ {t}
    /\ conn' = TRUE
    /\ \E b \in Beat :
         /\ beat[b] = "none" /\ b \notin started
         /\ beat' = [beat EXCEPT ![b] = "run"]
         /\ started' = started \cup {b}
    /\ UNCHANGED <<mining, running, stop, csl, timers>>

\* ... and the assignment that follows.
Started(b) ==
    /\ b \in started
    /\ started' = started \ {b}
    /\ running' = TRUE
    /\ UNCHANGED <<mining, conn, beat, stop, csl, timers, dialling>>

-----------------------------------------------------------------------------
\* A call of heartBeat or of its requestOtprn fails: the fairnode cannot be
\* reached, or the connection was closed.  close: the connection ...
heartBeatFails(b) ==
    /\ Undisturbed /\ beat[b] = "run" /\ (conn => timers <= MaxTimers)
    /\ beat' = [beat EXCEPT ![b] = "send"]
    /\ conn' = FALSE
    /\ UNCHANGED <<mining, running, stop, csl, timers, dialling, started>>

\* ... closeClient.Send waits for clientStatusLoop ...
heartBeatSends(b) ==
    /\ Undisturbed /\ beat[b] = "send" /\ csl = "idle"
    /\ beat' = [beat EXCEPT ![b] = "store"]
    /\ csl' = "stop"
    /\ UNCHANGED <<mining, running, conn, stop, timers, dialling, started>>

\* Variant: dc.running stays set.
heartBeatEndsRunning(b) ==
    /\ beat[b] = "store"
    /\ beat' = [beat EXCEPT ![b] = "none"]
    /\ UNCHANGED <<mining, running, conn, stop, csl, timers, dialling, started>>

\* ... and dc.running.
heartBeatEnds(b) ==
    /\ beat[b] = "store"
    /\ beat' = [beat EXCEPT ![b] = "none"]
    /\ running' = FALSE
    /\ UNCHANGED <<mining, conn, stop, csl, timers, dialling, started>>

\* worker.stop: Stop closes a client that is running, the same three steps.
stopMining ==
    /\ Undisturbed /\ mining /\ stop = "idle" /\ "api" \notin dialling
    /\ timers <= MaxTimers
    /\ mining' = FALSE
    /\ IF running THEN stop' = "send" /\ conn' = FALSE ELSE UNCHANGED <<stop, conn>>
    /\ UNCHANGED <<running, beat, csl, timers, dialling, started>>

stopSends ==
    /\ Undisturbed /\ stop = "send" /\ csl = "idle"
    /\ stop' = "store" /\ csl' = "stop"
    /\ UNCHANGED <<mining, running, conn, beat, timers, dialling, started>>

stopEnds ==
    /\ stop = "store"
    /\ stop' = "idle" /\ running' = FALSE
    /\ UNCHANGED <<mining, conn, beat, csl, timers, dialling, started>>

\* Variant: clientStatusLoop does not leave a retry behind.
clientStatusLoopOnce ==
    /\ csl = "stop" /\ ("overtake" \in Faults \/ Stored)
    /\ IF running THEN csl' = "send" /\ conn' = FALSE /\ UNCHANGED timers
       ELSE csl' = "idle" /\ UNCHANGED <<conn, timers>>
    /\ UNCHANGED <<mining, running, beat, stop, dialling, started>>

\* clientStatusLoop has the event and calls Stop.  If dc.running is still set
\* it enters close itself, and its Send waits for a receiver that is this very
\* goroutine.
clientStatusLoop ==
    /\ csl = "stop" /\ ("overtake" \in Faults \/ Stored)
    /\ IF running THEN csl' = "send" /\ conn' = FALSE /\ UNCHANGED timers
       ELSE csl' = "idle" /\ timers' = timers + 1 /\ UNCHANGED conn
    /\ UNCHANGED <<mining, running, beat, stop, dialling, started>>

-----------------------------------------------------------------------------
heartBeat(b) == heartBeatFails(b) \/ heartBeatSends(b) \/ heartBeatEnds(b)
Start == (\E t \in {"api", "timer"} : Dial(t)) \/ (\E b \in Beat : Started(b))
Stop == stopSends \/ stopEnds

ClientNext == \/ start \/ stopMining \/ Stop \/ retry \/ Start \/ clientStatusLoop
        \/ \E b \in Beat : heartBeat(b)

\* Goroutines and timers run, and a call on a closed connection fails.  Nobody
\* has to use the API or to lose the fairnode.
Fairness ==
    /\ WF_clientVars(Stop) /\ WF_clientVars(retry) /\ WF_clientVars(Start) /\ WF_clientVars(clientStatusLoop)
    /\ \A b \in Beat : /\ WF_clientVars(heartBeatSends(b)) /\ WF_clientVars(heartBeatEnds(b))
                       /\ WF_clientVars(~conn /\ heartBeatFails(b))

ClientSpec == ClientInit /\ [][ClientNext]_clientVars /\ Fairness

-----------------------------------------------------------------------------
\* A client that says it is running has a heartBeat that is alive or about to
\* say otherwise: Start refuses to connect a running client (client.go:122).
RunningIsAlive == running => stop # "idle" \/ \E b \in Beat : beat[b] # "none"

\* A miner that is not stopped gets its client back, as often as the fairnode
\* is lost ("Retry Mining", worker.go:385).
Reconnects == mining /\ ~running ~> running \/ ~mining
=============================================================================
