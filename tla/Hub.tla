--------------------------------- MODULE Hub ---------------------------------
(***************************************************************************)
(* The publisher of the daemon's state (ipc/server.go) and its WebSocket   *)
(* connections.  For every connection there are a handler, which reads the *)
(* peer's frames, and a writer, which sends what is in the connection's    *)
(* bounded queue; a ticker puts a snapshot into every queue.               *)
(*                                                                         *)
(* A frame is a record of its type and, for the usage statistics, of the   *)
(* window asked for; what a snapshot says is chosen by its receiver.  A    *)
(* connection is a slot that may be used again when the hub has done with  *)
(* it.  Both ends see a broken connection as closed.  A frame goes from    *)
(* the queue to its reader in one step: what the network holds counts as   *)
(* still queued.                                                           *)
(***************************************************************************)
EXTENDS Naturals, Sequences

CONSTANTS
    Conns,      \* the connections that can exist at a time
    Windows,    \* the windows of the usage statistics
    OutCap,     \* the capacity of a client's queue, 64 in the code
    MaxFaults   \* bound: ticks that come before the last frames are sent, writes
                \* that time out, breaks of the network, restarts of the daemon

ASSUME HubAssumption ==
    /\ Conns # {}
    /\ OutCap \in Nat \ {0}
    /\ MaxFaults \in Nat

VARIABLES
    running,  \* Hub.Run serves: the daemon is up and not shutting down
    conn,     \* the state of the WebSocket: "open" or "closed"
    clients,  \* Hub.clients: the registered connections
    handler,  \* where the connection's handler is: "none", "registered",
              \* "greeted" (hello is queued) or "reading"
    writer,   \* the connection's writer: "none" or "running"
    out,      \* hubClient.out
    closes,   \* how often hubClient.closed has been closed
    faults    \* the number of faults so far

hubVars == <<running, conn, clients, handler, writer, out, closes, faults>>

Hello == [type |-> "hello"]
Snapshot == [type |-> "state_snapshot"]
UsageStats(w) == [type |-> "usage_stats", window |-> w]
StatsRequest(w) == [type |-> "stats_request", window |-> w]

FromHub == {Hello, Snapshot} \cup {UsageStats(w) : w \in Windows}
FromPeer == {StatsRequest(w) : w \in Windows}

HubTypeOK ==
    /\ running \in BOOLEAN
    /\ conn \in [Conns -> {"open", "closed"}]
    /\ clients \subseteq Conns
    /\ handler \in [Conns -> {"none", "registered", "greeted", "reading"}]
    /\ writer \in [Conns -> {"none", "running"}]
    /\ out \in [Conns -> Seq(FromHub)]
    /\ \A c \in Conns : Len(out[c]) <= OutCap
    /\ closes \in [Conns -> 0..1]
    /\ faults \in 0..MaxFaults

\* The hub with the connections that have just been accepted.
HubInit(dialled) ==
    /\ running = TRUE
    /\ conn = [c \in Conns |-> IF c \in dialled THEN "open" ELSE "closed"]
    /\ clients = dialled
    /\ handler = [c \in Conns |-> IF c \in dialled THEN "registered" ELSE "none"]
    /\ writer = [c \in Conns |-> "none"]
    /\ out = [c \in Conns |-> <<>>]
    /\ closes = [c \in Conns |-> 0]
    /\ faults = 0

-----------------------------------------------------------------------------
\* closeConn: the WebSocket is closed, once.
Closed(c) == [conn EXCEPT ![c] = "closed"]

\* sendTo: the frame is dropped when the queue is full.
Queued(q, f) == IF Len(q) < OutCap THEN Append(q, f) ELSE q

\* A fault of the environment, of which there are finitely many.
Fault == faults < MaxFaults /\ faults' = faults + 1

\* close(c.closed), unless it is closed already.
ClosedOnce(c) == [closes EXCEPT ![c] = IF @ = 0 THEN 1 ELSE @]

\* The upgrade of a request and register, in a slot the hub has done with.  The
\* HTTP server may still accept when Run has closed all clients and returned.
Accept(c) ==
    /\ conn[c] = "closed" /\ handler[c] = "none" /\ writer[c] = "none"
    /\ conn' = [conn EXCEPT ![c] = "open"]
    /\ clients' = clients \cup {c}
    /\ handler' = [handler EXCEPT ![c] = "registered"]
    /\ closes' = [closes EXCEPT ![c] = 0]
    /\ UNCHANGED <<running, writer, out, faults>>

\* The handler queues the hello.  The connection is registered: a snapshot of
\* the ticker may be in the queue before it.
SendHello(c) ==
    /\ handler[c] = "registered"
    /\ out' = [out EXCEPT ![c] = Queued(@, Hello)]
    /\ handler' = [handler EXCEPT ![c] = "greeted"]
    /\ UNCHANGED <<running, conn, clients, writer, closes, faults>>

\* It queues the first snapshot, starts the writer and begins to read.
StartClient(c) ==
    /\ handler[c] = "greeted"
    /\ out' = [out EXCEPT ![c] = Queued(@, Snapshot)]
    /\ handler' = [handler EXCEPT ![c] = "reading"]
    /\ writer' = [writer EXCEPT ![c] = "running"]
    /\ UNCHANGED <<running, conn, clients, closes, faults>>

\* The answer to a request for statistics (handleClientFrame, buildUsageStats):
\* only the one that asked gets it.  The windows asked for are known ones, so that
\* statsWindow leaves them alone.  (The request for a snapshot, F5, is left out:
\* its answer is one more snapshot in the queue.)
Reply(f) == UsageStats(f.window)

HandleClientFrame(c, f) ==
    /\ handler[c] = "reading"
    /\ conn[c] = "open"
    /\ out' = [out EXCEPT ![c] = Queued(@, Reply(f))]
    /\ UNCHANGED <<running, conn, clients, handler, writer, closes, faults>>

\* Mutant of Unregister: the channel is closed, the entry of the map stays.
UnregisterKeepsEntry(c) ==
    /\ clients' = clients
    /\ closes' = IF c \in clients THEN ClosedOnce(c) ELSE closes

\* unregister: the entry of the map goes, and the channel is closed unless
\* closeAll has closed it.
Unregister(c) ==
    /\ clients' = clients \ {c}
    /\ closes' = IF c \in clients THEN ClosedOnce(c) ELSE closes

\* The read fails: closeConn, and the handler returns, which unregisters the
\* connection and cancels the context of the writer.  (What is queued can no
\* longer be sent.)
ReadFails(c) ==
    /\ handler[c] = "reading"
    /\ conn[c] = "closed"
    /\ Unregister(c)
    /\ handler' = [handler EXCEPT ![c] = "none"]
    /\ out' = [out EXCEPT ![c] = <<>>]
    /\ UNCHANGED <<running, conn, writer, faults>>

\* The writer sends the next frame.
Write(c) ==
    /\ writer[c] = "running"
    /\ conn[c] = "open"
    /\ out[c] # <<>>
    /\ out' = [out EXCEPT ![c] = Tail(@)]
    /\ UNCHANGED <<running, conn, clients, handler, writer, closes, faults>>

\* A write fails, on a closed connection or after 5 s on one whose peer does not
\* read: the writer closes the connection and returns.
WriteFails(c) ==
    /\ writer[c] = "running"
    /\ out[c] # <<>>
    /\ IF conn[c] = "closed" THEN UNCHANGED faults ELSE Fault
    /\ conn' = Closed(c)
    /\ out' = [out EXCEPT ![c] = Tail(@)]
    /\ writer' = [writer EXCEPT ![c] = "none"]
    /\ UNCHANGED <<running, clients, handler, closes>>

\* The writer sees its context or the closed channel.
WriterReturns(c) ==
    /\ writer[c] = "running"
    /\ handler[c] = "none" \/ closes[c] > 0
    /\ writer' = [writer EXCEPT ![c] = "none"]
    /\ UNCHANGED <<running, conn, clients, handler, out, closes, faults>>

\* broadcastSnapshot, once a second.  A client whose queue is full is closed as
\* a slow consumer; its handler will unregister it.  A second is long enough to
\* send what is queued, unless the peer stalls.
BroadcastSnapshot ==
    /\ running
    /\ clients # {}
    /\ IF \A c \in clients : out[c] = <<>> THEN UNCHANGED faults ELSE Fault
    /\ out' = [c \in Conns |-> IF c \in clients THEN Queued(out[c], Snapshot) ELSE out[c]]
    /\ conn' = [c \in Conns |-> IF c \in clients /\ Len(out[c]) = OutCap
                                THEN "closed" ELSE conn[c]]
    /\ UNCHANGED <<running, clients, handler, writer, closes>>

\* Shutdown: Run calls closeAll and returns.  The clients stay in the map until
\* their handlers have seen it.
CloseAll ==
    /\ running
    /\ Fault
    /\ running' = FALSE
    /\ conn' = [c \in Conns |-> IF c \in clients THEN "closed" ELSE conn[c]]
    /\ closes' = [c \in Conns |-> IF c \in clients THEN ClosedOnce(c)[c] ELSE closes[c]]
    /\ UNCHANGED <<clients, handler, writer, out>>

\* The network breaks a connection.
Break(c) ==
    /\ conn[c] = "open"
    /\ Fault
    /\ conn' = Closed(c)
    /\ UNCHANGED <<running, clients, handler, writer, out, closes>>

\* The daemon has ended and starts again: a new hub, without clients.
Restart ==
    /\ ~running
    /\ running' = TRUE
    /\ conn' = [c \in Conns |-> "closed"]
    /\ clients' = {}
    /\ handler' = [c \in Conns |-> "none"]
    /\ writer' = [c \in Conns |-> "none"]
    /\ out' = [c \in Conns |-> <<>>]
    /\ closes' = [c \in Conns |-> 0]
    /\ UNCHANGED faults

\* The steps of the hub alone; Write and HandleClientFrame need the peer.
HubNext ==
    \/ \E c \in Conns :
          \/ SendHello(c)
          \/ StartClient(c)
          \/ ReadFails(c)
          \/ WriteFails(c)
          \/ WriterReturns(c)
          \/ Break(c)
    \/ BroadcastSnapshot
    \/ CloseAll
    \/ Restart
-----------------------------------------------------------------------------
=============================================================================
