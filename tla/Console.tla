------------------------------- MODULE Console -------------------------------
(***************************************************************************)
(* The terminal console of the daemon: the WebSocket client that dials     *)
(* again when its connection breaks (ipc/client.go) and the event loop of  *)
(* the Bubble Tea program (tui/app.go), connected to the Hub.              *)
(*                                                                         *)
(* Update handles one message at a time.  What runs beside it are its      *)
(* commands: one reader inside Recv, requests being sent, and timers, which*)
(* come back as messages.  Of the state the module keeps the usage overlay *)
(* and the timers.  The table, its cursor, the filter and the layout are in*)
(* Browser; the tabs and the scrolling of the overlay are left out.        *)
(***************************************************************************)
EXTENDS Hub

CONSTANTS
    DefaultWindow,  \* defaultUsageWindow
    MaxGen          \* bound: generations of the usage ticker

ASSUME ConsoleAssumption ==
    /\ DefaultWindow \in Windows
    /\ MaxGen \in Nat

VARIABLES
    program,      \* "running" or "quit"
    current,      \* Client.conn
    reader,       \* where Recv is: "reading" or "waiting" (for the backoff)
    backoff,      \* the seconds it waits
    sending,      \* the requests whose commands have not run yet
    showUsage, usageWindow, usageGen,
    usageData,    \* the window of the statistics shown, or "none"
    usageTicks,   \* how many refresh ticks of each generation are pending
    busy,         \* anyInFlight: the last snapshot shows a server at work
    animRunning,
    animTicks     \* how many animation ticks are pending

clientVars == <<program, current, reader, backoff>>
usageVars == <<showUsage, usageWindow, usageGen, usageData, usageTicks>>
animVars == <<busy, animRunning, animTicks>>
consoleVars == <<clientVars, sending, usageVars, animVars>>
monitorVars == <<hubVars, consoleVars>>

ConsoleTypeOK ==
    /\ HubTypeOK
    /\ program \in {"running", "quit"}
    /\ current \in Conns
    /\ reader \in {"reading", "waiting"}
    /\ backoff \in {0, 1, 2, 4, 8, 16, 30}
    /\ (backoff = 0) = (reader = "reading")
    /\ sending \subseteq FromPeer
    /\ showUsage \in BOOLEAN
    /\ usageWindow \in Windows
    /\ usageGen \in 0..MaxGen
    /\ usageData \in Windows \cup {"none"}
    /\ usageTicks \in [0..MaxGen -> Nat]
    /\ busy \in BOOLEAN
    /\ animRunning \in BOOLEAN
    /\ animTicks \in Nat

\* The console as it starts with the connection that cmd/tui.go has dialled.
ConsoleInit(dialled) ==
    /\ program = "running"
    /\ current = dialled /\ reader = "reading" /\ backoff = 0
    /\ sending = {}
    /\ showUsage = FALSE /\ usageWindow = DefaultWindow /\ usageGen = 0
    /\ usageData = "none" /\ usageTicks = [g \in 0..MaxGen |-> 0]
    /\ busy = FALSE /\ animRunning = FALSE /\ animTicks = 0

-----------------------------------------------------------------------------
(* The client. *)

\* Mutant of ReconnectBackoff: the wait is doubled without a limit.
ReconnectBackoffDoubles(prev) == IF prev = 0 THEN 1 ELSE prev * 2

\* reconnectBackoff
ReconnectBackoff(prev) ==
    IF prev = 0 THEN 1 ELSE IF prev * 2 > 30 THEN 30 ELSE prev * 2

\* Recv sees the end of its connection, drops it and waits.
ConnectionLost ==
    /\ program = "running"
    /\ reader = "reading"
    /\ conn[current] = "closed"
    /\ reader' = "waiting"
    /\ backoff' = ReconnectBackoff(0)
    /\ UNCHANGED hubVars
    /\ UNCHANGED <<program, current, sending, usageVars, animVars>>

\* Mutant of Dial: after the longest wait no attempt is made.
DialWithinLimit(c) ==
    /\ program = "running"
    /\ reader = "waiting"
    /\ backoff < 30
    /\ Accept(c)
    /\ current' = c
    /\ reader' = "reading"
    /\ backoff' = 0
    /\ UNCHANGED <<program, sending, usageVars, animVars>>

\* The wait is over and the dial succeeds.  Client.conn is replaced; a request
\* that read it before is written to the old connection and is lost.
Dial(c) ==
    /\ program = "running"
    /\ reader = "waiting"
    /\ Accept(c)
    /\ current' = c
    /\ reader' = "reading"
    /\ backoff' = 0
    /\ UNCHANGED <<program, sending, usageVars, animVars>>

\* The dial fails: the daemon is down.
DialFails ==
    /\ program = "running"
    /\ reader = "waiting"
    /\ ~running
    /\ backoff' = ReconnectBackoff(backoff)
    /\ UNCHANGED hubVars
    /\ UNCHANGED <<program, current, reader, sending, usageVars, animVars>>

\* RequestStats, run by a command, and the hub's answer.
Ask(f) ==
    /\ program = "running"
    /\ f \in sending
    /\ sending' = sending \ {f}
    /\ HandleClientFrame(current, f)
    /\ UNCHANGED <<clientVars, usageVars, animVars>>

\* The connection it is written to is closed: the error is ignored, the request
\* is lost.
AskInVain(f) ==
    /\ program = "running"
    /\ f \in sending
    /\ conn[current] = "closed"
    /\ sending' = sending \ {f}
    /\ UNCHANGED hubVars
    /\ UNCHANGED <<clientVars, usageVars, animVars>>

-----------------------------------------------------------------------------
(* Update: messages of the daemon and of the timers. *)

\* maybeStartAnim
MaybeStartAnim(inFlight) ==
    IF ~animRunning /\ inFlight
    THEN animRunning' = TRUE /\ animTicks' = animTicks + 1
    ELSE UNCHANGED <<animRunning, animTicks>>

\* Mutant of HandleEnvelope: statistics are taken as they come.
HandleEnvelopeAnyWindow(f, inFlight) ==
    /\ busy' = IF f.type = "state_snapshot" THEN inFlight ELSE busy
    /\ usageData' = IF f.type = "usage_stats" THEN f.window ELSE usageData

\* handleEnvelope: a snapshot replaces the servers; statistics are kept only when
\* they are for the window that is selected now; hello sets version and TTL.
HandleEnvelope(f, inFlight) ==
    /\ busy' = IF f.type = "state_snapshot" THEN inFlight ELSE busy
    /\ usageData' = IF f.type = "usage_stats" /\ f.window = usageWindow
                    THEN f.window ELSE usageData

\* Recv returns a frame; Update handles it and starts the next Recv.
RecvMsg(inFlight) ==
    /\ program = "running"
    /\ reader = "reading"
    /\ Write(current)
    /\ HandleEnvelope(Head(out[current]), inFlight)
    /\ MaybeStartAnim(busy')
    /\ UNCHANGED <<clientVars, sending, showUsage, usageWindow, usageGen,
                   usageTicks>>

\* tickMsg, every second.
Tick ==
    /\ program = "running"
    /\ MaybeStartAnim(busy)
    /\ UNCHANGED hubVars
    /\ UNCHANGED <<clientVars, sending, usageVars, busy>>

\* animTickMsg: the next tick, or the end of the animation.
AnimTick ==
    /\ program = "running"
    /\ animTicks > 0
    /\ IF busy
       THEN UNCHANGED <<animTicks, animRunning>>
       ELSE animTicks' = animTicks - 1 /\ animRunning' = FALSE
    /\ UNCHANGED hubVars
    /\ UNCHANGED <<clientVars, sending, usageVars, busy>>

\* Mutant of UsageTick: the next tick is scheduled, no request is sent.
UsageTickWithoutRequest(g) ==
    /\ program = "running"
    /\ usageTicks[g] > 0
    /\ IF showUsage /\ g = usageGen
       THEN UNCHANGED usageTicks
       ELSE usageTicks' = [usageTicks EXCEPT ![g] = @ - 1]
    /\ UNCHANGED hubVars
    /\ UNCHANGED <<clientVars, sending, showUsage, usageWindow, usageGen, usageData,
                   animVars>>

\* usageTickMsg: a tick of another generation or of a closed overlay ends there;
\* any other asks again and schedules the next one.
UsageTick(g) ==
    /\ program = "running"
    /\ usageTicks[g] > 0
    /\ IF showUsage /\ g = usageGen
       THEN /\ sending' = sending \cup {StatsRequest(usageWindow)}
            /\ UNCHANGED usageTicks
       ELSE /\ usageTicks' = [usageTicks EXCEPT ![g] = @ - 1]
            /\ UNCHANGED sending
    /\ UNCHANGED hubVars
    /\ UNCHANGED <<clientVars, showUsage, usageWindow, usageGen, usageData,
                   animVars>>

-----------------------------------------------------------------------------
(* Update: keys. *)

\* No usage overlay is open to take the keys.  (Help, models and filter only keep
\* other keys from being seen.)
NormalMode == program = "running" /\ ~showUsage

\* Quit: the context is cancelled and the connection closed; what the program
\* held goes with it.
Quit ==
    /\ NormalMode
    /\ program' = "quit"
    /\ conn' = Closed(current)
    /\ sending' = {}
    /\ usageTicks' = [g \in 0..MaxGen |-> 0]
    /\ usageData' = "none" /\ usageWindow' = DefaultWindow
    /\ busy' = FALSE /\ animRunning' = FALSE /\ animTicks' = 0
    /\ UNCHANGED <<running, clients, handler, writer, out, closes, faults>>
    /\ UNCHANGED <<current, reader, backoff, showUsage, usageGen>>

\* The usage overlay opens: a new generation, a request and the first tick.
OpenUsage ==
    /\ NormalMode
    /\ usageGen < MaxGen
    /\ showUsage' = TRUE
    /\ usageGen' = usageGen + 1
    /\ usageTicks' = [usageTicks EXCEPT ![usageGen + 1] = @ + 1]
    /\ sending' = sending \cup {StatsRequest(usageWindow)}
    /\ UNCHANGED hubVars
    /\ UNCHANGED <<clientVars, usageWindow, usageData, animVars>>

\* Mutant of CloseUsage: the generation stays.
CloseUsageSameGen ==
    /\ program = "running"
    /\ showUsage
    /\ usageGen < MaxGen
    /\ showUsage' = FALSE
    /\ UNCHANGED hubVars
    /\ UNCHANGED <<clientVars, sending, usageWindow, usageGen, usageData, usageTicks,
                   animVars>>

\* It closes: its ticks are of an old generation now.
CloseUsage ==
    /\ program = "running"
    /\ showUsage
    /\ usageGen < MaxGen
    /\ showUsage' = FALSE
    /\ usageGen' = usageGen + 1
    /\ UNCHANGED hubVars
    /\ UNCHANGED <<clientVars, sending, usageWindow, usageData, usageTicks,
                   animVars>>

\* Another window is selected: the data goes, a request is sent, and the ticker
\* that runs stays.
SelectWindow(w) ==
    /\ program = "running"
    /\ showUsage
    /\ w # usageWindow
    /\ usageWindow' = w
    /\ usageData' = "none"
    /\ sending' = sending \cup {StatsRequest(w)}
    /\ UNCHANGED hubVars
    /\ UNCHANGED <<clientVars, showUsage, usageGen, usageTicks, animVars>>

-----------------------------------------------------------------------------
\* The goroutines: a connection's handler and its writer, the console's reader.
HandlerStep(c) == SendHello(c) \/ StartClient(c) \/ ReadFails(c)

ReaderStep ==
    \/ ConnectionLost
    \/ \E c \in Conns : Dial(c)
    \/ \E inFlight \in BOOLEAN : RecvMsg(inFlight)

ConsoleNext ==
    \/ ReaderStep
    \/ DialFails
    \/ \E f \in FromPeer : Ask(f) \/ AskInVain(f)
    \/ Tick
    \/ AnimTick
    \/ \E g \in 0..MaxGen : UsageTick(g)
    \/ Quit
    \/ OpenUsage
    \/ CloseUsage
    \/ \E w \in Windows : SelectWindow(w)

MonitorInit ==
    LET first == CHOOSE c \in Conns : TRUE
    IN  HubInit({first}) /\ ConsoleInit(first)

MonitorNext ==
    \/ HubNext /\ UNCHANGED consoleVars
    \/ ConsoleNext

\* They go on, as do commands, the refresh ticker and a daemon that is shutting
\* down; nobody has to press a key, and servers need not be busy.
MonitorSpec ==
    /\ MonitorInit
    /\ [][MonitorNext]_monitorVars
    /\ \A c \in Conns :
          /\ WF_monitorVars(HandlerStep(c) /\ UNCHANGED consoleVars)
          /\ WF_monitorVars(WriterReturns(c) /\ UNCHANGED consoleVars)
    /\ WF_monitorVars(Restart /\ UNCHANGED consoleVars)
    /\ WF_monitorVars(ReaderStep)
    /\ \A f \in FromPeer : WF_monitorVars(Ask(f) \/ AskInVain(f))
    /\ WF_monitorVars(\E g \in 0..MaxGen : UsageTick(g))

-----------------------------------------------------------------------------
(* Properties. *)

\* While the usage overlay is open exactly one refresh tick of its generation is
\* pending, however often it was closed and opened again while ticks were under
\* way, and while it is closed none that would refresh; the animation, which
\* snapshots and two tickers may start, has one ticker while it runs and none
\* otherwise.
OneTickerEach ==
    /\ program = "running" =>
          usageTicks[usageGen] = IF showUsage THEN 1 ELSE 0
    /\ animTicks = IF animRunning THEN 1 ELSE 0

\* The statistics on the screen are those of the selected window, also when the
\* answer to an earlier request arrives after the window was changed.
DataOfSelectedWindow ==
    usageData # "none" => usageData = usageWindow

\* A connection the hub has closed leaves its map, and a hub that is gone or a
\* console that has quit leaves nothing behind.
ClosedIsForgotten ==
    \A c \in Conns : conn[c] = "closed" ~> c \notin clients

\* An open usage overlay comes to show the statistics of its window, whatever
\* connections break and requests are lost on the way, unless the user moves on.
UsageIsShown ==
    \A w \in Windows :
        (showUsage /\ usageWindow = w)
            ~> (usageData = w \/ ~showUsage \/ usageWindow # w)

\* A console that has lost its connection gets another one, however long the
\* daemon was away: the waits grow to 30 s and never end the attempts.
Reconnects ==
    reader = "waiting" ~> (conn[current] = "open" \/ program = "quit")
=============================================================================
