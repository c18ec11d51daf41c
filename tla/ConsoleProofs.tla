---------------------------- MODULE ConsoleProofs ---------------------------
(***************************************************************************)
(* The timers and the statistics of the console and the types of its state *)
(* and the hub's, for any number of connections, windows and reopenings of *)
(* the overlay, and whatever the hub and the network do: a tick or an      *)
(* answer that comes late changes nothing, no queue outgrows its capacity, *)
(* and the wait before a dial stays within its limit.                      *)
(***************************************************************************)
EXTENDS Console, TLAPS

\* Types of the console's counters.
TimerTypes ==
    /\ usageGen \in 0..MaxGen
    /\ usageTicks \in [0..MaxGen -> Nat]
    /\ showUsage \in BOOLEAN
    /\ animRunning \in BOOLEAN
    /\ animTicks \in Nat

\* Generations that have not begun have no ticks.
FutureIsQuiet == \A g \in 0..MaxGen : g > usageGen => usageTicks[g] = 0

\* The ticker of the overlay.
OneUsageTicker ==
    program = "running" =>
        /\ showUsage => usageTicks[usageGen] = 1
        /\ ~showUsage => usageTicks[usageGen] = 0

\* The ticker of the animation.
OneAnimTicker ==
    /\ animRunning => animTicks = 1
    /\ ~animRunning => animTicks = 0

TimerInv == TimerTypes /\ FutureIsQuiet /\ OneUsageTicker /\ OneAnimTicker

-----------------------------------------------------------------------------

LEMMA TimerInit == MonitorInit => TimerInv
<1> SUFFICES ASSUME MonitorInit PROVE TimerInv
  OBVIOUS
<1>1. PICK c \in {CHOOSE d \in Conns : TRUE} : ConsoleInit(c)
  BY DEF MonitorInit
<1>2. TimerTypes
  <2>1. usageGen = 0 /\ usageTicks = [g \in 0..MaxGen |-> 0] /\ animTicks = 0
    BY <1>1 DEF ConsoleInit
  <2>2. showUsage = FALSE /\ animRunning = FALSE
    BY <1>1 DEF ConsoleInit
  <2>3. usageGen \in 0..MaxGen /\ usageTicks \in [0..MaxGen -> Nat] /\ animTicks \in Nat
    BY <2>1, ConsoleAssumption
  <2> QED BY <2>2, <2>3 DEF TimerTypes
<1>3. FutureIsQuiet BY <1>1 DEF ConsoleInit, FutureIsQuiet
<1>4. OneUsageTicker BY <1>1, ConsoleAssumption DEF ConsoleInit, OneUsageTicker
<1>5. OneAnimTicker BY <1>1 DEF ConsoleInit, OneAnimTicker
<1> QED BY <1>2, <1>3, <1>4, <1>5 DEF TimerInv

\* What starts the animation looks for a ticker that runs.
LEMMA AnimStart ==
    ASSUME TimerTypes, OneAnimTicker, NEW inFlight, MaybeStartAnim(inFlight)
    PROVE  OneAnimTicker' /\ animRunning' \in BOOLEAN /\ animTicks' \in Nat
<1>1. CASE ~animRunning /\ inFlight
  BY <1>1 DEF MaybeStartAnim, OneAnimTicker, TimerTypes
<1>2. CASE ~(~animRunning /\ inFlight)
  BY <1>2 DEF MaybeStartAnim, OneAnimTicker, TimerTypes
<1> QED BY <1>1, <1>2

\* Steps that leave the timers alone.
LEMMA TimersUntouched ==
    ASSUME TimerInv, UNCHANGED <<program, showUsage, usageGen, usageTicks, animRunning, animTicks>>
    PROVE  TimerInv'
<1>1. TimerTypes' BY DEF TimerInv, TimerTypes
<1>2. FutureIsQuiet' BY DEF TimerInv, FutureIsQuiet
<1>3. OneUsageTicker' BY DEF TimerInv, OneUsageTicker
<1>4. OneAnimTicker' BY DEF TimerInv, OneAnimTicker
<1> QED BY <1>1, <1>2, <1>3, <1>4 DEF TimerInv

\* Steps that may start the animation.
LEMMA TimersAnim ==
    ASSUME TimerInv, NEW inFlight, MaybeStartAnim(inFlight),
           UNCHANGED <<program, showUsage, usageGen, usageTicks>>
    PROVE  TimerInv'
<1>1. OneAnimTicker' /\ animRunning' \in BOOLEAN /\ animTicks' \in Nat
  BY AnimStart DEF TimerInv
<1>2. TimerTypes' BY <1>1 DEF TimerInv, TimerTypes
<1>3. FutureIsQuiet' BY DEF TimerInv, FutureIsQuiet
<1>4. OneUsageTicker' BY DEF TimerInv, OneUsageTicker
<1> QED BY <1>1, <1>2, <1>3, <1>4 DEF TimerInv

LEMMA TimersAnimTick ==
    ASSUME TimerInv, AnimTick
    PROVE  TimerInv'
<1>1. UNCHANGED <<program, showUsage, usageGen, usageTicks>>
  BY DEF AnimTick, clientVars, usageVars
<1>2. OneAnimTicker' /\ animRunning' \in BOOLEAN /\ animTicks' \in Nat
  <2>1. CASE busy
    BY <2>1 DEF AnimTick, TimerInv, TimerTypes, OneAnimTicker
  <2>2. CASE ~busy
    <3>1. animTicks = 1
      BY DEF AnimTick, TimerInv, TimerTypes, OneAnimTicker
    <3>2. animTicks' = 0 /\ animRunning' = FALSE
      BY <2>2, <3>1 DEF AnimTick
    <3> QED BY <3>2 DEF OneAnimTicker
  <2> QED BY <2>1, <2>2
<1>3. TimerTypes' BY <1>1, <1>2 DEF TimerInv, TimerTypes
<1>4. FutureIsQuiet' BY <1>1 DEF TimerInv, FutureIsQuiet
<1>5. OneUsageTicker' BY <1>1 DEF TimerInv, OneUsageTicker
<1> QED BY <1>2, <1>3, <1>4, <1>5 DEF TimerInv

\* A tick of another generation, or of a closed overlay, ends.
LEMMA TimersUsageTick ==
    ASSUME TimerInv, NEW g \in 0..MaxGen, UsageTick(g)
    PROVE  TimerInv'
<1>1. program = "running" /\ usageTicks[g] > 0 /\ UNCHANGED <<program, showUsage, usageGen, animRunning, animTicks>>
  BY DEF UsageTick, clientVars, animVars
<1>2. CASE showUsage /\ g = usageGen
  BY <1>1, <1>2, TimersUntouched DEF UsageTick
<1>3. CASE ~(showUsage /\ g = usageGen)
  <2>1. usageTicks' = [usageTicks EXCEPT ![g] = @ - 1]
    BY <1>3 DEF UsageTick
  <2>2. g # usageGen
    BY <1>1, <1>3 DEF TimerInv, OneUsageTicker
  <2>3. TimerTypes'
    BY <1>1, <2>1 DEF TimerInv, TimerTypes
  <2>4. FutureIsQuiet'
    BY <1>1, <2>1 DEF TimerInv, TimerTypes, FutureIsQuiet
  <2>5. usageTicks'[usageGen] = usageTicks[usageGen]
    BY <2>1, <2>2 DEF TimerInv, TimerTypes
  <2>6. OneUsageTicker'
    BY <1>1, <2>5 DEF TimerInv, OneUsageTicker
  <2>7. OneAnimTicker'
    BY <1>1 DEF TimerInv, OneAnimTicker
  <2> QED BY <2>3, <2>4, <2>6, <2>7 DEF TimerInv
<1> QED BY <1>2, <1>3

\* The first tick of a new generation.
LEMMA TimersOpen ==
    ASSUME TimerInv, OpenUsage
    PROVE  TimerInv'
<1>1. /\ usageGen < MaxGen /\ showUsage' = TRUE /\ usageGen' = usageGen + 1
      /\ usageTicks' = [usageTicks EXCEPT ![usageGen + 1] = @ + 1]
      /\ UNCHANGED <<program, animRunning, animTicks>>
  BY DEF OpenUsage, clientVars, animVars
<1>2. usageGen + 1 \in 0..MaxGen /\ usageTicks[usageGen + 1] = 0
  BY <1>1, ConsoleAssumption DEF TimerInv, TimerTypes, FutureIsQuiet
<1>3. usageTicks'[usageGen'] = 1
  BY <1>1, <1>2 DEF TimerInv, TimerTypes
<1>4. TimerTypes'
  BY <1>1, <1>2 DEF TimerInv, TimerTypes
<1>5. FutureIsQuiet'
  BY <1>1, <1>2 DEF TimerInv, TimerTypes, FutureIsQuiet
<1>6. OneUsageTicker'
  BY <1>1, <1>3 DEF OneUsageTicker
<1>7. OneAnimTicker'
  BY <1>1 DEF TimerInv, OneAnimTicker
<1> QED BY <1>4, <1>5, <1>6, <1>7 DEF TimerInv

\* The ticks under way are of an old generation.
LEMMA TimersClose ==
    ASSUME TimerInv, CloseUsage
    PROVE  TimerInv'
<1>1. /\ usageGen < MaxGen /\ showUsage' = FALSE /\ usageGen' = usageGen + 1
      /\ UNCHANGED <<program, usageTicks, animRunning, animTicks>>
  BY DEF CloseUsage, clientVars, animVars
<1>2. usageGen + 1 \in 0..MaxGen /\ usageTicks[usageGen + 1] = 0
  BY <1>1, ConsoleAssumption DEF TimerInv, TimerTypes, FutureIsQuiet
<1>3. TimerTypes'
  BY <1>1, <1>2 DEF TimerInv, TimerTypes
<1>4. FutureIsQuiet'
  BY <1>1 DEF TimerInv, TimerTypes, FutureIsQuiet
<1>5. OneUsageTicker'
  BY <1>1, <1>2 DEF OneUsageTicker
<1>6. OneAnimTicker'
  BY <1>1 DEF TimerInv, OneAnimTicker
<1> QED BY <1>3, <1>4, <1>5, <1>6 DEF TimerInv

\* The timers go with the program.
LEMMA TimersQuit ==
    ASSUME TimerInv, Quit
    PROVE  TimerInv'
<1>1. /\ program' = "quit" /\ usageTicks' = [g \in 0..MaxGen |-> 0]
      /\ animRunning' = FALSE /\ animTicks' = 0
      /\ UNCHANGED <<showUsage, usageGen>>
  BY DEF Quit
<1>2. TimerTypes' BY <1>1 DEF TimerInv, TimerTypes
<1>3. FutureIsQuiet' BY <1>1 DEF FutureIsQuiet
<1>4. OneUsageTicker' BY <1>1 DEF OneUsageTicker
<1>5. OneAnimTicker' BY <1>1 DEF OneAnimTicker
<1> QED BY <1>2, <1>3, <1>4, <1>5 DEF TimerInv

\* One step per action.
LEMMA TimerNext == TimerInv /\ [MonitorNext]_monitorVars => TimerInv'
<1> SUFFICES ASSUME TimerInv, [MonitorNext]_monitorVars PROVE TimerInv'
  OBVIOUS
<1> USE DEF clientVars, usageVars, animVars
<1>1. CASE UNCHANGED consoleVars
  BY <1>1, TimersUntouched DEF consoleVars
<1>2. CASE ConnectionLost BY <1>2, TimersUntouched DEF ConnectionLost
<1>3. ASSUME NEW c \in Conns, Dial(c) PROVE TimerInv'
  BY <1>3, TimersUntouched DEF Dial
<1>4. ASSUME NEW inFlight \in BOOLEAN, RecvMsg(inFlight) PROVE TimerInv'
  BY <1>4, TimersAnim DEF RecvMsg
<1>5. CASE DialFails BY <1>5, TimersUntouched DEF DialFails
<1>6. ASSUME NEW f \in FromPeer, Ask(f) PROVE TimerInv'
  BY <1>6, TimersUntouched DEF Ask
<1>7. ASSUME NEW f \in FromPeer, AskInVain(f) PROVE TimerInv'
  BY <1>7, TimersUntouched DEF AskInVain
<1>8. CASE Tick BY <1>8, TimersAnim DEF Tick
<1>9. CASE AnimTick BY <1>9, TimersAnimTick
<1>10. ASSUME NEW g \in 0..MaxGen, UsageTick(g) PROVE TimerInv'
  BY <1>10, TimersUsageTick
<1>11. CASE Quit BY <1>11, TimersQuit
<1>12. CASE OpenUsage BY <1>12, TimersOpen
<1>13. CASE CloseUsage BY <1>13, TimersClose
<1>14. ASSUME NEW w \in Windows, SelectWindow(w) PROVE TimerInv'
  BY <1>14, TimersUntouched DEF SelectWindow
<1>15. CASE UNCHANGED monitorVars
  BY <1>1, <1>15 DEF monitorVars
<1> QED
  BY <1>1, <1>2, <1>3, <1>4, <1>5, <1>6, <1>7, <1>8, <1>9, <1>10, <1>11, <1>12,
     <1>13, <1>14, <1>15
  DEF MonitorNext, ConsoleNext, ReaderStep

\* For any number of connections, windows and reopenings, and whatever the hub
\* and the network do, an open usage overlay has one refresh ticker and a closed
\* one none, and the animation has one ticker exactly while it runs (the
\* generations of usageTickMsg and the flag of maybeStartAnim).
THEOREM TickersDoNotMultiply == MonitorSpec => []OneTickerEach
<1>1. MonitorInit => TimerInv BY TimerInit
<1>2. TimerInv /\ [MonitorNext]_monitorVars => TimerInv' BY TimerNext
<1>3. TimerInv => OneTickerEach
  BY DEF TimerInv, TimerTypes, OneUsageTicker, OneAnimTicker, OneTickerEach
<1> QED BY <1>1, <1>2, <1>3, PTL DEF MonitorSpec

-----------------------------------------------------------------------------

\* Statistics are kept only for the window that is selected when they arrive.
LEMMA DataNext == DataOfSelectedWindow /\ [MonitorNext]_monitorVars => DataOfSelectedWindow'
<1> SUFFICES ASSUME DataOfSelectedWindow, [MonitorNext]_monitorVars
             PROVE  DataOfSelectedWindow'
  OBVIOUS
<1> USE DEF clientVars, usageVars, animVars, DataOfSelectedWindow
<1>1. CASE UNCHANGED consoleVars BY <1>1 DEF consoleVars
<1>2. CASE ConnectionLost BY <1>2 DEF ConnectionLost
<1>3. ASSUME NEW c \in Conns, Dial(c) PROVE DataOfSelectedWindow'
  BY <1>3 DEF Dial
<1>4. ASSUME NEW inFlight \in BOOLEAN, RecvMsg(inFlight) PROVE DataOfSelectedWindow'
  BY <1>4 DEF RecvMsg, HandleEnvelope
<1>5. CASE DialFails BY <1>5 DEF DialFails
<1>6. ASSUME NEW f \in FromPeer, Ask(f) PROVE DataOfSelectedWindow'
  BY <1>6 DEF Ask
<1>7. ASSUME NEW f \in FromPeer, AskInVain(f) PROVE DataOfSelectedWindow'
  BY <1>7 DEF AskInVain
<1>8. CASE Tick BY <1>8 DEF Tick
<1>9. CASE AnimTick BY <1>9 DEF AnimTick
<1>10. ASSUME NEW g \in 0..MaxGen, UsageTick(g) PROVE DataOfSelectedWindow'
  BY <1>10 DEF UsageTick
<1>11. CASE Quit BY <1>11 DEF Quit
<1>12. CASE OpenUsage BY <1>12 DEF OpenUsage
<1>13. CASE CloseUsage BY <1>13 DEF CloseUsage
<1>14. ASSUME NEW w \in Windows, SelectWindow(w) PROVE DataOfSelectedWindow'
  BY <1>14 DEF SelectWindow
<1>15. CASE UNCHANGED monitorVars
  BY <1>1, <1>15 DEF monitorVars
<1> QED
  BY <1>1, <1>2, <1>3, <1>4, <1>5, <1>6, <1>7, <1>8, <1>9, <1>10, <1>11, <1>12,
     <1>13, <1>14, <1>15
  DEF MonitorNext, ConsoleNext, ReaderStep

\* For any set of windows, an answer to an earlier request never replaces the
\* statistics of the window the user has moved to (handleEnvelope).
THEOREM NoStaleStatistics == MonitorSpec => []DataOfSelectedWindow
<1>1. MonitorInit => DataOfSelectedWindow
  BY DEF MonitorInit, ConsoleInit, DataOfSelectedWindow
<1>2. DataOfSelectedWindow /\ [MonitorNext]_monitorVars => DataOfSelectedWindow'
  BY DataNext
<1> QED BY <1>1, <1>2, PTL DEF MonitorSpec

-----------------------------------------------------------------------------
(* Types, of the hub's state and of the console's.                         *)

LEMMA QueuedType ==
    ASSUME NEW S, NEW q \in Seq(S), NEW f \in S, Len(q) <= OutCap
    PROVE  Queued(q, f) \in Seq(S) /\ Len(Queued(q, f)) <= OutCap
<1>1. Append(q, f) \in Seq(S) /\ Len(Append(q, f)) = Len(q) + 1 /\ Len(q) \in Nat
  OBVIOUS
<1> QED
  BY <1>1, HubAssumption DEF Queued

LEMMA TailType ==
    ASSUME NEW S, NEW q \in Seq(S), q # <<>>, Len(q) <= OutCap
    PROVE  Tail(q) \in Seq(S) /\ Len(Tail(q)) <= OutCap
<1>1. Tail(q) \in Seq(S) /\ Len(Tail(q)) = Len(q) - 1 /\ Len(q) \in Nat
  OBVIOUS
<1> QED
  BY <1>1, HubAssumption

\* What is in a queue, and how much of it.
OutTypes ==
    /\ out \in [Conns -> Seq(FromHub)]
    /\ \A c \in Conns : Len(out[c]) <= OutCap

LEMMA OneQueue ==
    ASSUME OutTypes, NEW c \in Conns, NEW q \in Seq(FromHub), Len(q) <= OutCap,
           out' = [out EXCEPT ![c] = q]
    PROVE  OutTypes'
<1>1. \A d \in Conns : out'[d] = IF d = c THEN q ELSE out[d]
  BY DEF OutTypes
<1> QED
  BY <1>1 DEF OutTypes

LEMMA HubTypes ==
    HubTypeOK <=> /\ running \in BOOLEAN
                  /\ conn \in [Conns -> {"open", "closed"}]
                  /\ clients \subseteq Conns
                  /\ handler \in [Conns -> {"none", "registered", "greeted", "reading"}]
                  /\ writer \in [Conns -> {"none", "running"}]
                  /\ OutTypes
                  /\ closes \in [Conns -> 0..1]
                  /\ faults \in 0..MaxFaults
BY DEF HubTypeOK, OutTypes

LEMMA HubTypesNext ==
    (/\ running \in BOOLEAN
     /\ conn \in [Conns -> {"open", "closed"}]
     /\ clients \subseteq Conns
     /\ handler \in [Conns -> {"none", "registered", "greeted", "reading"}]
     /\ writer \in [Conns -> {"none", "running"}]
     /\ OutTypes
     /\ closes \in [Conns -> 0..1]
     /\ faults \in 0..MaxFaults)' => HubTypeOK'
BY HubTypes, PTL

\* Frames that a connection is sent, and the empty queue.
LEMMA FrameTypes ==
    /\ Hello \in FromHub /\ Snapshot \in FromHub
    /\ \A f \in FromPeer : Reply(f) \in FromHub
    /\ <<>> \in Seq(FromHub) /\ Len(<<>>) <= OutCap
<1>1. ASSUME NEW f \in FromPeer
      PROVE  Reply(f) \in FromHub
  <2>1. PICK w \in Windows : f = StatsRequest(w)
    BY DEF FromPeer
  <2> QED
    BY <2>1 DEF StatsRequest, Reply, FromHub
<1> QED
  BY <1>1, HubAssumption DEF FromHub

LEMMA HubStepType ==
    ASSUME HubTypeOK, HubNext
    PROVE  HubTypeOK'
<1> USE HubTypes, HubTypesNext
<1>1. ASSUME NEW c \in Conns, SendHello(c)
      PROVE  HubTypeOK'
  <2>1. OutTypes'
    <3>1. Queued(out[c], Hello) \in Seq(FromHub) /\ Len(Queued(out[c], Hello)) <= OutCap
      BY FrameTypes, QueuedType DEF OutTypes
    <3> QED
      BY <1>1, <3>1, OneQueue DEF SendHello, OutTypes
  <2> QED
    BY <1>1, <2>1 DEF SendHello
<1>2. ASSUME NEW c \in Conns, StartClient(c)
      PROVE  HubTypeOK'
  <2>1. OutTypes'
    <3>1. /\ Queued(out[c], Snapshot) \in Seq(FromHub)
          /\ Len(Queued(out[c], Snapshot)) <= OutCap
      BY FrameTypes, QueuedType DEF OutTypes
    <3> QED
      BY <1>2, <3>1, OneQueue DEF StartClient, OutTypes
  <2> QED
    BY <1>2, <2>1 DEF StartClient
<1>3. ASSUME NEW c \in Conns, ReadFails(c)
      PROVE  HubTypeOK'
  <2>1. OutTypes'
    BY <1>3, FrameTypes, OneQueue DEF ReadFails
  <2>2. closes' \in [Conns -> 0..1]
    BY <1>3 DEF ReadFails, Unregister, ClosedOnce
  <2> QED
    BY <1>3, <2>1, <2>2 DEF ReadFails, Unregister
<1>4. ASSUME NEW c \in Conns, WriteFails(c)
      PROVE  HubTypeOK'
  <2>1. OutTypes'
    <3>1. Tail(out[c]) \in Seq(FromHub) /\ Len(Tail(out[c])) <= OutCap
      BY <1>4, TailType DEF WriteFails, OutTypes
    <3> QED
      BY <1>4, <3>1, OneQueue DEF WriteFails, OutTypes
  <2>2. faults' \in 0..MaxFaults
    BY <1>4, HubAssumption DEF WriteFails, Fault
  <2> QED
    BY <1>4, <2>1, <2>2 DEF WriteFails, Closed
<1>5. ASSUME NEW c \in Conns, WriterReturns(c)
      PROVE  HubTypeOK'
  BY <1>5 DEF WriterReturns, OutTypes
<1>6. ASSUME NEW c \in Conns, Break(c)
      PROVE  HubTypeOK'
  BY <1>6, HubAssumption DEF Break, Closed, Fault, OutTypes
<1>7. CASE BroadcastSnapshot
  <2>1. OutTypes'
    <3>1. ASSUME NEW c \in Conns
          PROVE  out'[c] \in Seq(FromHub) /\ Len(out'[c]) <= OutCap
      <4>1. /\ Queued(out[c], Snapshot) \in Seq(FromHub)
            /\ Len(Queued(out[c], Snapshot)) <= OutCap
        BY FrameTypes, QueuedType DEF OutTypes
      <4>2. out'[c] \in {out[c], Queued(out[c], Snapshot)}
        BY <1>7 DEF BroadcastSnapshot
      <4> QED
        BY <4>1, <4>2 DEF OutTypes
    <3>2. DOMAIN out' = Conns /\ out' = [c \in Conns |-> out'[c]]
      BY <1>7 DEF BroadcastSnapshot
    <3> QED
      BY <3>1, <3>2 DEF OutTypes
  <2>2. faults' \in 0..MaxFaults
    BY <1>7, HubAssumption DEF BroadcastSnapshot, Fault
  <2> QED
    BY <1>7, <2>1, <2>2 DEF BroadcastSnapshot
<1>8. CASE CloseAll
  <2>1. closes' \in [Conns -> 0..1]
    BY <1>8 DEF CloseAll, ClosedOnce
  <2>2. faults' \in 0..MaxFaults
    BY <1>8, HubAssumption DEF CloseAll, Fault
  <2> QED
    BY <1>8, <2>1, <2>2 DEF CloseAll, OutTypes
<1>9. CASE Restart
  <2>1. OutTypes'
    BY <1>9, FrameTypes DEF Restart, OutTypes
  <2> QED
    BY <1>9, <2>1 DEF Restart
<1> QED
  BY <1>1, <1>2, <1>3, <1>4, <1>5, <1>6, <1>7, <1>8, <1>9 DEF HubNext

LEMMA PeerStepType ==
    ASSUME HubTypeOK, NEW c \in Conns,
           \/ Accept(c) \/ Write(c)
           \/ \E f \in FromPeer : HandleClientFrame(c, f)
    PROVE  HubTypeOK'
<1> USE HubTypes, HubTypesNext
<1>1. CASE Accept(c)
  BY <1>1 DEF Accept, OutTypes
<1>2. CASE Write(c)
  <2>1. OutTypes'
    <3>1. Tail(out[c]) \in Seq(FromHub) /\ Len(Tail(out[c])) <= OutCap
      BY <1>2, TailType DEF Write, OutTypes
    <3> QED
      BY <1>2, <3>1, OneQueue DEF Write, OutTypes
  <2> QED
    BY <1>2, <2>1 DEF Write
<1>3. ASSUME NEW f \in FromPeer, HandleClientFrame(c, f)
      PROVE  HubTypeOK'
  <2>1. OutTypes'
    <3>1. Queued(out[c], Reply(f)) \in Seq(FromHub) /\ Len(Queued(out[c], Reply(f))) <= OutCap
      BY FrameTypes, QueuedType DEF OutTypes
    <3> QED
      BY <1>3, <3>1, OneQueue DEF HandleClientFrame, OutTypes
  <2> QED
    BY <1>3, <2>1 DEF HandleClientFrame
<1> QED
  BY <1>1, <1>2, <1>3

\* The console's own state, without its timers.
ClientTypes ==
    /\ program \in {"running", "quit"}
    /\ current \in Conns
    /\ reader \in {"reading", "waiting"}
    /\ backoff \in {0, 1, 2, 4, 8, 16, 30}
    /\ backoff = 0 <=> reader = "reading"
    /\ sending \subseteq FromPeer
    /\ usageWindow \in Windows
    /\ usageData \in Windows \cup {"none"}
    /\ busy \in BOOLEAN

LEMMA ClientStepType ==
    ASSUME ClientTypes, UNCHANGED consoleVars \/ ConsoleNext
    PROVE  ClientTypes'
<1> USE DEF ClientTypes, clientVars, usageVars, animVars
<1>0. \A w \in Windows : StatsRequest(w) \in FromPeer
  BY DEF FromPeer
<1>1. CASE UNCHANGED consoleVars
  BY <1>1 DEF consoleVars
<1>2. CASE ConnectionLost
  BY <1>2 DEF ConnectionLost, ReconnectBackoff
<1>3. ASSUME NEW c \in Conns, Dial(c)
      PROVE  ClientTypes'
  BY <1>3 DEF Dial
<1>4. ASSUME NEW inFlight \in BOOLEAN, RecvMsg(inFlight)
      PROVE  ClientTypes'
  BY <1>4 DEF RecvMsg, HandleEnvelope
<1>5. CASE DialFails
  BY <1>5 DEF DialFails, ReconnectBackoff
<1>6. ASSUME NEW f \in FromPeer, Ask(f) \/ AskInVain(f)
      PROVE  ClientTypes'
  BY <1>6 DEF Ask, AskInVain
<1>7. CASE Tick \/ AnimTick
  BY <1>7 DEF Tick, AnimTick
<1>8. ASSUME NEW g \in 0..MaxGen, UsageTick(g)
      PROVE  ClientTypes'
  BY <1>0, <1>8 DEF UsageTick
<1>9. CASE Quit
  BY <1>9, ConsoleAssumption DEF Quit
<1>10. CASE OpenUsage
  BY <1>0, <1>10 DEF OpenUsage
<1>11. CASE CloseUsage
  BY <1>11 DEF CloseUsage
<1>12. ASSUME NEW w \in Windows, SelectWindow(w)
       PROVE  ClientTypes'
  BY <1>0, <1>12 DEF SelectWindow
<1> QED
  BY <1>1, <1>2, <1>3, <1>4, <1>5, <1>6, <1>7, <1>8, <1>9, <1>10, <1>11, <1>12
     DEF ConsoleNext, ReaderStep

\* The hub's share of a step of the console.
LEMMA SharedStepType ==
    ASSUME HubTypeOK, ClientTypes, ConsoleNext
    PROVE  HubTypeOK'
<1>1. ASSUME NEW c \in Conns, Dial(c)
      PROVE  HubTypeOK'
  BY <1>1, PeerStepType DEF Dial
<1>2. ASSUME NEW inFlight \in BOOLEAN, RecvMsg(inFlight)
      PROVE  HubTypeOK'
  BY <1>2, PeerStepType DEF RecvMsg, ClientTypes
<1>3. ASSUME NEW f \in FromPeer, Ask(f)
      PROVE  HubTypeOK'
  BY <1>3, PeerStepType DEF Ask, ClientTypes
<1>4. CASE Quit
  BY <1>4, HubTypes, HubTypesNext DEF Quit, Closed, OutTypes
<1>5. CASE UNCHANGED hubVars
  BY <1>5, HubTypes, HubTypesNext DEF hubVars, OutTypes
<1> QED
  BY <1>1, <1>2, <1>3, <1>4, <1>5
     DEF ConsoleNext, ReaderStep, ConnectionLost, DialFails, AskInVain, Tick,
         AnimTick, UsageTick, OpenUsage, CloseUsage, SelectWindow

LEMMA MonitorTypesInit == MonitorInit => HubTypeOK /\ ClientTypes
<1> SUFFICES ASSUME MonitorInit
             PROVE  HubTypeOK /\ ClientTypes
  OBVIOUS
<1>1. PICK c \in Conns : HubInit({c}) /\ ConsoleInit(c)
  BY HubAssumption DEF MonitorInit
<1>2. HubTypeOK
  BY <1>1, FrameTypes, HubTypes, HubAssumption DEF HubInit, OutTypes
<1>3. ClientTypes
  BY <1>1, ConsoleAssumption DEF ConsoleInit, ClientTypes
<1> QED
  BY <1>2, <1>3

LEMMA MonitorTypesNext ==
    ASSUME HubTypeOK, ClientTypes, [MonitorNext]_monitorVars
    PROVE  HubTypeOK' /\ ClientTypes'
<1>1. ClientTypes'
  BY ClientStepType DEF MonitorNext, monitorVars
<1>2. CASE HubNext
  BY <1>1, <1>2, HubStepType
<1>3. CASE ConsoleNext
  BY <1>1, <1>3, SharedStepType
<1>4. CASE UNCHANGED monitorVars
  BY <1>1, <1>4, HubTypes, HubTypesNext DEF monitorVars, hubVars, OutTypes
<1> QED
  BY <1>2, <1>3, <1>4 DEF MonitorNext

\* For any number of connections and any capacity of their queues: no queue of
\* the hub exceeds its capacity, its channel closed is closed once at most per
\* connection, and a console that dials again waits for 1, 2, 4, 8, 16 or 30
\* seconds, never more, and only while it has no connection to read.
THEOREM MonitorTyped == MonitorSpec => []ConsoleTypeOK
<1> DEFINE Inv == TimerInv /\ HubTypeOK /\ ClientTypes
<1>1. MonitorInit => Inv
  BY TimerInit, MonitorTypesInit
<1>2. Inv /\ [MonitorNext]_monitorVars => Inv'
  BY TimerNext, MonitorTypesNext
<1>3. Inv => ConsoleTypeOK
  <2> SUFFICES ASSUME Inv
               PROVE  (backoff = 0) = (reader = "reading")
    BY DEF TimerInv, TimerTypes, ClientTypes, ConsoleTypeOK
  <2>1. backoff = 0 <=> reader = "reading"
    BY DEF ClientTypes
  <2> QED
    BY <2>1
<1> QED
  BY <1>1, <1>2, <1>3, PTL DEF MonitorSpec

-----------------------------------------------------------------------------
(* Who serves a connection.                                                *)

\* No open connection is left half served, whichever of handler, writer,
\* broadcaster and shutdown closes it and in whatever order they see that: while
\* a connection is open it is in the map, so the ticker and the shutdown find it,
\* and once its handler reads its writer runs, so no answer stays in the queue.
\* The map holds the connections that have a handler, which will unregister them.
OpenIsServed ==
    /\ clients = {c \in Conns : handler[c] # "none"}
    /\ \A c \in Conns :
          /\ conn[c] = "open" => c \in clients
          /\ conn[c] = "open" /\ handler[c] = "reading" => writer[c] = "running"

\* A writer that is told to stop has nothing more to write to.
StoppedIsClosed == \A c \in Conns : closes[c] > 0 => conn[c] = "closed"

ServedInv == HubTypeOK /\ OpenIsServed /\ StoppedIsClosed

LEMMA ServedUntouched ==
    ASSUME ServedInv, UNCHANGED hubVars
    PROVE  OpenIsServed' /\ StoppedIsClosed'
BY DEF ServedInv, OpenIsServed, StoppedIsClosed, hubVars

\* Every way to close connections keeps the rest of the hub as it is.
LEMMA ServedWhenClosing ==
    ASSUME ServedInv, NEW closing \in SUBSET Conns,
           conn' = [c \in Conns |-> IF c \in closing THEN "closed" ELSE conn[c]],
           UNCHANGED <<clients, handler, writer, out, closes>>
    PROVE  OpenIsServed' /\ StoppedIsClosed'
BY DEF ServedInv, OpenIsServed, StoppedIsClosed, HubTypeOK

LEMMA ServedConnection ==
    ASSUME ServedInv, NEW c \in Conns,
           \/ SendHello(c) \/ StartClient(c) \/ ReadFails(c) \/ WriteFails(c)
           \/ WriterReturns(c) \/ Break(c) \/ Accept(c) \/ Write(c)
           \/ \E f \in FromPeer : HandleClientFrame(c, f)
    PROVE  OpenIsServed' /\ StoppedIsClosed'
<1> USE DEF ServedInv, OpenIsServed, StoppedIsClosed, HubTypeOK
<1>1. CASE SendHello(c)
  BY <1>1 DEF SendHello
<1>2. CASE StartClient(c)
  BY <1>2 DEF StartClient
<1>3. CASE ReadFails(c)
  BY <1>3 DEF ReadFails, Unregister, ClosedOnce
<1>4. CASE WriteFails(c)
  BY <1>4 DEF WriteFails, Closed
<1>5. CASE WriterReturns(c)
  BY <1>5 DEF WriterReturns
<1>6. CASE Break(c)
  BY <1>6 DEF Break, Closed
<1>7. CASE Accept(c)
  BY <1>7 DEF Accept
<1>8. CASE Write(c)
  BY <1>8 DEF Write
<1>9. ASSUME NEW f \in FromPeer, HandleClientFrame(c, f)
      PROVE  OpenIsServed' /\ StoppedIsClosed'
  BY <1>9 DEF HandleClientFrame
<1> QED
  BY <1>1, <1>2, <1>3, <1>4, <1>5, <1>6, <1>7, <1>8, <1>9

LEMMA ServedHub ==
    ASSUME ServedInv, HubNext
    PROVE  OpenIsServed' /\ StoppedIsClosed'
<1>1. CASE \E c \in Conns : \/ SendHello(c) \/ StartClient(c) \/ ReadFails(c)
                            \/ WriteFails(c) \/ WriterReturns(c) \/ Break(c)
  BY <1>1, ServedConnection
<1>2. CASE BroadcastSnapshot
  BY <1>2 DEF BroadcastSnapshot, ServedInv, OpenIsServed, StoppedIsClosed, HubTypeOK
<1>3. CASE CloseAll
  BY <1>3 DEF CloseAll, ClosedOnce, ServedInv, OpenIsServed, StoppedIsClosed, HubTypeOK
<1>4. CASE Restart
  BY <1>4 DEF Restart, OpenIsServed, StoppedIsClosed
<1> QED
  BY <1>1, <1>2, <1>3, <1>4 DEF HubNext

LEMMA ServedConsole ==
    ASSUME ServedInv, ClientTypes, ConsoleNext
    PROVE  OpenIsServed' /\ StoppedIsClosed'
<1>1. ASSUME NEW c \in Conns, Dial(c)
      PROVE  OpenIsServed' /\ StoppedIsClosed'
  BY <1>1, ServedConnection DEF Dial
<1>2. ASSUME NEW inFlight \in BOOLEAN, RecvMsg(inFlight)
      PROVE  OpenIsServed' /\ StoppedIsClosed'
  BY <1>2, ServedConnection DEF RecvMsg, ClientTypes
<1>3. ASSUME NEW f \in FromPeer, Ask(f)
      PROVE  OpenIsServed' /\ StoppedIsClosed'
  BY <1>3, ServedConnection DEF Ask, ClientTypes
<1>4. CASE Quit
  <2>1. conn' = [c \in Conns |-> IF c \in {current} THEN "closed" ELSE conn[c]]
    BY <1>4 DEF Quit, Closed, ServedInv, HubTypeOK, ClientTypes
  <2> QED
    BY <1>4, <2>1, ServedWhenClosing DEF Quit, ClientTypes
<1>5. CASE UNCHANGED hubVars
  BY <1>5, ServedUntouched
<1> QED
  BY <1>1, <1>2, <1>3, <1>4, <1>5
     DEF ConsoleNext, ReaderStep, ConnectionLost, DialFails, AskInVain, Tick,
         AnimTick, UsageTick, OpenUsage, CloseUsage, SelectWindow

\* For any number of connections, whichever end closes them and whenever the
\* hub is shut down or started again: an open connection is in the map of the hub,
\* one that is read has a writer, and the map is that of the handlers.
THEOREM OpenConnectionsAreServed == MonitorSpec => []OpenIsServed
<1> DEFINE Inv == HubTypeOK /\ ClientTypes /\ OpenIsServed /\ StoppedIsClosed
<1>1. MonitorInit => Inv
  <2> SUFFICES ASSUME MonitorInit
               PROVE  Inv
    OBVIOUS
  <2>1. PICK c \in Conns : HubInit({c}) /\ ConsoleInit(c)
    BY HubAssumption DEF MonitorInit
  <2>2. OpenIsServed /\ StoppedIsClosed
    <3>1. /\ \A d \in Conns : /\ conn[d] = "open" <=> d = c
                              /\ handler[d] = IF d = c THEN "registered" ELSE "none"
                              /\ closes[d] = 0
          /\ clients = {c}
      BY <2>1 DEF HubInit
    <3>2. clients = {d \in Conns : handler[d] # "none"}
      BY <3>1
    <3> QED
      BY <3>1, <3>2 DEF OpenIsServed, StoppedIsClosed
  <2> QED
    BY <2>2, MonitorTypesInit
<1>2. Inv /\ [MonitorNext]_monitorVars => Inv'
  <2> SUFFICES ASSUME Inv, [MonitorNext]_monitorVars
               PROVE  Inv'
    OBVIOUS
  <2>1. HubTypeOK' /\ ClientTypes'
    BY MonitorTypesNext
  <2>2. OpenIsServed' /\ StoppedIsClosed'
    <3>1. CASE HubNext
      BY <3>1, ServedHub DEF ServedInv
    <3>2. CASE ConsoleNext
      BY <3>2, ServedConsole DEF ServedInv
    <3>3. CASE UNCHANGED monitorVars
      BY <3>3, ServedUntouched DEF ServedInv, monitorVars
    <3> QED
      BY <3>1, <3>2, <3>3 DEF MonitorNext
  <2> QED
    BY <2>1, <2>2
<1>3. Inv => OpenIsServed
  OBVIOUS
<1> QED
  BY <1>1, <1>2, <1>3, PTL DEF MonitorSpec

=============================================================================
