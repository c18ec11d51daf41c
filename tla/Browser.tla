------------------------------- MODULE Browser ------------------------------
(***************************************************************************)
(* The request table of the terminal console (tui/app.go, tui/widgets.go): *)
(* the cursor, the scrolled table, the filter, the panes and what the info *)
(* pane shows, while snapshots replace the table and time removes rows     *)
(* from it.                                                                *)
(*                                                                         *)
(* Bubble Tea calls View after every Update, so an action is both.  Update *)
(* computes the visible rows anew from the clock, and so may see fewer rows*)
(* than the last View has drawn.  Left out: what a row says, the scrolling *)
(* of the info pane and the overlays' contents (the usage overlay's        *)
(* requests and timers are in Console).                                    *)
(***************************************************************************)
EXTENDS Integers, Sequences, FiniteSets

CONSTANTS
    Backends,     \* the servers by priority and then by name: a sequence
    NumRequests,  \* the requests are 1..NumRequests, in the order of their ids
    Snapshots,    \* the request lists that snapshots carry
    Fleets,       \* the sets of servers that snapshots carry
    Matching,     \* the requests that the filter's text finds
    Sizes,        \* the terminal's sizes, <<width, height>>
    TTL,          \* for how long a finished request is shown
    StartTime,
    EndTime       \* bound: the clock

Requests == 1..NumRequests

Statuses == {"pending", "running", "completed", "failed", "cancelled"}

ASSUME BrowserAssumption ==
    /\ Len(Backends) \in Nat
    /\ NumRequests \in Nat
    /\ Matching \subseteq Requests
    /\ Sizes \subseteq Nat \X Nat
    /\ {TTL, StartTime, EndTime} \subseteq Nat
    /\ \A q \in Snapshots :
         /\ DOMAIN q \subseteq Requests
         /\ \A r \in DOMAIN q : /\ q[r].status \in Statuses
                                /\ q[r].at \in 1..StartTime

VARIABLES
    requests,     \* m.requests: status and the time by which it is sorted
    servers,      \* m.servers, sorted
    received,     \* snapshotReceived
    now,          \* the clock
    shown,        \* the clock at the last View
    filter,       \* filterText is not empty
    overlay,      \* "none", "filter", or "modal": help, models or usage
    activePane, selectedIdx, selectedServerIdx,
    info,         \* what the info pane shows: a kind and an id
    size,         \* width and height
    layout,       \* the heights of reqViewport and of infoViewport
    offset,       \* reqViewport.YOffset
    lines         \* the number of lines in reqViewport

data == <<requests, servers, received>>
cursor == <<activePane, selectedIdx, selectedServerIdx, info>>
input == <<filter, overlay>>
screen == <<size, layout>>
browserVars == <<data, now, shown, input, cursor, screen, offset, lines>>

NoInfo == <<"none", 0>>

\* The members of S in their order: before the k-th one come k - 1 others.
inOrder(S, Earlier(_, _)) ==
    [k \in 1..Cardinality(S) |->
        CHOOSE i \in S : Cardinality({j \in S : Earlier(j, i)}) = k - 1]

larger(a, b) == IF a > b THEN a ELSE b
smaller(a, b) == IF a < b THEN a ELSE b

-----------------------------------------------------------------------------
(* The visible rows. *)

\* The three groups of sortedRequests.
Group(r) ==
    CASE r.status = "running" -> 1
      [] r.status = "pending" -> 2
      [] OTHER -> 3

\* Mutant of Before: the requests that finished first come first.
BeforeOldestFirst(q, i, j) ==
    LET a == q[i]  b == q[j] IN
    \/ Group(a) < Group(b)
    \/ Group(a) = Group(b) /\ a.at < b.at
    \/ Group(a) = Group(b) /\ a.at = b.at /\ i < j

\* Running and waiting requests with the oldest first, finished ones with the
\* latest first, and ids where the times are equal.
Before(q, i, j) ==
    LET a == q[i]  b == q[j] IN
    \/ Group(a) < Group(b)
    \/ Group(a) = Group(b) /\ Group(a) # 3 /\ a.at < b.at
    \/ Group(a) = Group(b) /\ Group(a) = 3 /\ a.at > b.at
    \/ Group(a) = Group(b) /\ a.at = b.at /\ i < j

sortedRequests(q, ids) == inOrder(ids, LAMBDA i, j : Before(q, i, j))

\* A completed or failed request disappears; a cancelled one stays.
requestVisible(r, t) == r.status \in {"completed", "failed"} => t - r.at < TTL

requestMatchesFilter(i, f) == f => i \in Matching

\* The requests that visibleRequests leaves in the list at time t.
visibleIds(q, f, t) ==
    {i \in DOMAIN q : requestVisible(q[i], t) /\ requestMatchesFilter(i, f)}

visibleRequests(q, f, t) == sortedRequests(q, visibleIds(q, f, t))

\* Its length.
visibleCount(q, f, t) == Cardinality(visibleIds(q, f, t))

Visible == visibleRequests(requests, filter, now)
VisibleCount == visibleCount(requests, filter, now)

\* The rows in the table as it was drawn last.
Drawn == visibleRequests(requests, filter, shown)

\* Mutant of clampSelected: the length is taken for the last index.
clampSelectedToLength(s, n) == IF n = 0 THEN 0 ELSE smaller(s, n)

clampSelected(s, n) == IF n = 0 THEN 0 ELSE smaller(s, n - 1)

\* applyServerList sorts by priority and name.
applyServerList(fleet) ==
    LET places == inOrder({p \in 1..Len(Backends) : Backends[p] \in fleet}, <)
    IN  [k \in 1..Len(places) |-> Backends[places[k]]]

-----------------------------------------------------------------------------
(* The layout and the viewport. *)

headerHeight(n) == 2 + larger(n, 1) + 1

\* resizeViewports for n servers; a terminal that is too small changes nothing.
resizeViewports(sz, n, filtering) ==
    IF sz[1] < 60 \/ sz[2] < 10 THEN layout ELSE
    LET remaining == larger(4, sz[2] - 1 - headerHeight(n) - 1
                                 - (IF filtering THEN 3 ELSE 0))
        reqH == larger(3, (remaining * 2) \div 3)
        infoH == larger(2, remaining - reqH)
    IN  [req |-> larger(1, reqH - 3), info |-> larger(1, infoH - 3)]

\* Below 100 columns the table has no line of column titles.
TitleLines(sz) == IF sz[1] < 100 THEN 0 ELSE 1

\* The number of lines of a table; an empty one has an empty line.
TableLines(n, sz) == TitleLines(sz) + larger(1, n)

\* The viewport of the bubbles library.
maxYOffset(n, h) == larger(0, n - h)
SetYOffset(y) == larger(0, smaller(y, maxYOffset(lines, layout.req)))
ScrollUp(n) == IF offset <= 0 THEN offset ELSE SetYOffset(offset - n)
ScrollDown(n) ==
    IF offset >= maxYOffset(lines, layout.req) THEN offset ELSE SetYOffset(offset + n)

\* View after an Update that left the viewport at y: renderRequestTable sets
\* the table's lines, and SetContent moves to the end when y is behind it.
View(y) ==
    /\ shown' = now
    /\ lines' = IF size'[1] >= 60 /\ received'
                  THEN TableLines(visibleCount(requests', filter', now), size')
                  ELSE lines
    /\ offset' = IF lines' # 0 /\ y > lines' - 1 THEN maxYOffset(lines', layout'.req) ELSE y
    /\ UNCHANGED now

\* Mutant of ensureSelected: the line of the column titles is not counted.
ensureSelectedNoTitle(s) ==
    IF layout.req <= 0 THEN offset
    ELSE IF s < offset THEN SetYOffset(s)
    ELSE IF s > offset + layout.req - 1 THEN SetYOffset(s - layout.req + 1)
    ELSE offset

\* The offset at which row s is in the viewport.
ensureSelected(s) ==
    IF layout.req <= 0 THEN offset
    ELSE IF s + 1 < offset THEN SetYOffset(s + 1)
    ELSE IF s + 1 > offset + layout.req - 1 THEN SetYOffset(s + 1 - layout.req + 1)
    ELSE offset

\* The pane that line y of the terminal belongs to.
paneAtY(y) ==
    LET headerEnd == 1 + headerHeight(Len(servers)) IN
    CASE y < headerEnd -> "header"
      [] y >= headerEnd /\ y < headerEnd + layout.req + 2 -> "requests"
      [] OTHER -> "info"

-----------------------------------------------------------------------------
(* The cursor and the info pane. *)

\* refreshInfoFromRequests and refreshInfoFromHeader for cursor s
InfoOfRequest(s) == IF s < VisibleCount THEN <<"request", Visible[s + 1]>> ELSE info
InfoOfServer(s) == IF s < Len(servers) THEN <<"server", servers[s + 1]>> ELSE info

ToServer(s) ==
    /\ selectedServerIdx' = s
    /\ info' = InfoOfServer(s)
    /\ UNCHANGED selectedIdx
    /\ View(offset)

ToRequest(s, y) ==
    /\ selectedIdx' = s
    /\ info' = InfoOfRequest(s)
    /\ UNCHANGED selectedServerIdx
    /\ View(y)

Browsing == overlay = "none" /\ UNCHANGED <<data, input, screen>>

KeyUp ==
    /\ Browsing /\ UNCHANGED activePane
    /\ \/ activePane = "header" /\ selectedServerIdx > 0 /\ ToServer(selectedServerIdx - 1)
       \/ /\ activePane = "requests"
          /\ LET s == larger(0, selectedIdx - 1) IN ToRequest(s, ensureSelected(s))

KeyDown ==
    /\ Browsing /\ UNCHANGED activePane
    /\ \/ /\ activePane = "header" /\ selectedServerIdx < Len(servers) - 1
          /\ ToServer(selectedServerIdx + 1)
       \/ /\ activePane = "requests"
          /\ LET s == IF selectedIdx < VisibleCount - 1 THEN selectedIdx + 1 ELSE selectedIdx
             IN  ToRequest(s, ensureSelected(s))

\* PgUp, PgDn, Home and End move the cursor and not the viewport.
KeyPage ==
    /\ Browsing /\ UNCHANGED activePane
    /\ activePane = "requests"
    /\ LET last == larger(0, VisibleCount - 1) IN
       \E s \in {larger(0, selectedIdx - layout.req), smaller(last, selectedIdx + layout.req),
                 0, last} :
          ToRequest(s, offset)

KeyTab ==
    /\ Browsing
    /\ activePane' = [header |-> "requests", requests |-> "info", info |-> "header"][activePane]
    /\ info' = CASE activePane = "header" -> InfoOfRequest(selectedIdx)
                 [] activePane = "info" -> InfoOfServer(selectedServerIdx)
                 [] OTHER -> info
    /\ UNCHANGED <<selectedIdx, selectedServerIdx>>
    /\ View(offset)

KeyEnter ==
    /\ Browsing /\ UNCHANGED activePane
    /\ \/ activePane = "requests" /\ ToRequest(selectedIdx, offset)
       \/ activePane = "header" /\ ToServer(selectedServerIdx)

-----------------------------------------------------------------------------
(* The mouse, which is ignored only while the filter is being typed.       *)

\* An event in pane p, which becomes the active one.
Pointing(p) ==
    /\ overlay # "filter"
    /\ activePane' = p
    /\ UNCHANGED <<data, input, screen>>

WheelStep == 3

WheelUp(p) ==
    /\ Pointing(p)
    /\ \/ p = "header" /\ selectedServerIdx > 0 /\ ToServer(selectedServerIdx - 1)
       \/ /\ p = "requests" /\ View(ScrollUp(WheelStep))
          /\ UNCHANGED <<selectedIdx, selectedServerIdx, info>>

WheelDown(p) ==
    /\ Pointing(p)
    /\ \/ /\ p = "header" /\ selectedServerIdx < Len(servers) - 1
          /\ ToServer(selectedServerIdx + 1)
       \/ /\ p = "requests" /\ View(ScrollDown(WheelStep))
          /\ UNCHANGED <<selectedIdx, selectedServerIdx, info>>

Lines == 0..size[2] - 1

\* Mutant of RowOfLine: the line of the column titles is taken for a row.
RowOfLineNoTitle(y) == y - (1 + headerHeight(Len(servers)) + 2) + offset

\* handleClick: the row that line y of the terminal stands for.
RowOfLine(y) == y - (1 + headerHeight(Len(servers)) + 3) + offset

Click(y) ==
    /\ Pointing(paneAtY(y))
    /\ \/ paneAtY(y) = "header" /\ y - 2 \in 0..Len(servers) - 1 /\ ToServer(y - 2)
       \/ /\ paneAtY(y) = "requests" /\ RowOfLine(y) \in 0..VisibleCount - 1
          /\ ToRequest(RowOfLine(y), ensureSelected(RowOfLine(y)))

\* A click beside the servers and the rows, the wheel in the info pane or at
\* either end of the servers: the pane is selected and nothing in it.
PointAt(p) ==
    /\ Pointing(p)
    /\ p = "requests" => \E y \in Lines :
         paneAtY(y) = "requests" /\ RowOfLine(y) \notin 0..VisibleCount - 1
    /\ UNCHANGED <<selectedIdx, selectedServerIdx, info>>
    /\ View(offset)

-----------------------------------------------------------------------------
(* Filter, overlays, terminal, snapshots and time. *)

OpenFilter ==
    /\ overlay = "none" /\ overlay' = "filter"
    /\ UNCHANGED <<data, filter, cursor, screen>> /\ View(offset)

\* Enter takes the text that was typed, which may be empty; the cursor is not
\* moved into the new list.
EnterFilter ==
    /\ overlay = "filter" /\ overlay' = "none"
    /\ filter' \in BOOLEAN
    /\ UNCHANGED <<data, cursor, screen>> /\ View(offset)

\* Esc, while the filter is typed or later, removes it.
ClearFilter ==
    /\ overlay # "modal" /\ overlay' = "none"
    /\ filter' = FALSE
    /\ UNCHANGED <<data, cursor, screen>> /\ View(offset)

\* F1, m and s; m needs a server.  Their closing keys.
ToggleOverlay ==
    /\ overlay # "filter"
    /\ overlay' = IF overlay = "none" THEN "modal" ELSE "none"
    /\ UNCHANGED <<data, filter, cursor, screen>> /\ View(offset)

WindowSize(sz) ==
    /\ size' = sz
    /\ layout' = resizeViewports(sz, Len(servers), overlay = "filter")
    /\ UNCHANGED <<data, input, cursor>> /\ View(offset)

\* tickMsg; also a frame without a snapshot.
Tick ==
    /\ selectedIdx' = clampSelected(selectedIdx, VisibleCount)
    /\ UNCHANGED <<data, input, activePane, selectedServerIdx, info, screen>>
    /\ View(offset)

\* A state_snapshot replaces the servers and the requests; the server's cursor
\* is not moved, View draws it clamped.
Snapshot(q, fleet) ==
    /\ requests' = q
    /\ servers' = applyServerList(fleet)
    /\ received' = TRUE
    /\ layout' = IF Len(servers') # Len(servers)
                   THEN resizeViewports(size, Len(servers'), overlay = "filter")
                   ELSE layout
    /\ selectedIdx' = clampSelected(selectedIdx, visibleCount(q, filter, now))
    /\ UNCHANGED <<input, activePane, selectedServerIdx, info, size>>
    /\ View(offset)

\* A message that changes nothing here: an animation tick, a key of the info
\* pane.  It is followed by a View as well.
Redraw == UNCHANGED <<data, input, cursor, screen>> /\ View(offset)

TimePasses ==
    /\ now < EndTime
    /\ now' = now + 1
    /\ UNCHANGED <<data, shown, input, cursor, screen, offset, lines>>

Init ==
    /\ requests = << >> /\ servers = << >> /\ received = FALSE
    /\ now = StartTime /\ shown = StartTime
    /\ filter = FALSE /\ overlay = "none"
    /\ activePane = "requests" /\ selectedIdx = 0 /\ selectedServerIdx = 0
    /\ info = NoInfo
    /\ size = <<0, 0>> /\ layout = [req |-> 0, info |-> 0]
    /\ offset = 0 /\ lines = 0

Next ==
    \/ KeyUp \/ KeyDown \/ KeyPage \/ KeyTab \/ KeyEnter
    \/ \E p \in {paneAtY(y) : y \in Lines} : WheelUp(p) \/ WheelDown(p) \/ PointAt(p)
    \/ \E y \in Lines : Click(y)
    \/ OpenFilter \/ EnterFilter \/ ClearFilter \/ ToggleOverlay
    \/ \E sz \in Sizes : WindowSize(sz)
    \/ Tick \/ Redraw
    \/ \E q \in Snapshots, fleet \in Fleets : Snapshot(q, fleet)
    \/ TimePasses

\* tickMsg arms itself again, every second.
BrowserSpec == Init /\ [][Next]_browserVars /\ WF_browserVars(Tick)

-----------------------------------------------------------------------------
(* Properties. *)

\* Everything the program draws is on the terminal: Bubble Tea cuts off the
\* upper lines of what is too high.
Fits ==
    1 + headerHeight(Len(servers)) + (layout.req + 3) + (layout.info + 3) + 1 <= size[2]

\* The table as handleClick assumes it: with its column titles, and not cut.
Standard == received /\ size[1] >= 100 /\ Fits /\ overlay = "none"

\* No cancelled row is drawn: it is sorted among the finished ones but does not
\* disappear with them.
OnlyExpiring ==
    \A i \in visibleIds(requests, filter, shown) : requests[i].status # "cancelled"

\* The request drawn on line y of the terminal, or 0: below the title, the
\* header, the pane's border and its name comes line "offset" of the content,
\* of which the first is the column titles.
DrawnAt(y) ==
    LET first == 1 + headerHeight(Len(servers)) + 2
        content == y - first + offset
        drawn == Drawn
    IN  IF y \in first..first + layout.req - 1 /\ content \in 1..Len(drawn)
          THEN drawn[content] ELSE 0

\* In a table without a drawn cancelled row, a click on a line that shows a row
\* shows the request of that row, or nothing new if it has disappeared since,
\* although handleClick computes the list anew (app.go, handleClick; widgets.go,
\* sortedRequests).  Nothing is said of the lines that show no row: the border
\* and the titles count as lines of the table as well, and above a table that is
\* scrolled by two lines or more they stand for rows that are hidden.
ClickShowsDrawn ==
    [][Standard /\ OnlyExpiring
         => \A y \in Lines : Click(y) /\ DrawnAt(y) # 0
              => info' = <<"request", DrawnAt(y)>>]_browserVars

\* In a table without a drawn cancelled row, Enter opens the row that is
\* highlighted in the table as it was drawn, be it scrolled out of the viewport,
\* or nothing, although it is an index into a list that is computed anew
\* (app.go, refreshInfoFromRequests; widgets.go, sortedRequests and
\* requestVisible).
EnterShowsHighlighted ==
    [][info' # info /\ activePane = "requests" /\ OnlyExpiring /\ KeyEnter
         => selectedIdx < Len(Drawn) /\ info' = <<"request", Drawn[selectedIdx + 1]>>]_browserVars

\* The selected row is inside the viewport.
SelectedOnScreen ==
    selectedIdx < VisibleCount =>
        selectedIdx + 1 \in offset..offset + layout.req - 1

\* After a key or a click has moved the cursor by a row, its row is on the
\* screen, wherever the viewport was and however the table has shrunk in
\* between (app.go, ensureSelected; bubbles' SetYOffset and SetContent).
CursorStaysOnScreen ==
    [][Standard /\ activePane' = "requests" /\ ~SelectedOnScreen'
         => ~(KeyUp \/ KeyDown \/ \E y \in Lines : Click(y))]_browserVars

\* A cursor outside the list, left there by a filter or by time, returns into
\* it (app.go, clampSelected in tickMsg).
CursorReturns ==
    selectedIdx > larger(0, VisibleCount - 1) ~> selectedIdx <= larger(0, VisibleCount - 1)

=============================================================================
