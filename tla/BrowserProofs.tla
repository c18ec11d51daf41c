---------------------------- MODULE BrowserProofs ---------------------------
(***************************************************************************)
(* Proofs about Browser, for any servers, sizes of the terminal and        *)
(* lifetimes.  As long as no cancelled request is drawn: a click on a row  *)
(* and Enter show the row that was drawn.  For any requests: a cursor that *)
(* was moved stays in the viewport.                                        *)
(***************************************************************************)
EXTENDS Browser, FiniteSetTheorems, TLAPS

-----------------------------------------------------------------------------
(* The order of the rows.                                                  *)

\* A list of requests as a snapshot carries it, or the empty one at the start.
Tables == Snapshots \cup {<< >>}

LEMMA TableFacts ==
    ASSUME NEW q \in Tables
    PROVE  /\ DOMAIN q \subseteq Requests /\ IsFiniteSet(DOMAIN q)
           /\ \A i \in DOMAIN q : i \in Nat /\ q[i].status \in Statuses /\ q[i].at \in Nat
<1>1. DOMAIN q \subseteq Requests
  BY BrowserAssumption DEF Tables
<1>2. \A i \in DOMAIN q : q[i].status \in Statuses /\ q[i].at \in Nat
  BY BrowserAssumption DEF Tables
<1>3. IsFiniteSet(Requests) /\ \A i \in Requests : i \in Nat
  <2>1. NumRequests \in Nat /\ NumRequests \in Int /\ 1 \in Int
    BY BrowserAssumption
  <2>2. IsFiniteSet(1..NumRequests)
    BY <2>1, FS_Interval
  <2>3. \A i \in 1..NumRequests : i \in Nat
    BY <2>1
  <2> QED
    BY <2>2, <2>3 DEF Requests
<1>4. IsFiniteSet(DOMAIN q)
  <2>1. PICK D : D = DOMAIN q
    OBVIOUS
  <2>2. D \in SUBSET Requests
    BY <1>1, <2>1
  <2> QED
    BY <1>3, <2>1, <2>2, FS_Subset
<1> QED
  BY <1>1, <1>2, <1>3, <1>4

\* Before is a strict total order of the requests of a table.
LEMMA BeforeOrders ==
    ASSUME NEW q \in Tables
    PROVE  /\ \A i \in DOMAIN q : ~Before(q, i, i)
           /\ \A i, j \in DOMAIN q : Before(q, i, j) \/ Before(q, j, i) \/ i = j
           /\ \A i, j, k \in DOMAIN q :
                 Before(q, i, j) /\ Before(q, j, k) => Before(q, i, k)
<1>1. PICK g : g = [i \in DOMAIN q |-> Group(q[i])]
  OBVIOUS
<1>2. \A i \in DOMAIN q : g[i] = Group(q[i]) /\ g[i] \in {1, 2, 3}
  BY <1>1 DEF Group
<1>3. \A i \in DOMAIN q : i \in Nat /\ q[i].at \in Nat
  BY TableFacts
<1>4. \A i, j \in DOMAIN q :
         Before(q, i, j) <=> \/ g[i] < g[j]
                             \/ g[i] = g[j] /\ g[i] # 3 /\ q[i].at < q[j].at
                             \/ g[i] = g[j] /\ g[i] = 3 /\ q[i].at > q[j].at
                             \/ g[i] = g[j] /\ q[i].at = q[j].at /\ i < j
  BY <1>2 DEF Before
<1> QED
  BY <1>2, <1>3, <1>4

\* How many of the requests in ids come before i.
Rank(q, ids, i) == Cardinality({j \in ids : Before(q, j, i)})

LEMMA RankIsUnique ==
    ASSUME NEW q \in Tables, NEW ids \in SUBSET (DOMAIN q)
    PROVE  /\ IsFiniteSet(ids) /\ Cardinality(ids) \in Nat
           /\ \A i \in ids : Rank(q, ids, i) \in 0..Cardinality(ids) - 1
           /\ \A i, j \in ids : Rank(q, ids, i) = Rank(q, ids, j) => i = j
<1>1. IsFiniteSet(ids) /\ Cardinality(ids) \in Nat
  BY TableFacts, FS_Subset, FS_CardinalityType
<1>2. \A S \in SUBSET ids : IsFiniteSet(S) /\ Cardinality(S) \in Nat
                            /\ Cardinality(S) <= Cardinality(ids)
                            /\ (Cardinality(S) = Cardinality(ids) => S = ids)
  BY <1>1, FS_Subset, FS_CardinalityType
<1>3. ASSUME NEW i \in ids
      PROVE  Rank(q, ids, i) \in 0..Cardinality(ids) - 1
  <2>1. PICK S : S = {j \in ids : Before(q, j, i)}
    OBVIOUS
  <2>2. S \in SUBSET ids /\ i \notin S
    BY <2>1, BeforeOrders
  <2>3. Cardinality(S) \in Nat /\ Cardinality(S) <= Cardinality(ids)
        /\ Cardinality(S) # Cardinality(ids)
    BY <1>2, <2>2
  <2> QED
    BY <1>1, <2>1, <2>3 DEF Rank
<1>4. ASSUME NEW i \in ids, NEW j \in ids, Before(q, i, j)
      PROVE  Rank(q, ids, i) # Rank(q, ids, j)
  <2>1. PICK S : S = {k \in ids : Before(q, k, i)}
    OBVIOUS
  <2>2. PICK U : U = {k \in ids : Before(q, k, j)}
    OBVIOUS
  <2>3. S \in SUBSET U /\ U \in SUBSET ids /\ i \in U /\ i \notin S
    BY <1>4, <2>1, <2>2, BeforeOrders
  <2>4. IsFiniteSet(U) /\ S # U
    BY <1>2, <2>3
  <2>5. Cardinality(S) # Cardinality(U)
    BY <2>3, <2>4, FS_Subset
  <2> QED
    BY <2>1, <2>2, <2>5 DEF Rank
<1> QED
  BY <1>1, <1>3, <1>4, BeforeOrders

\* The k-th row is the request with k - 1 others before it.
LEMMA SortedRows ==
    ASSUME NEW q \in Tables, NEW ids \in SUBSET (DOMAIN q),
           NEW k \in 1..Cardinality(ids)
    PROVE  /\ sortedRequests(q, ids)[k] \in ids
           /\ Rank(q, ids, sortedRequests(q, ids)[k]) = k - 1
<1>1. PICK N \in Nat : N = Cardinality(ids)
  BY RankIsUnique
<1>2. PICK place : place = [i \in ids |-> Rank(q, ids, i)]
  OBVIOUS
<1>0. k \in Nat /\ 1 <= k /\ k <= N /\ k - 1 \in 0..N - 1
  BY <1>1
<1>3. \E i \in ids : place[i] = k - 1
  <2> SUFFICES ASSUME \A i \in ids : place[i] # k - 1
               PROVE  FALSE
    OBVIOUS
  <2>1. PICK U : U = (0..N - 1) \ {k - 1}
    OBVIOUS
  <2>2. IsFiniteSet(0..N - 1) /\ Cardinality(0..N - 1) = N
    <3>1. N - 1 \in Int /\ (0 > N - 1 => N = 0) /\ N - 1 - 0 + 1 = N
      BY <1>1
    <3>2. IsFiniteSet(0..N - 1)
          /\ Cardinality(0..N - 1) = IF 0 > N - 1 THEN 0 ELSE N - 1 - 0 + 1
      BY <3>1, FS_Interval
    <3> QED
      BY <3>1, <3>2
  <2>3. IsFiniteSet(U) /\ Cardinality(U) = N - 1
    <3>1. PICK I : I = 0..N - 1
      OBVIOUS
    <3>2. IsFiniteSet(I) /\ Cardinality(I) = N /\ k - 1 \in I /\ U = I \ {k - 1}
      BY <1>0, <2>1, <2>2, <3>1
    <3> QED
      BY <3>2, FS_RemoveElement
  <2>4. place \in [ids -> U]
    BY <1>1, <1>2, <2>1, RankIsUnique
  <2>5. Cardinality(U) < Cardinality(ids) /\ IsFiniteSet(ids)
    BY <1>1, <2>3, RankIsUnique
  <2>6. \E i, j \in ids : i # j /\ place[i] = place[j]
    BY <2>3, <2>4, <2>5, FS_PigeonHole
  <2> QED
    BY <1>2, <2>6, RankIsUnique
<1>4. \E i \in ids : Cardinality({j \in ids : Before(q, j, i)}) = k - 1
  BY <1>2, <1>3 DEF Rank
<1>5. sortedRequests(q, ids)[k]
        = CHOOSE i \in ids : Cardinality({j \in ids : Before(q, j, i)}) = k - 1
  BY DEF sortedRequests, inOrder
<1> QED
  BY <1>4, <1>5 DEF Rank

LEMMA RowsCount ==
    ASSUME NEW q \in Tables, NEW f, NEW t
    PROVE  /\ visibleCount(q, f, t) \in Nat
           /\ Len(visibleRequests(q, f, t)) = visibleCount(q, f, t)
<1>1. PICK ids : ids = visibleIds(q, f, t)
  OBVIOUS
<1>2. ids \in SUBSET (DOMAIN q)
  BY <1>1 DEF visibleIds
<1>3. PICK n \in Nat : n = Cardinality(ids)
  BY <1>2, RankIsUnique
<1>4. PICK w : w = visibleRequests(q, f, t)
  OBVIOUS
<1>5. w = [k \in 1..Cardinality(ids) |->
             CHOOSE i \in ids : Cardinality({j \in ids : Before(q, j, i)}) = k - 1]
  <2>1. w = sortedRequests(q, ids)
    BY <1>1, <1>4 DEF visibleRequests
  <2> QED
    BY <2>1 DEF sortedRequests, inOrder
<1>6. Len(w) = n
  <2>1. \A k \in 1..Cardinality(ids) : w[k] \in ids
    BY <1>1, <1>2, <1>4, SortedRows DEF visibleRequests
  <2>2. w \in [1..Cardinality(ids) -> ids]
    BY <1>5, <2>1, Zenon
  <2>3. w \in [1..n -> ids]
    BY <1>3, <2>2
  <2> QED
    BY <1>3, <2>3
<1> QED
  BY <1>1, <1>3, <1>4, <1>6 DEF visibleCount


\* Time only takes rows away.
LEMMA RowsOnlyGo ==
    ASSUME NEW q \in Tables, NEW f, NEW t \in Nat, NEW u \in Nat, t <= u
    PROVE  /\ visibleIds(q, f, u) \subseteq visibleIds(q, f, t)
           /\ visibleCount(q, f, u) <= visibleCount(q, f, t)
<1>0. TTL \in Nat
  BY BrowserAssumption
<1>1. ASSUME NEW i \in visibleIds(q, f, u)
      PROVE  i \in visibleIds(q, f, t)
  <2>1. i \in DOMAIN q /\ requestVisible(q[i], u) /\ requestMatchesFilter(i, f)
    BY <1>1 DEF visibleIds
  <2>2. q[i].at \in Nat
    BY <2>1, TableFacts
  <2>3. requestVisible(q[i], t)
    BY <1>0, <2>1, <2>2 DEF requestVisible
  <2> QED
    BY <2>1, <2>3 DEF visibleIds
<1>2. PICK D : D = visibleIds(q, f, t)
  OBVIOUS
<1>3. PICK V : V = visibleIds(q, f, u)
  OBVIOUS
<1>4. D \in SUBSET (DOMAIN q) /\ V \in SUBSET D
  BY <1>1, <1>2, <1>3 DEF visibleIds
<1>5. IsFiniteSet(D)
  BY <1>4, RankIsUnique
<1>6. Cardinality(V) <= Cardinality(D)
  BY <1>4, <1>5, FS_Subset
<1> QED
  BY <1>1, <1>2, <1>3, <1>6 DEF visibleCount

\* Where no cancelled row is drawn, the rows that time takes away are the last
\* ones: what disappears is sorted by the time at which it does.
LEMMA RowsStayInPlace ==
    ASSUME NEW q \in Tables, NEW f, NEW t \in Nat, NEW u \in Nat, t <= u,
           \A i \in visibleIds(q, f, t) : q[i].status # "cancelled",
           NEW k \in 1..visibleCount(q, f, u)
    PROVE  visibleRequests(q, f, u)[k] = visibleRequests(q, f, t)[k]
<1>0. TTL \in Nat
  BY BrowserAssumption
<1>1. PICK D : D = visibleIds(q, f, t)
  OBVIOUS
<1>2. PICK V : V = visibleIds(q, f, u)
  OBVIOUS
<1>3. D \in SUBSET (DOMAIN q) /\ V \in SUBSET D /\ V \in SUBSET (DOMAIN q)
  BY <1>1, <1>2, RowsOnlyGo DEF visibleIds
<1>4. ASSUME NEW i \in V, NEW j \in D, Before(q, j, i)
      PROVE  j \in V
  <2>1. /\ q[i].status \in Statuses /\ q[j].status \in Statuses
        /\ q[i].at \in Nat /\ q[j].at \in Nat
        /\ q[i].status # "cancelled" /\ q[j].status # "cancelled"
    BY <1>1, <1>3, TableFacts
  <2>2. requestVisible(q[i], u)
    BY <1>2 DEF visibleIds
  <2>3. j \in DOMAIN q /\ requestMatchesFilter(j, f)
    BY <1>1 DEF visibleIds
  <2>4. requestVisible(q[j], u)
    <3>1. CASE q[j].status \in {"pending", "running"}
      BY <3>1 DEF requestVisible
    <3>2. CASE q[j].status \in {"completed", "failed"}
      <4>1. Group(q[j]) = 3
        BY <3>2 DEF Group
      <4>2. Group(q[i]) \in {1, 2, 3}
        BY DEF Group
      <4>3. Group(q[i]) = 3 /\ q[j].at >= q[i].at
        BY <1>4, <2>1, <4>1, <4>2 DEF Before
      <4>4. q[i].status \in {"completed", "failed"}
        BY <2>1, <4>3 DEF Group, Statuses
      <4> QED
        BY <1>0, <2>1, <2>2, <4>3, <4>4 DEF requestVisible
    <3> QED
      BY <2>1, <3>1, <3>2 DEF Statuses
  <2> QED
    BY <1>2, <2>3, <2>4 DEF visibleIds
<1>5. ASSUME NEW i \in V
      PROVE  Rank(q, V, i) = Rank(q, D, i)
  <2>1. {j \in V : Before(q, j, i)} = {j \in D : Before(q, j, i)}
    BY <1>3, <1>4
  <2> QED
    BY <2>1 DEF Rank
<1>6. k \in 1..Cardinality(V) /\ k \in 1..Cardinality(D)
  <2>1. Cardinality(V) \in Nat /\ Cardinality(D) \in Nat
    BY <1>3, RankIsUnique
  <2>2. k \in 1..Cardinality(V) /\ Cardinality(V) <= Cardinality(D)
    BY <1>1, <1>2, RowsOnlyGo DEF visibleCount
  <2> QED
    BY <2>1, <2>2
<1>7. PICK v : v = sortedRequests(q, V)[k]
  OBVIOUS
<1>8. PICK d : d = sortedRequests(q, D)[k]
  OBVIOUS
<1>9. v \in V /\ d \in D /\ Rank(q, V, v) = k - 1 /\ Rank(q, D, d) = k - 1
  BY <1>3, <1>6, <1>7, <1>8, SortedRows
<1>10. v = d
  <2>1. Rank(q, D, v) = Rank(q, D, d) /\ v \in D
    BY <1>3, <1>5, <1>9
  <2>2. \A i, j \in D : Rank(q, D, i) = Rank(q, D, j) => i = j
    BY <1>3, RankIsUnique
  <2> QED
    BY <1>9, <2>1, <2>2
<1> QED
  BY <1>1, <1>2, <1>7, <1>8, <1>10 DEF visibleRequests

-----------------------------------------------------------------------------
(* The invariant.                                                          *)

\* Types, that a terminal of the usual size has room for a row, and that the
\* viewport holds the lines of the table that was drawn last.
BrowserInv ==
    /\ requests \in Tables
    /\ Len(servers) \in Nat
    /\ now \in Nat /\ shown \in Nat /\ shown <= now
    /\ selectedIdx \in Nat
    /\ size \in Nat \X Nat
    /\ layout \in [req : Nat, info : Nat]
    /\ size[1] >= 60 /\ size[2] >= 10 => layout.req >= 1
    /\ offset \in Nat /\ lines \in Nat
    /\ (received /\ size[1] >= 60)
         => lines = TableLines(visibleCount(requests, filter, shown), size)

LEMMA LayoutFacts ==
    ASSUME layout \in [req : Nat, info : Nat],
           NEW sz \in Nat \X Nat, NEW n \in Nat, NEW b \in BOOLEAN
    PROVE  /\ resizeViewports(sz, n, b) \in [req : Nat, info : Nat]
           /\ sz[1] >= 60 /\ sz[2] >= 10 => resizeViewports(sz, n, b).req >= 1
<1>1. \A m \in Int : larger(1, m) \in Nat /\ larger(1, m) >= 1
  BY DEF larger
<1>2. \A m \in Int : larger(4, m) \in Int /\ larger(3, m) \in Int /\ larger(2, m) \in Int
  BY DEF larger
<1>3. CASE sz[1] < 60 \/ sz[2] < 10
  <2>1. resizeViewports(sz, n, b) = layout
    BY <1>3, Zenon DEF resizeViewports
  <2>2. sz[1] \in Nat /\ sz[2] \in Nat
    OBVIOUS
  <2> QED
    BY <1>3, <2>1, <2>2
<1>4. CASE ~(sz[1] < 60 \/ sz[2] < 10)
  <2>1. PICK r : r = larger(4, sz[2] - 1 - headerHeight(n) - 1 - (IF b THEN 3 ELSE 0))
    OBVIOUS
  <2>2. r \in Int
    BY <1>1, <1>2, <2>1 DEF headerHeight, larger
  <2>3. PICK h : h = larger(3, (r * 2) \div 3)
    OBVIOUS
  <2>4. h \in Int
    BY <1>2, <2>2, <2>3
  <2>5. PICK g : g = larger(2, r - h)
    OBVIOUS
  <2>6. g \in Int
    BY <1>2, <2>2, <2>4, <2>5
  <2>7. resizeViewports(sz, n, b) = [req |-> larger(1, h - 3), info |-> larger(1, g - 3)]
    BY <1>4, <2>1, <2>3, <2>5 DEF resizeViewports
  <2>8. /\ larger(1, h - 3) \in Nat /\ larger(1, h - 3) >= 1
        /\ larger(1, g - 3) \in Nat
    BY <1>1, <2>4, <2>6
  <2> QED
    BY <2>7, <2>8
<1> QED
  BY <1>3, <1>4

\* Every step but the clock's ends with View, which draws what the console has.
LEMMA ViewKeeps ==
    ASSUME BrowserInv, NEW y \in Nat, View(y),
           requests' \in Tables, Len(servers') \in Nat, selectedIdx' \in Nat,
           size' \in Nat \X Nat, layout' \in [req : Nat, info : Nat],
           size'[1] >= 60 /\ size'[2] >= 10 => layout'.req >= 1
    PROVE  BrowserInv'
<1>1. now' = now /\ shown' = now /\ now \in Nat
  BY DEF View, BrowserInv
<1>2. PICK n : n = visibleCount(requests', filter', now)
  OBVIOUS
<1>3. n \in Nat
  BY <1>2, RowsCount
<1>4. TableLines(n, size') \in Nat
  BY <1>3 DEF TableLines, TitleLines, larger
<1>5. lines' = IF size'[1] >= 60 /\ received' THEN TableLines(n, size') ELSE lines
  BY <1>2 DEF View
<1>6. lines' \in Nat
  BY <1>4, <1>5 DEF BrowserInv
<1>7. \A a, b \in Nat : maxYOffset(a, b) \in Nat
  BY DEF maxYOffset, larger
<1>8. layout'.req \in Nat
  OBVIOUS
<1>9. offset' \in Nat
  <2>1. maxYOffset(lines', layout'.req) \in Nat
    BY <1>6, <1>7, <1>8
  <2>2. offset' = maxYOffset(lines', layout'.req) \/ offset' = y
    BY DEF View
  <2> QED
    BY <2>1, <2>2
<1>10. visibleCount(requests', filter', shown') = n
  BY <1>1, <1>2
<1> QED
  BY <1>1, <1>5, <1>6, <1>9, <1>10 DEF BrowserInv

LEMMA OffsetFacts ==
    ASSUME BrowserInv
    PROVE  /\ VisibleCount \in Nat
           /\ \A s \in Int : SetYOffset(s) \in Nat /\ ensureSelected(s) \in Nat
           /\ ScrollUp(WheelStep) \in Nat /\ ScrollDown(WheelStep) \in Nat
<1>1. lines \in Nat /\ layout.req \in Nat /\ offset \in Nat
  BY DEF BrowserInv
<1>2. \A s \in Int : SetYOffset(s) \in Nat
  BY <1>1 DEF SetYOffset, maxYOffset, larger, smaller
<1>3. \A s \in Int : ensureSelected(s) \in Nat
  BY <1>1, <1>2 DEF ensureSelected
<1>4. ScrollUp(WheelStep) \in Nat /\ ScrollDown(WheelStep) \in Nat
  BY <1>1, <1>2 DEF ScrollUp, ScrollDown, WheelStep
<1>5. VisibleCount \in Nat
  BY RowsCount DEF BrowserInv, VisibleCount
<1> QED
  BY <1>2, <1>3, <1>4, <1>5

LEMMA BrowserStart == Init => BrowserInv
<1> SUFFICES ASSUME Init
             PROVE  BrowserInv
  OBVIOUS
<1>1. requests \in Tables
  BY DEF Init, Tables
<1>2. StartTime \in Nat
  BY BrowserAssumption
<1>3. Len(servers) = 0
  BY DEF Init
<1> QED
  BY <1>1, <1>2, <1>3 DEF Init, BrowserInv

\* The steps that leave the servers and the terminal as they are.
LEMMA InputKeeps ==
    ASSUME BrowserInv, NEW y \in Nat, View(y), UNCHANGED <<data, screen>>,
           selectedIdx' \in Nat
    PROVE  BrowserInv'
BY ViewKeeps DEF BrowserInv, data, screen

LEMMA CursorSteps ==
    ASSUME BrowserInv,
           \/ KeyUp \/ KeyDown \/ KeyPage \/ KeyTab \/ KeyEnter
           \/ (\E p \in {paneAtY(y) : y \in Lines} : WheelUp(p) \/ WheelDown(p) \/ PointAt(p))
           \/ (\E y \in Lines : Click(y))
    PROVE  BrowserInv'
<1>1. /\ selectedIdx \in Nat /\ offset \in Nat /\ layout.req \in Nat
      /\ VisibleCount \in Nat
  BY OffsetFacts DEF BrowserInv
<1>2. ASSUME NEW s, ToServer(s), UNCHANGED <<data, screen>>
      PROVE  BrowserInv'
  BY <1>1, <1>2, InputKeeps DEF ToServer
<1>3. ASSUME NEW s \in Nat, NEW y \in Nat, ToRequest(s, y), UNCHANGED <<data, screen>>
      PROVE  BrowserInv'
  BY <1>3, InputKeeps DEF ToRequest
<1>4. ASSUME NEW s \in Nat, ToRequest(s, ensureSelected(s)), UNCHANGED <<data, screen>>
      PROVE  BrowserInv'
  BY <1>3, <1>4, OffsetFacts
<1>5. CASE KeyUp
  <2>1. larger(0, selectedIdx - 1) \in Nat
    BY <1>1 DEF larger
  <2> QED
    BY <1>2, <1>4, <1>5, <2>1 DEF KeyUp, Browsing
<1>6. CASE KeyDown
  <2>1. selectedIdx + 1 \in Nat
    BY <1>1
  <2> QED
    BY <1>1, <1>2, <1>4, <1>6, <2>1 DEF KeyDown, Browsing
<1>7. CASE KeyPage
  <2>1. PICK last \in Nat : last = larger(0, VisibleCount - 1)
    BY <1>1 DEF larger
  <2>2. PICK s \in {larger(0, selectedIdx - layout.req),
                    smaller(last, selectedIdx + layout.req), 0, last} :
           ToRequest(s, offset)
    BY <1>7, <2>1 DEF KeyPage
  <2>3. s \in Nat
    BY <1>1, <2>1, <2>2 DEF larger, smaller
  <2> QED
    BY <1>1, <1>3, <1>7, <2>2, <2>3 DEF KeyPage, Browsing
<1>8. CASE KeyTab
  BY <1>1, <1>8, InputKeeps DEF KeyTab, Browsing
<1>9. CASE KeyEnter
  BY <1>1, <1>2, <1>3, <1>9 DEF KeyEnter, Browsing
<1>10. ASSUME NEW p, WheelUp(p) \/ WheelDown(p) \/ PointAt(p)
       PROVE  BrowserInv'
  <2>1. UNCHANGED <<data, screen>>
    BY <1>10 DEF WheelUp, WheelDown, PointAt, Pointing
  <2>2. CASE WheelUp(p)
    BY <1>1, <1>2, <2>1, <2>2, OffsetFacts, InputKeeps DEF WheelUp
  <2>3. CASE WheelDown(p)
    BY <1>1, <1>2, <2>1, <2>3, OffsetFacts, InputKeeps DEF WheelDown
  <2>4. CASE PointAt(p)
    BY <1>1, <2>1, <2>4, InputKeeps DEF PointAt
  <2> QED
    BY <1>10, <2>2, <2>3, <2>4
<1>11. ASSUME NEW y \in Lines, Click(y)
       PROVE  BrowserInv'
  <2>1. UNCHANGED <<data, screen>>
    BY <1>11 DEF Click, Pointing
  <2>2. \/ \E s : ToServer(s)
        \/ RowOfLine(y) \in 0..VisibleCount - 1
           /\ ToRequest(RowOfLine(y), ensureSelected(RowOfLine(y)))
    BY <1>11 DEF Click
  <2> QED
    BY <1>1, <1>2, <1>4, <2>1, <2>2
<1> QED
  BY <1>5, <1>6, <1>7, <1>8, <1>9, <1>10, <1>11

\* The servers of a snapshot are a list.
LEMMA ServersCount ==
    ASSUME NEW fleet
    PROVE  Len(applyServerList(fleet)) \in Nat
<1>1. PICK S : S = {p \in 1..Len(Backends) : Backends[p] \in fleet}
  OBVIOUS
<1>2. PICK I : I = 1..Len(Backends)
  OBVIOUS
<1>3. IsFiniteSet(I)
  BY <1>2, BrowserAssumption, FS_Interval
<1>4. Cardinality(S) \in Nat
  <2>1. S \in SUBSET I
    BY <1>1, <1>2
  <2> QED
    BY <1>3, <2>1, FS_Subset, FS_CardinalityType
<1>5. PICK places : places = inOrder(S, <)
  OBVIOUS
<1>6. applyServerList(fleet) = [k \in 1..Len(places) |-> Backends[places[k]]]
  BY <1>1, <1>5 DEF applyServerList
<1>7. Len(places) \in Nat
  <2>1. PICK e : e = [k \in 1..Cardinality(S) |->
                        CHOOSE i \in S : Cardinality({j \in S : j < i}) = k - 1]
    OBVIOUS
  <2>2. places = e
    BY <1>5, <2>1, Zenon DEF inOrder
  <2>3. PICK T : T = {e[k] : k \in 1..Cardinality(S)}
    OBVIOUS
  <2>4. \A k \in 1..Cardinality(S) : e[k] \in T
    BY <2>3
  <2>5. e \in [1..Cardinality(S) -> T]
    BY <2>1, <2>4, Zenon
  <2> QED
    BY <1>4, <2>2, <2>5
<1>8. PICK w : w = applyServerList(fleet)
  OBVIOUS
<1>9. PICK m \in Nat : m = Len(places)
  BY <1>7
<1>10. PICK T : T = {Backends[places[k]] : k \in 1..m}
  OBVIOUS
<1>11. w \in [1..m -> T]
  BY <1>6, <1>8, <1>9, <1>10
<1> QED
  BY <1>8, <1>9, <1>11

LEMMA BrowserStep == BrowserInv /\ [Next]_browserVars => BrowserInv'
<1> SUFFICES ASSUME BrowserInv, [Next]_browserVars
             PROVE  BrowserInv'
  OBVIOUS
<1>1. /\ requests \in Tables /\ Len(servers) \in Nat /\ size \in Nat \X Nat
      /\ selectedIdx \in Nat /\ offset \in Nat /\ layout \in [req : Nat, info : Nat]
      /\ now \in Nat
  BY DEF BrowserInv
<1>2. ASSUME NEW n \in Nat
      PROVE  clampSelected(selectedIdx, n) \in Nat
  BY <1>1, <1>2 DEF clampSelected, smaller
<1>3. CASE UNCHANGED browserVars
  BY <1>3 DEF BrowserInv, browserVars, data, cursor, input, screen
<1>4. CASE \/ KeyUp \/ KeyDown \/ KeyPage \/ KeyTab \/ KeyEnter
           \/ (\E p \in {paneAtY(y) : y \in Lines} : WheelUp(p) \/ WheelDown(p) \/ PointAt(p))
           \/ (\E y \in Lines : Click(y))
  BY <1>4, CursorSteps
<1>5. CASE OpenFilter \/ EnterFilter \/ ClearFilter \/ ToggleOverlay \/ Redraw
  BY <1>1, <1>5, InputKeeps
  DEF OpenFilter, EnterFilter, ClearFilter, ToggleOverlay, Redraw, cursor
<1>6. CASE Tick
  BY <1>1, <1>2, <1>6, OffsetFacts, InputKeeps DEF Tick
<1>7. ASSUME NEW sz \in Sizes, WindowSize(sz)
      PROVE  BrowserInv'
  <2>1. sz \in Nat \X Nat
    BY BrowserAssumption
  <2>2. PICK b \in BOOLEAN : b = (overlay = "filter")
    OBVIOUS
  <2>3. layout' = resizeViewports(sz, Len(servers), b) /\ size' = sz
    BY <1>7, <2>2 DEF WindowSize
  <2>4. /\ layout' \in [req : Nat, info : Nat]
        /\ size'[1] >= 60 /\ size'[2] >= 10 => layout'.req >= 1
    BY <1>1, <2>1, <2>3, LayoutFacts
  <2> QED
    BY <1>1, <1>7, <2>1, <2>3, <2>4, ViewKeeps DEF WindowSize, data, cursor
<1>8. ASSUME NEW q \in Snapshots, NEW fleet \in Fleets, Snapshot(q, fleet)
      PROVE  BrowserInv'
  <2>1. requests' = q /\ q \in Tables /\ servers' = applyServerList(fleet)
    BY <1>8 DEF Snapshot, Tables
  <2>2. Len(servers') \in Nat
    BY <2>1, ServersCount
  <2>3. PICK b \in BOOLEAN : b = (overlay = "filter")
    OBVIOUS
  <2>4. /\ layout' = layout \/ layout' = resizeViewports(size, Len(servers'), b)
        /\ size' = size
    <3>1. layout' = IF Len(servers') # Len(servers)
                      THEN resizeViewports(size, Len(servers'), overlay = "filter")
                      ELSE layout
      BY <1>8 DEF Snapshot
    <3> QED
      BY <1>8, <2>3, <3>1 DEF Snapshot
  <2>5. /\ layout' \in [req : Nat, info : Nat]
        /\ size'[1] >= 60 /\ size'[2] >= 10 => layout'.req >= 1
    <3>1. size[1] >= 60 /\ size[2] >= 10 => layout.req >= 1
      BY DEF BrowserInv
    <3>2. PICK r : r = resizeViewports(size, Len(servers'), b)
      OBVIOUS
    <3>3. /\ r \in [req : Nat, info : Nat]
          /\ size[1] >= 60 /\ size[2] >= 10 => r.req >= 1
      BY <1>1, <2>2, <3>2, LayoutFacts
    <3>4. layout' = layout \/ layout' = r
      BY <2>4, <3>2
    <3> QED
      BY <1>1, <2>4, <3>1, <3>3, <3>4
  <2>6. visibleCount(q, filter, now) \in Nat
    BY <2>1, RowsCount
  <2>7. selectedIdx' \in Nat
    BY <1>2, <1>8, <2>6 DEF Snapshot
  <2> QED
    BY <1>1, <1>8, <2>1, <2>2, <2>4, <2>5, <2>7, ViewKeeps DEF Snapshot
<1>9. CASE TimePasses
  BY <1>9 DEF TimePasses, BrowserInv, data, cursor, input, screen
<1> QED
  BY <1>3, <1>4, <1>5, <1>6, <1>7, <1>8, <1>9 DEF Next

LEMMA BrowserInvAlways == BrowserSpec => []BrowserInv
BY BrowserStart, BrowserStep, PTL DEF BrowserSpec

-----------------------------------------------------------------------------
(* The theorems.                                                           *)

\* What Update sees at a place of the list is what View has drawn there.
LEMMA SeenIsDrawn ==
    ASSUME BrowserInv, OnlyExpiring, NEW k \in 1..VisibleCount
    PROVE  /\ k \in 1..Len(Drawn)
           /\ Visible[k] = Drawn[k]
<1>1. requests \in Tables /\ shown \in Nat /\ now \in Nat /\ shown <= now
  BY DEF BrowserInv
<1>2. Visible[k] = Drawn[k]
  BY <1>1, RowsStayInPlace DEF OnlyExpiring, Visible, Drawn, VisibleCount
<1>3. /\ visibleCount(requests, filter, shown) \in Nat
      /\ Len(Drawn) = visibleCount(requests, filter, shown)
      /\ VisibleCount \in Nat
      /\ VisibleCount <= visibleCount(requests, filter, shown)
  BY <1>1, RowsCount, RowsOnlyGo DEF Drawn, VisibleCount
<1> QED
  BY <1>2, <1>3

\* For tables of any length of which no drawn row is cancelled, any lifetimes
\* and any terminal wide and high enough to show them whole: a click on a line
\* that shows a row shows the request of that row, or nothing new, although
\* handleClick takes the line for an index into a list that it computes anew.
\* Clicks on other lines are not covered.
THEOREM ClicksHitTheDrawnRow == BrowserSpec => ClickShowsDrawn
<1> DEFINE Hit == Standard /\ OnlyExpiring
                    => \A y \in Lines : Click(y) /\ DrawnAt(y) # 0
                         => info' = <<"request", DrawnAt(y)>>
<1>1. ASSUME BrowserInv
      PROVE  Hit
  <2> SUFFICES ASSUME OnlyExpiring, NEW y \in Lines, Click(y), DrawnAt(y) # 0
               PROVE  info' = <<"request", DrawnAt(y)>>
    OBVIOUS
  <2>1. PICK first : first = 1 + headerHeight(Len(servers)) + 2
    OBVIOUS
  <2>2. /\ headerHeight(Len(servers)) \in Int /\ first \in Int
        /\ y \in Int /\ offset \in Nat /\ layout.req \in Nat
    BY <1>1, <2>1 DEF BrowserInv, headerHeight, larger, Lines
  <2>3. /\ y \in first..first + layout.req - 1
        /\ DrawnAt(y) = Drawn[y - first + offset]
    BY <2>1 DEF DrawnAt
  <2>4. paneAtY(y) # "header"
    BY <2>1, <2>2, <2>3 DEF paneAtY
  <2>5. RowOfLine(y) \in 0..VisibleCount - 1 /\ info' = InfoOfRequest(RowOfLine(y))
    BY <2>4 DEF Click, ToRequest
  <2>6. RowOfLine(y) + 1 = y - first + offset
    BY <2>1, <2>2 DEF RowOfLine
  <2>7. VisibleCount \in Nat
    BY <1>1, OffsetFacts
  <2>8. RowOfLine(y) < VisibleCount /\ RowOfLine(y) + 1 \in 1..VisibleCount
    BY <2>5, <2>7
  <2>9. info' = <<"request", Visible[RowOfLine(y) + 1]>>
    BY <2>5, <2>8 DEF InfoOfRequest
  <2> QED
    BY <1>1, <2>3, <2>6, <2>8, <2>9, SeenIsDrawn
<1> QED
  BY <1>1, BrowserInvAlways, PTL DEF BrowserSpec, ClickShowsDrawn

\* For tables of any length of which no drawn row is cancelled, any lifetimes
\* and however long ago the table was drawn: Enter opens the row highlighted in
\* the table as it was drawn, or nothing.
THEOREM EnterOpensTheDrawnRow == BrowserSpec => EnterShowsHighlighted
<1> DEFINE Opened == info' # info /\ activePane = "requests" /\ OnlyExpiring /\ KeyEnter
                       => /\ selectedIdx < Len(Drawn)
                          /\ info' = <<"request", Drawn[selectedIdx + 1]>>
<1>1. ASSUME BrowserInv
      PROVE  Opened
  <2> SUFFICES ASSUME info' # info, activePane = "requests", OnlyExpiring, KeyEnter
               PROVE  /\ selectedIdx < Len(Drawn)
                      /\ info' = <<"request", Drawn[selectedIdx + 1]>>
    OBVIOUS
  <2>1. selectedIdx \in Nat /\ VisibleCount \in Nat
    BY <1>1, OffsetFacts DEF BrowserInv
  <2>2. info' = InfoOfRequest(selectedIdx)
    BY DEF KeyEnter, ToRequest
  <2>3. /\ selectedIdx < VisibleCount
        /\ info' = <<"request", Visible[selectedIdx + 1]>>
    BY <2>2 DEF InfoOfRequest
  <2>4. selectedIdx + 1 \in 1..VisibleCount
    BY <2>1, <2>3
  <2>5. selectedIdx + 1 \in 1..Len(Drawn) /\ Visible[selectedIdx + 1] = Drawn[selectedIdx + 1]
    BY <1>1, <2>4, SeenIsDrawn
  <2>6. Len(Drawn) \in Nat
    BY <1>1, RowsCount DEF BrowserInv, Drawn
  <2> QED
    BY <2>1, <2>3, <2>5, <2>6
<1> QED
  BY <1>1, BrowserInvAlways, PTL DEF BrowserSpec, EnterShowsHighlighted

\* The arithmetic of ensureSelected and of the View after it, with h rows in the
\* viewport: v is the number of rows now, d the number when they were drawn.
LEMMA MovedCursorIsShown ==
    ASSUME BrowserInv, NEW s \in Nat, NEW d \in Nat, NEW v \in Nat,
           v <= d, s < v, layout.req >= 1,
           lines = 1 + larger(1, d), lines' = 1 + larger(1, v),
           layout' = layout, View(ensureSelected(s))
    PROVE  s + 1 \in offset'..offset' + layout.req - 1
<1>1. PICK h \in Nat : h = layout.req /\ h >= 1
  BY DEF BrowserInv
<1>2. offset \in Nat
  BY DEF BrowserInv
<1>3. lines = 1 + d /\ lines' = 1 + v
  BY DEF larger
<1>4. PICK y : y = ensureSelected(s)
  OBVIOUS
<1>5. y \in Nat
  BY <1>4, OffsetFacts
<1>6. y <= s + 1 /\ s + 1 <= y + h - 1
  <2>1. CASE s + 1 < offset
    <3>1. y = larger(0, smaller(s + 1, larger(0, 1 + d - h)))
      BY <1>1, <1>3, <1>4, <2>1 DEF ensureSelected, SetYOffset, maxYOffset
    <3> QED
      BY <1>1, <3>1 DEF larger, smaller
  <2>2. CASE ~(s + 1 < offset) /\ s + 1 > offset + h - 1
    <3>1. y = larger(0, smaller(s + 2 - h, larger(0, 1 + d - h)))
      <4>1. s + 1 - h + 1 = s + 2 - h
        BY <1>1
      <4> QED
        BY <1>1, <1>3, <1>4, <2>2, <4>1 DEF ensureSelected, SetYOffset, maxYOffset
    <3> QED
      BY <1>1, <1>2, <2>2, <3>1 DEF larger, smaller
  <2>3. CASE ~(s + 1 < offset) /\ ~(s + 1 > offset + h - 1)
    <3>1. y = offset
      BY <1>1, <1>4, <2>3 DEF ensureSelected
    <3> QED
      BY <1>1, <1>2, <2>3, <3>1
  <2> QED
    BY <2>1, <2>2, <2>3
<1>7. offset' = y
  <2>1. ~(y > lines' - 1)
    BY <1>3, <1>5, <1>6
  <2> QED
    BY <1>4, <2>1 DEF View
<1> QED
  BY <1>1, <1>5, <1>6, <1>7

\* A key or a click that moves the cursor by a row keeps it in the viewport,
\* for any number of rows and any terminal that is wide enough, wherever the
\* viewport was and however many rows have disappeared since the last View.
THEOREM CursorIsKeptInSight == BrowserSpec => CursorStaysOnScreen
<1> DEFINE InSight == Standard /\ activePane' = "requests" /\ ~SelectedOnScreen'
                        => ~(KeyUp \/ KeyDown \/ \E y \in Lines : Click(y))
<1>1. ASSUME BrowserInv
      PROVE  InSight
  <2> SUFFICES ASSUME Standard, activePane' = "requests",
                      KeyUp \/ KeyDown \/ \E y \in Lines : Click(y)
               PROVE  SelectedOnScreen'
    OBVIOUS
  <2>1. selectedIdx \in Nat /\ VisibleCount \in Nat
    BY <1>1, OffsetFacts DEF BrowserInv
  <2>2. PICK s \in Nat : ToRequest(s, ensureSelected(s)) /\ UNCHANGED <<data, input, screen>>
    <3>1. CASE KeyUp
      <4>1. larger(0, selectedIdx - 1) \in Nat
        BY <2>1 DEF larger
      <4> QED
        BY <3>1, <4>1 DEF KeyUp, Browsing
    <3>2. CASE KeyDown
      <4>1. selectedIdx + 1 \in Nat
        BY <2>1
      <4> QED
        BY <2>1, <3>2, <4>1 DEF KeyDown, Browsing
    <3>3. ASSUME NEW y \in Lines, Click(y)
          PROVE  \E s \in Nat : /\ ToRequest(s, ensureSelected(s))
                                /\ UNCHANGED <<data, input, screen>>
      <4>1. paneAtY(y) = "requests"
        BY <3>3 DEF Click, Pointing
      <4> QED
        BY <2>1, <3>3, <4>1 DEF Click, Pointing
    <3> QED
      BY <3>1, <3>2, <3>3
  <2>3. /\ UNCHANGED <<requests, servers, received, filter, size, layout>>
        /\ selectedIdx' = s /\ View(ensureSelected(s))
    BY <2>2 DEF ToRequest, data, input, screen
  <2>4. now' = now /\ VisibleCount' = VisibleCount
    BY <2>3 DEF View, VisibleCount
  <2>5. size[1] \in Nat /\ size[2] \in Nat /\ size[1] >= 100 /\ received
    BY <1>1 DEF Standard, BrowserInv
  <2>6. layout.req >= 1
    <3>1. size[2] >= 10
      BY <1>1, <2>5 DEF Standard, Fits, BrowserInv, headerHeight, larger
    <3> QED
      BY <1>1, <2>5, <3>1 DEF BrowserInv
  <2>7. PICK d \in Nat : d = visibleCount(requests, filter, shown)
    BY <1>1, RowsCount DEF BrowserInv
  <2>8. VisibleCount <= d
    BY <1>1, <2>7, RowsOnlyGo DEF BrowserInv, VisibleCount
  <2>9. lines = 1 + larger(1, d)
    BY <1>1, <2>5, <2>7 DEF BrowserInv, TableLines, TitleLines
  <2>10. lines' = 1 + larger(1, VisibleCount)
    BY <2>3, <2>5 DEF View, VisibleCount, TableLines, TitleLines
  <2>11. s < VisibleCount => s + 1 \in offset'..offset' + layout.req - 1
    <3>1. layout' = layout
      BY <2>3
    <3> QED
      BY <1>1, <2>1, <2>3, <2>6, <2>7, <2>8, <2>9, <2>10, <3>1, MovedCursorIsShown
  <2> QED
    BY <2>3, <2>4, <2>11 DEF SelectedOnScreen
<1> QED
  BY <1>1, BrowserInvAlways, PTL DEF BrowserSpec, CursorStaysOnScreen

=============================================================================
