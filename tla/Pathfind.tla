------------------------------ MODULE Pathfind ------------------------------
(***************************************************************************)
(* The deterministic A* search of pathfind.rs, as operators: the state of  *)
(* one search is a record, Pop is one turn of its loop, and `astar' runs   *)
(* the loop to its end.  PathfindRun gives the loop as a state machine.    *)
(***************************************************************************)
EXTENDS Grid

CONSTANT NoRoute    \* the result None

Abs(n) == IF n < 0 THEN - n ELSE n

Manhattan(a, b) == Abs(a[1] - b[1]) + Abs(a[2] - b[2])

CellIndex(g, c) == c[2] * g.width + c[1]

\* A heap entry (f, h, cell); the heap orders them by f, then h, then index.
Entry(cost, c, goal) == [f |-> cost + Manhattan(c, goal), h |-> Manhattan(c, goal), cell |-> c]

\* Mutant: the heap orders by the estimate alone.
GreedyBefore(g, d, e) ==
  d.h < e.h \/ (d.h = e.h /\ CellIndex(g, d.cell) <= CellIndex(g, e.cell))

EntryBefore(g, d, e) ==
  \/ d.f < e.f
  \/ d.f = e.f /\ d.h < e.h
  \/ d.f = e.f /\ d.h = e.h /\ CellIndex(g, d.cell) <= CellIndex(g, e.cell)

\* A search with only its start on the heap.  A label holds the best cost known
\* for a cell and its parent; a cell without one still costs i32::MAX.
Label(cell, cost, parent) == [cell |-> cell, cost |-> cost, parent |-> parent]

NewSearch(start, goal) ==
  [open |-> {Entry(0, start, goal)}, closed |-> {}, labels |-> {Label(start, 0, start)}]

Top(g, s) == CHOOSE e \in s.open : \A d \in s.open : EntryBefore(g, e, d)

LabelOf(s, c) == CHOOSE l \in s.labels : l.cell = c

\* Mutant: the extra blocked cells count for the goal only.
ImprovedThroughExtra(g, extra, s, cur, cost) ==
  {n \in Neighbors(cur) : /\ ~ Blocked(g, n) /\ n \notin s.closed
                          /\ \A l \in s.labels : l.cell = n => cost < l.cost}

\* The neighbours of the popped cell whose cost strictly improves.
Improved(g, extra, s, cur, cost) ==
  {n \in Neighbors(cur) : /\ ~ Blocked(g, n) /\ n \notin extra /\ n \notin s.closed
                          /\ \A l \in s.labels : l.cell = n => cost < l.cost}

\* Close the popped cell and push its improved neighbours.
Expand(g, extra, goal, s) ==
  LET top == Top(g, s)
      cost == LabelOf(s, top.cell).cost + 1
      better == Improved(g, extra, s, top.cell, cost)
  IN  [open   |-> (s.open \ {top}) \cup {Entry(cost, n, goal) : n \in better},
       closed |-> s.closed \cup {top.cell},
       labels |-> {l \in s.labels : l.cell \notin better}
                    \cup {Label(n, cost, top.cell) : n \in better}]

\* Mutant: the entry is looked at but not popped.
PeekStale(g, s) == s

\* A heap entry whose cell was closed meanwhile is dropped.
DropStale(g, s) == [s EXCEPT !.open = @ \ {Top(g, s)}]

\* The path walked back through the parents: start left out, goal included.
Backtrack(s, start, goal) ==
  LET back[n \in 0 .. LabelOf(s, goal).cost - 1] ==
        IF n = 0 THEN <<goal>>
        ELSE LET prev == back[n - 1] IN <<LabelOf(s, Head(prev)).parent>> \o prev
  IN  back[LabelOf(s, goal).cost - 1]

\* What the guards before the loop answer without any search.
Trivial(g, extra, start, goal) ==
  start = goal \/ Blocked(g, goal) \/ goal \in extra \/ Blocked(g, start)

TrivialAnswer(start, goal) == IF start = goal THEN <<>> ELSE NoRoute

\* The loop, run for as many turns as it can take: a cell is pushed at most
\* once by each neighbour, and only if it is free.
astar(g, extra, start, goal) ==
  LET turns == 4 * Cardinality(Floor(g)) + 1
      atGoal(s) == s.open # {} /\ Top(g, s).cell = goal /\ goal \notin s.closed
      run[n \in 0 .. turns] ==
        IF n = 0 THEN NewSearch(start, goal)
        ELSE LET s == run[n - 1]
             IN  IF s.open = {} \/ atGoal(s) THEN s
                 ELSE IF Top(g, s).cell \in s.closed THEN DropStale(g, s)
                 ELSE Expand(g, extra, goal, s)
  IN  IF Trivial(g, extra, start, goal) THEN TrivialAnswer(start, goal)
      ELSE LET s == run[turns]
           IN  IF atGoal(s) THEN Backtrack(s, start, goal) ELSE NoRoute
=============================================================================
