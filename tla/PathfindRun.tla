----------------------------- MODULE PathfindRun -----------------------------
(***************************************************************************)
(* One search of pathfind.rs as a state machine, one step per turn of the  *)
(* `while let Some(..) = open.pop()' loop, from every start, goal, wall    *)
(* pattern and crowd the constants allow.                                  *)
(***************************************************************************)
EXTENDS Pathfind

CONSTANTS Width, Height,
          Starts,     \* cells searches start from
          MaxWalls,   \* bound on the number of wall cells
          Crowds      \* the sets of extra blocked cells

ASSUME SizeAssumption == Width \in Nat /\ Height \in Nat /\ Starts \subseteq Cell

Room == (0 .. Width - 1) \X (0 .. Height - 1)

VARIABLES grid, extra, start, goal,   \* the call's arguments
          search,                     \* heap, closed set, costs with parents
          done, answer

vars == <<grid, extra, start, goal, search, done, answer>>

\* The call: trivial cases answer at once, the others set up the heap.
Init ==
  /\ \E walls \in {W \in SUBSET Room : Cardinality(W) <= MaxWalls} :
       grid = [width |-> Width, height |-> Height, walls |-> walls]
  /\ extra \in Crowds
  /\ start \in Starts /\ goal \in Room
  /\ search = NewSearch(start, goal)
  /\ done = Trivial(grid, extra, start, goal)
  /\ answer = IF done THEN TrivialAnswer(start, goal) ELSE NoRoute

Searching == ~ done /\ search.open # {}

\* Closed cells popped again.
PopStale ==
  /\ Searching /\ Top(grid, search).cell \in search.closed
  /\ search' = DropStale(grid, search)
  /\ UNCHANGED <<grid, extra, start, goal, done, answer>>

PopGoal ==
  /\ Searching /\ Top(grid, search).cell \notin search.closed
  /\ Top(grid, search).cell = goal
  /\ answer' = Backtrack(search, start, goal)
  /\ done' = TRUE
  /\ UNCHANGED <<grid, extra, start, goal, search>>

PopCell ==
  /\ Searching /\ Top(grid, search).cell \notin search.closed
  /\ Top(grid, search).cell # goal
  /\ search' = Expand(grid, extra, goal, search)
  /\ UNCHANGED <<grid, extra, start, goal, done, answer>>

HeapEmpty ==
  /\ ~ done /\ search.open = {}
  /\ done' = TRUE
  /\ UNCHANGED <<grid, extra, start, goal, search, answer>>

Next == PopStale \/ PopGoal \/ PopCell \/ HeapEmpty

Spec == Init /\ [][Next]_vars /\ WF_vars(Next)

-----------------------------------------------------------------------------
(* The reference: distances by breadth-first search. *)

OpenCells == Floor(grid) \ extra

Ball(from) ==
  LET open == OpenCells
      ball[n \in 0 .. Cardinality(Room)] ==
        IF n = 0 THEN {from}
        ELSE LET prev == ball[n - 1]
             IN  prev \cup (open \cap UNION {Neighbors(c) : c \in prev})
  IN  ball

\* The answer is a walkable route of the least possible length, there is none
\* exactly when no route exists, and `astar', the function the world module
\* calls, gives the same answer.
ShortestAnswer ==
  done => /\ answer = astar(grid, extra, start, goal)
          /\ start # goal =>
               LET ball == Ball(start)
                   reachable == /\ ~ Blocked(grid, start) /\ goal \in OpenCells
                                /\ goal \in ball[Cardinality(Room)]
               IN  IF reachable
                   THEN /\ IsRoute(grid, extra, start, goal, answer)
                        /\ \A n \in 0 .. Len(answer) - 1 : goal \notin ball[n]
                   ELSE answer = NoRoute

\* A popped cell is final: its cost is its true distance from the start, so
\* refusing to reopen closed cells (pathfind.rs:93) loses nothing.
ClosedIsFinal ==
  LET ball == Ball(start)
  IN  \A l \in search.labels : l.cell \in search.closed =>
        /\ l.cell \in ball[l.cost]
        /\ \A n \in 0 .. l.cost - 1 : l.cell \notin ball[n]

\* Every search ends: the heap is finite and each cell is expanded once.
Terminates == <>done
=============================================================================
