----------------------------- MODULE GridProofs -----------------------------
(***************************************************************************)
(* Theorems about the geometry, for every map: the flood fill with which   *)
(* PUT /world/map judges a room finds exactly the cells one can walk to,   *)
(* and in a room it accepts the path finder finds a way from everywhere to *)
(* everywhere; no way through any grid is shorter than the one it finds.   *)
(*                                                                         *)
(* The two searches, the flood of tilemap.rs and the A* of pathfind.rs,    *)
(* are independent code.  What is known of a finished A* search is what    *)
(* shows that the flood has as many rings as it needs.                     *)
(***************************************************************************)
EXTENDS PathfindProofs

-----------------------------------------------------------------------------
(* Walks. *)

\* What holds of zero and of every number up to k after the one before it, holds
\* up to k.
LEMMA UpTo ==
  ASSUME NEW k \in Nat, NEW G, 0 \in G, \A n \in 1 .. k : n - 1 \in G => n \in G
  PROVE  0 .. k \subseteq G
<1> DEFINE bad == {n \in 0 .. k : n \notin G}
<1> SUFFICES ASSUME bad # {} PROVE FALSE
  OBVIOUS
<1>1. bad \in SUBSET Nat
  OBVIOUS
<1>2. PICK n \in bad : \A i \in bad : n <= i
  BY <1>1, Least
<1>3. n # 0 /\ n \in Nat /\ n \in 0 .. k
  BY <1>2
<1>4. n \in 1 .. k /\ n - 1 \in 0 .. k /\ n - 1 \notin bad
  BY <1>2, <1>3
<1> QED
  BY <1>2, <1>4

\* `w' walks over free cells in k steps.
IsWalk(w, k, g, x, from, to) ==
  /\ w[0] = from /\ w[k] = to
  /\ \A n \in 1 .. k : w[n] \in Neighbors(w[n - 1]) /\ w[n] \in Free(g, x)

LEMMA RouteIsWalk ==
  ASSUME NEW g, NEW x, NEW from, NEW to, NEW r, IsRoute(g, x, from, to, r)
  PROVE  Len(r) \in Nat /\ \E w : IsWalk(w, Len(r), g, x, from, to)
<1>1. PICK k \in Nat : k = Len(r)
  BY DEF IsRoute
<1> DEFINE w == [n \in 0 .. k |-> IF n = 0 THEN from ELSE r[n]]
<1>2. \A n \in 1 .. k : /\ r[n] \in Free(g, x)
                        /\ r[n] \in Neighbors(IF n = 1 THEN from ELSE r[n - 1])
  <2> SUFFICES ASSUME NEW n \in 1 .. k
               PROVE  /\ r[n] \in Free(g, x)
                      /\ r[n] \in Neighbors(IF n = 1 THEN from ELSE r[n - 1])
    OBVIOUS
  <2>1. ~ Blocked(g, r[n]) /\ r[n] \notin x
        /\ r[n] \in Neighbors(IF n = 1 THEN from ELSE r[n - 1])
    BY <1>1 DEF IsRoute
  <2> QED
    BY <2>1 DEF Free, Floor, Blocked
<1>3. w[0] = from /\ \A n \in 1 .. k : w[n] = r[n]
  OBVIOUS
<1>4. w[k] = to
  <2>1. CASE k = 0
    <3>1. from = to
      <4>1. r \in Seq(Cell) /\ Len(r) = 0
        BY <1>1, <2>1 DEF IsRoute
      <4>2. r = <<>>
        BY <4>1
      <4> QED
        BY <4>2 DEF IsRoute
    <3> QED
      BY <1>3, <2>1, <3>1
  <2>2. CASE k # 0
    <3>1. r[k] = to /\ k \in 1 .. k
      BY <1>1, <2>2 DEF IsRoute
    <3> QED
      BY <1>3, <3>1
  <2> QED
    BY <2>1, <2>2
<1> HIDE DEF w
<1>5. ASSUME NEW n \in 1 .. k PROVE w[n] \in Neighbors(w[n - 1]) /\ w[n] \in Free(g, x)
  <2>1. CASE n = 1
    BY <1>2, <1>3, <2>1
  <2>2. CASE n # 1
    <3>1. n - 1 \in 1 .. k
      BY <2>2
    <3> QED
      BY <1>2, <1>3, <2>2, <3>1
  <2> QED
    BY <2>1, <2>2
<1>6. IsWalk(w, k, g, x, from, to)
  BY <1>3, <1>4, <1>5 DEF IsWalk
<1> QED
  BY <1>1, <1>6

\* Nothing leads out of S over free cells.
Sealed(g, x, S) == \A c \in S : Neighbors(c) \cap Free(g, x) \subseteq S

LEMMA WalkStaysIn ==
  ASSUME NEW w, NEW k \in Nat, NEW g, NEW x, NEW from, NEW to, IsWalk(w, k, g, x, from, to),
         NEW S, from \in S, Sealed(g, x, S)
  PROVE  to \in S
<1> DEFINE good == {n \in 0 .. k : w[n] \in S}
<1>1. 0 \in good
  BY DEF IsWalk
<1>2. ASSUME NEW n \in 1 .. k, n - 1 \in good PROVE n \in good
  <2>1. w[n - 1] \in S
    BY <1>2
  <2>2. w[n] \in Neighbors(w[n - 1]) /\ w[n] \in Free(g, x)
    BY DEF IsWalk
  <2>3. w[n] \in S
    BY <2>1, <2>2 DEF Sealed
  <2> QED
    BY <2>3
<1> HIDE DEF good
<1>3. k \in good
  BY <1>1, <1>2, UpTo
<1> QED
  BY <1>3 DEF good, IsWalk

\* A walk of k steps ends in the k-th ring.
LEMMA WalkInRings ==
  ASSUME NEW w, NEW k \in Nat, NEW g, NEW x, NEW from, NEW to, IsWalk(w, k, g, x, from, to),
         NEW b, NEW N \in Nat, IsRings(b, g, x, from, N), k <= N
  PROVE  to \in b[k]
<1> DEFINE good == {n \in 0 .. k : w[n] \in b[n]}
<1>1. 0 \in good
  BY DEF IsWalk, IsRings
<1>2. ASSUME NEW n \in 1 .. k, n - 1 \in good PROVE n \in good
  <2>1. w[n - 1] \in b[n - 1]
    BY <1>2
  <2>2. w[n] \in Neighbors(w[n - 1]) /\ w[n] \in Free(g, x)
    BY DEF IsWalk
  <2>3. n \in 1 .. N
    OBVIOUS
  <2>4. b[n] = Widened(g, x, b[n - 1])
    BY <2>3 DEF IsRings
  <2>5. w[n] \in b[n]
    BY <2>1, <2>2, <2>4 DEF Widened
  <2> QED
    BY <2>5
<1> HIDE DEF good
<1>3. k \in good
  BY <1>1, <1>2, UpTo
<1> QED
  BY <1>3 DEF good, IsWalk

\* No ring leaves a sealed set it started in.
LEMMA RingsStayIn ==
  ASSUME NEW g, NEW x, NEW from, NEW b, NEW N \in Nat, IsRings(b, g, x, from, N),
         NEW S, from \in S, Sealed(g, x, S), NEW k \in 0 .. N
  PROVE  b[k] \subseteq S
<1> DEFINE good == {n \in 0 .. N : b[n] \subseteq S}
<1>1. 0 \in good
  BY DEF IsRings
<1>2. ASSUME NEW n \in 1 .. N, n - 1 \in good PROVE n \in good
  <2>1. b[n] = Widened(g, x, b[n - 1]) /\ b[n - 1] \subseteq S
    BY <1>2 DEF IsRings
  <2>2. b[n] \subseteq S
    BY <2>1 DEF Widened, Sealed
  <2> QED
    BY <2>2
<1> HIDE DEF good
<1>3. k \in good
  BY <1>1, <1>2, UpTo
<1> QED
  BY <1>3 DEF good

-----------------------------------------------------------------------------
(* What a finished search knows. *)

\* astar stops where its loop stops: its turns always suffice.
LEMMA AstarEnds ==
  ASSUME NEW g, NEW x, NEW from, NEW to, NEW b, NEW N, Call(g, x, from, to, b, N)
  PROVE  \E s : /\ SearchFits(g, x, from, to, b, s)
                /\ \/ s.open = {} /\ astar(g, x, from, to) = NoRoute
                   \/ AtGoal(g, to, s) /\ astar(g, x, from, to) = Backtrack(s, from, to)
<1>1. PICK k \in Nat : k = Turns(g)
  BY GridsAreFinite DEF Call
<1>2. PICK r : /\ IsRun(r, k, g, x, from, to)
               /\ astar(g, x, from, to) =
                    IF AtGoal(g, to, r[k]) THEN Backtrack(r[k], from, to) ELSE NoRoute
  BY <1>1, AstarUnfolds
<1> DEFINE Over(s) == s.open = {} \/ AtGoal(g, to, s)
<1>3. Over(r[k])
  <2> SUFFICES ASSUME ~ Over(r[k]) PROVE FALSE
    OBVIOUS
  <2>1. \A n \in 0 .. k : ~ Over(r[n])
    BY <1>2, RunStays
  <2> DEFINE good == {n \in 0 .. k : Counted(n, r[n])}
  <2>2. 0 \in good
    <3>1. r[0] = NewSearch(from, to)
      BY <1>2, RunUnfolds
    <3>2. Counted(0, NewSearch(from, to))
      BY StartCounts DEF Counted
    <3> QED
      BY <3>1, <3>2
  <2>3. ASSUME NEW n \in 0 .. k, n \in good
        PROVE  n + 1 \in 0 .. k /\ Counted(n + 1, r[n + 1])
    <3>1. Counted(n, r[n]) /\ r[n].open # {} /\ ~ AtGoal(g, to, r[n])
      BY <2>1, <2>3
    <3>2. /\ n + 1 \in 0 .. k /\ r[n + 1] = Turn(g, x, to, r[n])
          /\ Counted(n + 1, Turn(g, x, to, r[n]))
      BY <1>1, <1>2, <3>1, TurnCounts
    <3> QED
      BY <3>2
  <2>4. ASSUME NEW n \in 1 .. k, n - 1 \in good PROVE n \in good
    <3>1. n - 1 \in 0 .. k /\ n - 1 + 1 = n
      OBVIOUS
    <3> QED
      BY <2>3, <2>4, <3>1
  <2> HIDE DEF good
  <2>5. k \in good
    BY <2>2, <2>4, UpTo
  <2>6. k + 1 \in 0 .. k
    BY <2>3, <2>5
  <2> QED
    BY <2>6
<1>4. SearchFits(g, x, from, to, b, r[k])
  BY <1>2, RunFits
<1>5. r[k].open = {} => ~ AtGoal(g, to, r[k])
  BY DEF AtGoal
<1> QED
  BY <1>2, <1>3, <1>4, <1>5

\* With nothing left on the heap, what is closed is sealed and leaves out the goal.
LEMMA NothingLeft ==
  ASSUME NEW g, NEW x, NEW from, NEW to, NEW b, NEW N, Call(g, x, from, to, b, N),
         NEW s, SearchFits(g, x, from, to, b, s), s.open = {}
  PROVE  from \in s.closed /\ to \notin s.closed /\ Sealed(g, x, s.closed)
<1>1. \A l \in s.labels : l.cell \in s.closed
  BY DEF SearchFits, HeapFits
<1>2. from \in s.closed
  <2>1. Label(from, 0, from) \in s.labels /\ Label(from, 0, from).cell = from
    BY DEF SearchFits, LabelsFit, Label
  <2> QED
    BY <1>1, <2>1
<1>3. ASSUME NEW c \in s.closed, NEW n \in Neighbors(c) \cap Free(g, x) PROVE n \in s.closed
  <2>1. PICK l \in s.labels : l.cell = c
    BY DEF SearchFits, ClosedFits
  <2>2. \E k \in s.labels : k.cell = n
    BY <2>1 DEF SearchFits, ClosedFits
  <2> QED
    BY <1>1, <2>2
<1> QED
  BY <1>2, <1>3 DEF SearchFits, ClosedFits, Sealed

\* With the goal on top of the heap, the answer is a route; its length is the
\* number of the first ring with the goal, and smaller than the floor.
LEMMA GoalFound ==
  ASSUME NEW g, NEW x, NEW from, NEW to, NEW b, NEW N, Call(g, x, from, to, b, N),
         NEW s, SearchFits(g, x, from, to, b, s), AtGoal(g, to, s)
  PROVE  LET r == Backtrack(s, from, to)
         IN  /\ IsRoute(g, x, from, to, r)
             /\ Len(r) \in Nat /\ Len(r) <= N /\ Len(r) <= Cardinality(Floor(g))
             /\ to \in b[Len(r)]
             /\ \A n \in 0 .. Len(r) - 1 : to \notin b[n]
<1> DEFINE r == Backtrack(s, from, to)
<1>1. s.open # {} /\ Top(g, s).cell = to /\ to \notin s.closed
  BY DEF AtGoal
<1>2. PICK l \in s.labels : l.cell = to
  BY <1>1, TopFits
<1>3. IsRoute(g, x, from, to, r) /\ Len(r) = l.cost
  BY <1>2, BacktrackIsRoute
<1> HIDE DEF r
<1>4. \A n \in 0 .. l.cost - 1 : to \notin b[n]
  BY <1>1, <1>2, PoppedIsFinal
<1>5. to \in b[l.cost]
  BY <1>2 DEF SearchFits, RingsFit
<1>6. l.cost \in Nat /\ l.cost <= N
  BY CostsBounded
<1>7. l.cost <= Cardinality(Floor(g))
  <2>1. s.closed \in SUBSET Floor(g) /\ g \in TileMap
    BY DEF SearchFits, ClosedFits, Call
  <2>2. IsFiniteSet(Floor(g)) /\ Cardinality(Floor(g)) \in Nat
    BY <2>1, GridsAreFinite
  <2>3. Cardinality(s.closed) <= Cardinality(Floor(g))
    BY <2>1, <2>2, FS_Subset
  <2>4. l.cost <= Cardinality(s.closed) /\ Cardinality(s.closed) \in Nat
    BY CostsBounded DEF SearchFits, CostsFit
  <2> QED
    BY <1>6, <2>2, <2>3, <2>4
<1> QED
  BY <1>3, <1>4, <1>5, <1>6, <1>7 DEF r

\* Every call past the guards has rings to be measured by.
LEMMA EveryCallHasRings ==
  ASSUME NEW g \in TileMap, NEW x, NEW from \in Cell, NEW to \in Cell, ~ Trivial(g, x, from, to)
  PROVE  \E b : Call(g, x, from, to, b, Cardinality(Cells(g)))
<1>1. IsFiniteSet(Cells(g)) /\ Cardinality(Cells(g)) \in Nat
  BY GridsAreFinite
<1>2. PICK b : IsRings(b, g, x, from, Cardinality(Cells(g)))
  BY <1>1, RingsExist, RingsUnfold
<1> QED
  BY <1>1, <1>2 DEF Call

\* Whoever knows a way does not beat the path finder: on any grid, around any
\* crowd, if there is a route at all then A* answers with one, and no route is
\* shorter (pathfind.rs: the first pop of the goal ends the search).
THEOREM NoRouteIsShorter ==
  ASSUME NEW g \in TileMap, NEW x, NEW from \in Cell, NEW to \in Cell,
         NEW r, IsRoute(g, x, from, to, r)
  PROVE  LET a == astar(g, x, from, to)
         IN  IsRoute(g, x, from, to, a) /\ Len(a) <= Len(r)
<1> DEFINE a == astar(g, x, from, to)
<1>1. CASE from = to
  <2>1. a = <<>> /\ r = <<>>
    BY <1>1 DEF astar, Trivial, TrivialAnswer, IsRoute
  <2> QED
    BY <2>1
<1>2. CASE from # to
  <2>1. ~ Trivial(g, x, from, to)
    <3>1. r # <<>> /\ Len(r) \in 1 .. Len(r) /\ r[Len(r)] = to /\ ~ Blocked(g, from)
      BY <1>2 DEF IsRoute
    <3>2. ~ Blocked(g, r[Len(r)]) /\ r[Len(r)] \notin x
      BY <3>1 DEF IsRoute
    <3> QED
      BY <1>2, <3>1, <3>2 DEF Trivial
  <2>2. PICK N : N = Cardinality(Cells(g))
    OBVIOUS
  <2>3. PICK b : Call(g, x, from, to, b, N)
    BY <2>1, <2>2, EveryCallHasRings
  <2>4. PICK s : /\ SearchFits(g, x, from, to, b, s)
                 /\ \/ s.open = {}
                    \/ AtGoal(g, to, s) /\ a = Backtrack(s, from, to)
    BY <2>3, AstarEnds
  <2>5. PICK k \in Nat : k = Len(r) /\ \E w : IsWalk(w, k, g, x, from, to)
    BY RouteIsWalk
  <2>6. PICK w : IsWalk(w, k, g, x, from, to)
    BY <2>5
  <2> HIDE DEF a
  <2>7. s.open # {}
    <3> SUFFICES ASSUME s.open = {} PROVE FALSE
      OBVIOUS
    <3>1. from \in s.closed /\ to \notin s.closed /\ Sealed(g, x, s.closed)
      BY <2>3, <2>4, NothingLeft
    <3> QED
      BY <2>6, <3>1, WalkStaysIn
  <2>8. PICK n \in Nat : /\ IsRoute(g, x, from, to, a)
                         /\ n = Len(a) /\ n <= N
                         /\ \A i \in 0 .. n - 1 : to \notin b[i]
    BY <2>3, <2>4, <2>7, GoalFound
  <2>9. n <= k
    <3> SUFFICES ASSUME k < n PROVE FALSE
      OBVIOUS
    <3>1. N \in Nat /\ IsRings(b, g, x, from, N)
      BY <2>3 DEF Call
    <3>2. k <= N /\ k \in 0 .. n - 1
      BY <2>8, <3>1
    <3>3. to \in b[k]
      BY <2>6, <3>1, <3>2, WalkInRings
    <3> QED
      BY <2>8, <3>2, <3>3
  <2> QED
    BY <2>5, <2>8, <2>9 DEF a
<1> QED
  BY <1>1, <1>2

\* No answer is a verdict: an agent that enters without a way home
\* (world.rs, `stuck_unreachable') has none.
THEOREM NoAnswerMeansNoWay ==
  ASSUME NoRoute \notin Seq(Cell),
         NEW g \in TileMap, NEW x, NEW from \in Cell, NEW to \in Cell,
         astar(g, x, from, to) = NoRoute
  PROVE  \A r : ~ IsRoute(g, x, from, to, r)
<1> SUFFICES ASSUME NEW r, IsRoute(g, x, from, to, r) PROVE FALSE
  OBVIOUS
<1>1. IsRoute(g, x, from, to, NoRoute)
  BY NoRouteIsShorter
<1> QED
  BY <1>1 DEF IsRoute

-----------------------------------------------------------------------------
(* The flood fill. *)

\* The recursion of Reached.
IsFill(f, m, from, k) ==
  f = [n \in 0 .. k |->
         IF n = 0 THEN {from}
         ELSE f[n - 1] \cup (Floor(m) \cap UNION {Neighbors(c) : c \in f[n - 1]})]

Spread(m, S) == S \cup (Floor(m) \cap UNION {Neighbors(c) : c \in S})

LEMMA SpreadWidens ==
  ASSUME NEW m, NEW S
  PROVE  Spread(m, S) = Widened(m, {}, S)
BY DEF Spread, Widened, Free

\* The flood runs through the rings around its start.
LEMMA FillIsBall ==
  ASSUME NEW m, NEW from, NEW k \in Nat, NEW f
  PROVE  IsFill(f, m, from, k) <=> IsBall(f, m, {}, from, k)
<1> DEFINE e == [n \in 0 .. k |-> IF n = 0 THEN {from} ELSE Spread(m, f[n - 1])]
           b == [n \in 0 .. k |-> IF n = 0 THEN {from} ELSE Widened(m, {}, f[n - 1])]
<1>1. IsFill(f, m, from, k) <=> f = e
  BY DEF IsFill, Spread
<1>2. IsBall(f, m, {}, from, k) <=> f = b
  BY DEF IsBall
<1>3. \A n \in 0 .. k : e[n] = b[n]
  BY SpreadWidens
<1>4. e = [n \in 0 .. k |-> e[n]] /\ b = [n \in 0 .. k |-> b[n]]
  OBVIOUS
<1> HIDE DEF e, b
<1>5. e = b
  BY <1>3, <1>4
<1> QED
  BY <1>1, <1>2, <1>5

LEMMA FloodIsRings ==
  ASSUME NEW m \in TileMap, NEW from
  PROVE  \E f : /\ IsRings(f, m, {}, from, Cardinality(Floor(m)))
                /\ Reached(m, from) = f[Cardinality(Floor(m))]
<1>1. PICK k \in Nat : k = Cardinality(Floor(m))
  BY GridsAreFinite
<1> DEFINE f == CHOOSE h : IsFill(h, m, from, Cardinality(Floor(m)))
<1>2. Reached(m, from) = f[Cardinality(Floor(m))]
  BY DEF Reached, IsFill
<1>3. \E h : IsFill(h, m, from, k)
  BY RingsExist, FillIsBall
<1>4. IsFill(f, m, from, k)
  BY <1>1, <1>3
<1> HIDE DEF f
<1>5. IsRings(f, m, {}, from, k)
  BY <1>4, FillIsBall, RingsUnfold
<1> QED
  BY <1>1, <1>2, <1>5

\* There is one family of rings.
LEMMA RingsAgree ==
  ASSUME NEW g, NEW x, NEW from, NEW k \in Nat, NEW N \in Nat, k <= N,
         NEW f, IsRings(f, g, x, from, k), NEW b, IsRings(b, g, x, from, N)
  PROVE  f[k] = b[k]
<1> DEFINE good == {n \in 0 .. k : f[n] = b[n]}
<1>1. 0 \in good
  BY DEF IsRings
<1>2. ASSUME NEW n \in 1 .. k, n - 1 \in good PROVE n \in good
  <2>1. f[n - 1] = b[n - 1] /\ n \in 1 .. N
    BY <1>2
  <2>2. f[n] = Widened(g, x, f[n - 1]) /\ b[n] = Widened(g, x, b[n - 1])
    BY <2>1 DEF IsRings
  <2>3. f[n] = b[n]
    BY <2>1, <2>2
  <2> QED
    BY <2>3
<1> HIDE DEF good
<1>3. k \in good
  BY <1>1, <1>2, UpTo
<1> QED
  BY <1>3 DEF good

\* Where the flood has been lies on the floor, and where it starts.
LEMMA ReachedType ==
  ASSUME NEW m \in TileMap, NEW from \in Floor(m)
  PROVE  from \in Reached(m, from) /\ Reached(m, from) \subseteq Floor(m)
<1>1. PICK k \in Nat : k = Cardinality(Floor(m))
  BY GridsAreFinite
<1>2. PICK f : IsRings(f, m, {}, from, k) /\ Reached(m, from) = f[k]
  BY <1>1, FloodIsRings
<1>3. f[0] \subseteq f[k] /\ f[0] = {from}
  <2>1. 0 \in 0 .. k /\ k \in 0 .. k
    OBVIOUS
  <2> QED
    BY <1>2, <2>1, RingsGrow DEF IsRings
<1>4. f[k] \subseteq Free(m, {}) \cup {from}
  BY <1>2 DEF IsRings
<1> QED
  BY <1>2, <1>3, <1>4 DEF Free

\* A search from the start of the flood ends with an answer for what the flood
\* has reached, and otherwise with a sealed set.
LEMMA SearchTellsFlood ==
  ASSUME NEW m \in TileMap, NEW from \in Floor(m), NEW to \in Floor(m), from # to
  PROVE  \/ to \in Reached(m, from) /\ IsRoute(m, {}, from, to, astar(m, {}, from, to))
         \/ \E S : Sealed(m, {}, S) /\ Reached(m, from) \subseteq S /\ from \in S /\ to \notin S
<1>1. PICK k \in Nat : k = Cardinality(Floor(m))
  BY GridsAreFinite
<1>2. PICK N \in Nat : N = Cardinality(Cells(m))
  BY GridsAreFinite
<1>3. k <= N
  <2>1. Floor(m) \in SUBSET Cells(m) /\ IsFiniteSet(Cells(m))
    BY GridsAreFinite DEF Floor
  <2> QED
    BY <1>1, <1>2, <2>1, FS_Subset
<1>4. from \in Cell /\ to \in Cell
  BY DEF Floor, Cells, Cell, TileMap
<1>5. ~ Trivial(m, {}, from, to)
  BY DEF Trivial, Floor
<1>6. PICK b : Call(m, {}, from, to, b, N)
  BY <1>2, <1>4, <1>5, EveryCallHasRings
<1>7. IsRings(b, m, {}, from, N)
  BY <1>6 DEF Call
<1>8. PICK f : IsRings(f, m, {}, from, k) /\ Reached(m, from) = f[k]
  BY <1>1, FloodIsRings
<1>9. Reached(m, from) = b[k]
  BY <1>3, <1>7, <1>8, RingsAgree
<1>10. PICK s : /\ SearchFits(m, {}, from, to, b, s)
                /\ \/ s.open = {}
                   \/ /\ AtGoal(m, to, s)
                      /\ astar(m, {}, from, to) = Backtrack(s, from, to)
  BY <1>6, AstarEnds
<1>11. CASE s.open = {}
  <2>1. from \in s.closed /\ to \notin s.closed /\ Sealed(m, {}, s.closed)
    BY <1>6, <1>10, <1>11, NothingLeft
  <2>2. k \in 0 .. N
    BY <1>3
  <2>3. b[k] \subseteq s.closed
    BY <1>7, <2>1, <2>2, RingsStayIn
  <2> QED
    BY <1>9, <2>1, <2>3
<1>12. CASE AtGoal(m, to, s) /\ astar(m, {}, from, to) = Backtrack(s, from, to)
  <2>1. PICK n \in Nat : /\ IsRoute(m, {}, from, to, astar(m, {}, from, to))
                         /\ n <= k /\ to \in b[n]
    BY <1>1, <1>6, <1>10, <1>12, GoalFound
  <2>2. n \in 0 .. N /\ k \in n .. N
    BY <1>3, <2>1
  <2>3. b[n] \subseteq b[k]
    BY <1>7, <2>2, RingsGrow
  <2> QED
    BY <1>9, <2>1, <2>3
<1> QED
  BY <1>10, <1>11, <1>12

\* The flood finds exactly the cells one can walk to (tilemap.rs, is_flood_connected):
\* as many rings as there are floor cells are enough on every map.
THEOREM FloodFindsRoutes ==
  ASSUME NEW m \in TileMap, NEW from \in Floor(m), NEW to \in Floor(m)
  PROVE  to \in Reached(m, from) <=> \E r : IsRoute(m, {}, from, to, r)
<1>1. CASE from = to
  <2>1. IsRoute(m, {}, from, to, <<>>)
    BY <1>1 DEF IsRoute
  <2> QED
    BY <1>1, <2>1, ReachedType
<1>2. CASE from # to
  <2>1. CASE to \in Reached(m, from) /\ IsRoute(m, {}, from, to, astar(m, {}, from, to))
    BY <2>1
  <2>2. CASE \E S : Sealed(m, {}, S) /\ Reached(m, from) \subseteq S /\ from \in S /\ to \notin S
    <3>1. PICK S : Sealed(m, {}, S) /\ Reached(m, from) \subseteq S /\ from \in S /\ to \notin S
      BY <2>2
    <3>2. ASSUME NEW r, IsRoute(m, {}, from, to, r) PROVE FALSE
      <4>1. PICK k \in Nat : \E w : IsWalk(w, k, m, {}, from, to)
        BY <3>2, RouteIsWalk
      <4> QED
        BY <3>1, <4>1, WalkStaysIn
    <3> QED
      BY <3>1, <3>2
  <2> QED
    BY <1>2, <2>1, <2>2, SearchTellsFlood
<1> QED
  BY <1>1, <1>2

\* What the flood has reached is sealed, and the least such set.
LEMMA ReachedIsSealed ==
  ASSUME NEW m \in TileMap, NEW from \in Floor(m)
  PROVE  Sealed(m, {}, Reached(m, from))
<1> SUFFICES ASSUME NEW c \in Reached(m, from), NEW n \in Neighbors(c), n \in Free(m, {})
             PROVE  n \in Reached(m, from)
  BY DEF Sealed
<1>1. n \in Floor(m)
  BY DEF Free
<1>2. CASE n = from
  BY <1>2, ReachedType
<1>3. CASE n # from
  <2>1. CASE \E S : Sealed(m, {}, S) /\ Reached(m, from) \subseteq S /\ from \in S /\ n \notin S
    BY <2>1 DEF Sealed
  <2> QED
    BY <1>1, <1>3, <2>1, SearchTellsFlood
<1> QED
  BY <1>2, <1>3

LEMMA ReachedIsLeast ==
  ASSUME NEW m \in TileMap, NEW from, NEW S, from \in S, Sealed(m, {}, S)
  PROVE  Reached(m, from) \subseteq S
<1>1. PICK k \in Nat : k = Cardinality(Floor(m))
  BY GridsAreFinite
<1>2. PICK f : IsRings(f, m, {}, from, k) /\ Reached(m, from) = f[k]
  BY <1>1, FloodIsRings
<1> QED
  BY <1>2, RingsStayIn

LEMMA NeighborsAreMutual ==
  ASSUME NEW m \in TileMap, NEW c \in Floor(m), NEW d \in Neighbors(c)
  PROVE  c \in Neighbors(d)
<1>1. c \in Cell
  BY DEF Floor, Cells, Cell, TileMap
<1> QED
  BY <1>1 DEF Neighbors, Cell

\* If everything is reached from one cell, everything is from any.
LEMMA AnyStartWillDo ==
  ASSUME NEW m \in TileMap, NEW d \in Floor(m), Reached(m, d) = Floor(m), NEW from \in Floor(m)
  PROVE  Reached(m, from) = Floor(m)
<1> DEFINE T == {c \in Floor(m) : d \in Reached(m, c)}
<1>1. d \in T
  BY ReachedType
<1>2. Sealed(m, {}, T)
  <2> SUFFICES ASSUME NEW c \in T, NEW n \in Neighbors(c), n \in Free(m, {})
               PROVE  n \in T
    BY DEF Sealed
  <2>1. n \in Floor(m) /\ c \in Floor(m) /\ d \in Reached(m, c)
    BY DEF Free
  <2>2. c \in Neighbors(n) /\ c \in Free(m, {})
    BY <2>1, NeighborsAreMutual DEF Free
  <2>3. n \in Reached(m, n) /\ Sealed(m, {}, Reached(m, n))
    BY <2>1, ReachedType, ReachedIsSealed
  <2>4. c \in Reached(m, n)
    BY <2>2, <2>3 DEF Sealed
  <2>5. Reached(m, c) \subseteq Reached(m, n)
    BY <2>3, <2>4, ReachedIsLeast
  <2> QED
    BY <2>1, <2>5
<1>3. Reached(m, d) \subseteq T
  BY <1>1, <1>2, ReachedIsLeast
<1>4. d \in Reached(m, from)
  BY <1>3
<1>5. Reached(m, d) \subseteq Reached(m, from)
  BY <1>4, ReachedIsSealed, ReachedIsLeast
<1> QED
  BY <1>5, ReachedType

\* A room with doors has a first one.
LEMMA FirstDoor ==
  ASSUME NEW m \in TileMap, NEW D \in SUBSET Cells(m), D # {}
  PROVE  \E d : IsFirst(d, D)
<1> DEFINE rows == {d[2] : d \in D}
<1>1. \A d \in D : d[1] \in Nat /\ d[2] \in Nat
  BY DEF Cells, TileMap
<1>2. rows \in SUBSET Nat /\ rows # {}
  BY <1>1
<1>3. PICK y \in rows : \A i \in rows : y <= i
  BY <1>2, Least
<1> DEFINE row == {d \in D : d[2] = y}
           columns == {d[1] : d \in row}
<1>4. columns \in SUBSET Nat /\ columns # {}
  BY <1>1, <1>3
<1>5. PICK n \in columns : \A i \in columns : n <= i
  BY <1>4, Least
<1>6. PICK d \in row : d[1] = n
  BY <1>5
<1>7. ASSUME NEW e \in D PROVE RowMajor(d, e)
  <2>1. CASE e \in row
    BY <1>5, <1>6, <2>1 DEF RowMajor
  <2>2. CASE e \notin row
    <3>1. y <= e[2] /\ e[2] # y /\ d[2] = y /\ y \in Nat /\ e[2] \in Nat
      BY <1>1, <1>3, <1>6, <2>2
    <3> QED
      BY <3>1 DEF RowMajor
  <2> QED
    BY <2>1, <2>2
<1> QED
  BY <1>6, <1>7 DEF IsFirst

\* The check of PUT /world/map means what it is documented to mean
\* (tilemap.rs:157-160), and more: a map passes it exactly if it has a door and one
\* can walk from every floor cell to every other, although it floods from the first
\* door only.
THEOREM FloodConnectedIsConnected ==
  ASSUME NEW m \in TileMap
  PROVE  FloodConnected(m) <=>
           /\ DoorTiles(m) # {}
           /\ \A from, to \in Floor(m) : \E r : IsRoute(m, {}, from, to, r)
<1>1. DoorTiles(m) \subseteq Floor(m) /\ Floor(m) \subseteq Cells(m)
  BY DEF DoorTiles, Floor
<1>2. ASSUME FloodConnected(m), NEW from \in Floor(m), NEW to \in Floor(m)
      PROVE  \E r : IsRoute(m, {}, from, to, r)
  <2>1. PICK d \in Floor(m) : Reached(m, d) = Floor(m)
    BY <1>1, <1>2 DEF FloodConnected
  <2>2. Reached(m, from) = Floor(m)
    BY <2>1, AnyStartWillDo
  <2> QED
    BY <2>2, FloodFindsRoutes
<1>3. ASSUME DoorTiles(m) # {},
             \A from, to \in Floor(m) : \E r : IsRoute(m, {}, from, to, r)
      PROVE  FloodConnected(m)
  <2>1. PICK d : IsFirst(d, DoorTiles(m))
    BY <1>1, <1>3, FirstDoor
  <2>2. d \in DoorTiles(m) /\ d \in Floor(m)
    BY <1>1, <2>1 DEF IsFirst
  <2>3. \A to \in Floor(m) : to \in Reached(m, d)
    BY <1>3, <2>2, FloodFindsRoutes
  <2>4. Reached(m, d) = Floor(m)
    BY <2>2, <2>3, ReachedType
  <2> QED
    BY <2>1, <2>2, <2>4 DEF FloodConnected
<1>4. FloodConnected(m) => DoorTiles(m) # {}
  BY DEF FloodConnected
<1> QED
  BY <1>2, <1>3, <1>4

\* In a room the server accepts, the path finder finds a way from every floor cell
\* to every other before any furniture stands on them.
THEOREM AcceptedRoomIsWhole ==
  ASSUME NEW m \in TileMap, NEW minSize, NEW maxSize, ValidShape(m, minSize, maxSize),
         NEW from \in Floor(m), NEW to \in Floor(m)
  PROVE  IsRoute(m, {}, from, to, astar(m, {}, from, to))
<1>1. PICK r : IsRoute(m, {}, from, to, r)
  BY FloodConnectedIsConnected DEF ValidShape
<1>2. from \in Cell /\ to \in Cell
  BY DEF Floor, Cells, Cell, TileMap
<1> QED
  BY <1>1, <1>2, NoRouteIsShorter
=============================================================================
