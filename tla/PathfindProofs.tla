--------------------------- MODULE PathfindProofs ---------------------------
(***************************************************************************)
(* Theorems about the path finder, for every grid, every set of agents in  *)
(* the way, every start and every goal: what A* has closed is final, what  *)
(* it answers is a shortest route or rightly none, and what World assumes  *)
(* of its path finder holds of this one.                                   *)
(*                                                                         *)
(* Rings and routes are recursive functions.  No induction theorem with an *)
(* operator for its hypothesis is used: a claim about all n is proved from *)
(* its least counterexample (`Least'), and a recursive function is shown   *)
(* to exist as the iteration of a step on a set the step does not leave    *)
(* (`Iteration'), which gives an invariant of its values at the same time. *)
(***************************************************************************)
EXTENDS PathfindRun, TLAPS, FiniteSetTheorems, WellFoundedInduction

-----------------------------------------------------------------------------
(* Numbers and iterations. *)

\* Every nonempty set of numbers has a least one.
LEMMA Least ==
  ASSUME NEW S \in SUBSET Nat, S # {}
  PROVE  \E m \in S : \A i \in S : m <= i
<1>1. PICK m \in S : \A i \in S : ~ (<<i, m>> \in OpToRel(<, Nat))
  BY WFMin, NatLessThanWellFounded
<1>2. \A i \in S : ~ (i < m)
  BY <1>1 DEF OpToRel
<1> QED
  BY <1>2

\* `f' holds x and what F makes of it, k times over.
IsIteration(f, k, X, F, x) ==
  /\ f \in [0 .. k -> X]
  /\ f[0] = x
  /\ \A n \in 1 .. k : f[n] = F[f[n - 1]]

\* A step that does not leave X can be iterated any number of times.
LEMMA Iteration ==
  ASSUME NEW X, NEW F \in [X -> X], NEW x \in X, NEW k \in Nat
  PROVE  \E f : IsIteration(f, k, X, F, x)
<1> DEFINE Good(m) == \E f : IsIteration(f, m, X, F, x)
           bad == {m \in Nat : ~ Good(m)}
<1>1. Good(0)
  <2> DEFINE f == [i \in 0 .. 0 |-> x]
  <2>1. IsIteration(f, 0, X, F, x)
    BY DEF IsIteration
  <2> QED
    BY <2>1
<1>2. ASSUME NEW m \in Nat, Good(m) PROVE Good(m + 1)
  <2>1. PICK f : IsIteration(f, m, X, F, x)
    BY <1>2
  <2> DEFINE g == [i \in 0 .. m + 1 |-> IF i = m + 1 THEN F[f[m]] ELSE f[i]]
  <2>2. IsIteration(g, m + 1, X, F, x)
    BY <2>1 DEF IsIteration
  <2> QED
    BY <2>2
<1> HIDE DEF Good
<1>3. bad = {}
  <2> SUFFICES ASSUME bad # {} PROVE FALSE
    OBVIOUS
  <2>1. PICK m \in bad : \A i \in bad : m <= i
    BY Least
  <2>2. m # 0 /\ m \in Nat
    BY <1>1
  <2>3. m - 1 \in Nat /\ m - 1 < m
    BY <2>2
  <2>4. Good(m - 1)
    BY <2>1, <2>3
  <2>5. Good((m - 1) + 1)
    BY <1>2, <2>3, <2>4
  <2> QED
    BY <2>2, <2>5
<1> QED
  BY <1>3 DEF Good

-----------------------------------------------------------------------------
(* Distances. *)

\* Manhattan distance: at home zero, one more at most to a neighbour, and no
\* detour is shorter.
LEMMA Distances ==
  ASSUME NEW a \in Cell, NEW b \in Cell, NEW c \in Cell
  PROVE  /\ Manhattan(a, b) \in Nat
         /\ Manhattan(a, a) = 0
         /\ Manhattan(a, c) <= Manhattan(a, b) + Manhattan(b, c)
BY DEF Cell, Manhattan, Abs

LEMMA NeighborDistance ==
  ASSUME NEW a \in Cell, NEW b \in Cell, NEW n \in Neighbors(b)
  PROVE  n \in Cell /\ Manhattan(a, n) <= Manhattan(a, b) + 1
<1>1. n \in Cell
  BY DEF Cell, Neighbors
<1>2. n[1] \in Int /\ n[2] \in Int /\ a[1] \in Int /\ a[2] \in Int /\ b[1] \in Int /\ b[2] \in Int
  BY <1>1 DEF Cell
<1>3. \/ n[1] = b[1] /\ n[2] = b[2] - 1
      \/ n[1] = b[1] + 1 /\ n[2] = b[2]
      \/ n[1] = b[1] /\ n[2] = b[2] + 1
      \/ n[1] = b[1] - 1 /\ n[2] = b[2]
  BY DEF Neighbors
<1>4. Manhattan(a, n) <= Manhattan(a, b) + 1
  BY <1>2, <1>3 DEF Manhattan, Abs
<1> QED
  BY <1>1, <1>4

-----------------------------------------------------------------------------
(* The heap. *)

Entries == [f : Nat, h : Nat, cell : Cell]

\* The heap's order is total on entries within the grid, so there is a top, and
\* nothing on the heap has a smaller f.
LEMMA TopIsFirst ==
  ASSUME NEW g \in TileMap, NEW s, s.open \subseteq Entries, s.open # {},
         \A e \in s.open : e.cell \in Cells(g)
  PROVE  Top(g, s) \in s.open /\ \A d \in s.open : Top(g, s).f <= d.f
<1> DEFINE fs == {e.f : e \in s.open}
<1>1. PICK e1 \in s.open : \A e \in s.open : e1.f <= e.f
  <2>1. fs \in SUBSET Nat /\ fs # {}
    BY DEF Entries
  <2>2. PICK m \in fs : \A i \in fs : m <= i
    BY <2>1, Least
  <2> QED
    BY <2>2
<1> DEFINE E2 == {e \in s.open : e.f = e1.f}
           hs == {e.h : e \in E2}
<1>2. PICK e2 \in E2 : \A e \in E2 : e2.h <= e.h
  <2>1. hs \in SUBSET Nat /\ hs # {}
    BY DEF Entries
  <2>2. PICK m \in hs : \A i \in hs : m <= i
    BY <2>1, Least
  <2> QED
    BY <2>2
<1> DEFINE E3 == {e \in E2 : e.h = e2.h}
           is == {CellIndex(g, e.cell) : e \in E3}
<1>3. \A e \in s.open : CellIndex(g, e.cell) \in Nat
  <2> SUFFICES ASSUME NEW e \in s.open PROVE CellIndex(g, e.cell) \in Nat
    OBVIOUS
  <2>1. e.cell[1] \in Nat /\ e.cell[2] \in Nat /\ g.width \in Nat
    BY DEF Cells, TileMap
  <2>2. \A i \in Nat, w \in Nat : i * w \in Nat
    OBVIOUS
  <2>3. e.cell[2] * g.width \in Nat
    BY <2>1, <2>2
  <2> QED
    BY <2>1, <2>3 DEF CellIndex
<1>4. PICK e3 \in E3 : \A e \in E3 : CellIndex(g, e3.cell) <= CellIndex(g, e.cell)
  <2>1. is \in SUBSET Nat /\ is # {}
    BY <1>3
  <2>2. PICK m \in is : \A i \in is : m <= i
    BY <2>1, Least
  <2> QED
    BY <2>2
<1>5. \A d \in s.open : d.f \in Nat /\ d.h \in Nat
  BY DEF Entries
<1>6. \A d \in s.open : EntryBefore(g, e3, d)
  <2> SUFFICES ASSUME NEW d \in s.open PROVE EntryBefore(g, e3, d)
    OBVIOUS
  <2>1. CASE d \notin E2
    BY <2>1, <1>1, <1>5 DEF EntryBefore
  <2>2. CASE d \in E2 /\ d \notin E3
    BY <2>2, <1>2, <1>5 DEF EntryBefore
  <2>3. CASE d \in E3
    BY <2>3, <1>4 DEF EntryBefore
  <2> QED
    BY <2>1, <2>2, <2>3
<1>7. Top(g, s) \in s.open /\ \A d \in s.open : EntryBefore(g, Top(g, s), d)
  BY <1>6 DEF Top
<1> QED
  BY <1>5, <1>7 DEF EntryBefore

-----------------------------------------------------------------------------
(* The reference: rings around the start. *)

Free(g, x) == Floor(g) \ x

Widened(g, x, S) == S \cup (Free(g, x) \cap UNION {Neighbors(c) : c \in S})

\* `b' is the family of rings that Ball defines, up to the N-th.
IsRings(b, g, x, from, N) ==
  /\ b[0] = {from}
  /\ \A n \in 1 .. N : b[n] = Widened(g, x, b[n - 1])
  /\ \A n \in 0 .. N : b[n] \subseteq Free(g, x) \cup {from}

\* The recursion of Ball.
IsBall(b, g, x, from, N) ==
  b = [n \in 0 .. N |-> IF n = 0 THEN {from} ELSE Widened(g, x, b[n - 1])]

LEMMA RingsExist ==
  ASSUME NEW g, NEW x, NEW from, NEW N \in Nat
  PROVE  \E b : IsBall(b, g, x, from, N)
<1> DEFINE X == SUBSET (Free(g, x) \cup {from})
           F == [S \in X |-> Widened(g, x, S)]
<1>1. F \in [X -> X] /\ {from} \in X /\ \A S \in X : F[S] = Widened(g, x, S)
  BY DEF Widened
<1> HIDE DEF F, X
<1>2. PICK f : IsIteration(f, N, X, F, {from})
  BY <1>1, Iteration
<1>3. f \in [0 .. N -> X] /\ f[0] = {from}
  BY <1>2 DEF IsIteration
<1>4. \A n \in 1 .. N : f[n] = Widened(g, x, f[n - 1])
  BY <1>1, <1>2 DEF IsIteration
<1>5. IsBall(f, g, x, from, N)
  BY <1>3, <1>4 DEF IsBall
<1> QED
  BY <1>5

LEMMA RingsUnfold ==
  ASSUME NEW g, NEW x, NEW from, NEW N \in Nat, NEW b, IsBall(b, g, x, from, N)
  PROVE  IsRings(b, g, x, from, N)
<1> DEFINE e == [n \in 0 .. N |-> IF n = 0 THEN {from} ELSE Widened(g, x, b[n - 1])]
<1>a. b = e
  BY Zenon DEF IsBall
<1>b. e[0] = {from} /\ \A n \in 1 .. N : e[n] = Widened(g, x, b[n - 1])
  OBVIOUS
<1> HIDE DEF e
<1>1. b[0] = {from} /\ \A n \in 1 .. N : b[n] = Widened(g, x, b[n - 1])
  BY <1>a, <1>b
<1> DEFINE bad == {n \in 0 .. N : ~ (b[n] \subseteq Free(g, x) \cup {from})}
<1>2. bad = {}
  <2> SUFFICES ASSUME bad # {} PROVE FALSE
    OBVIOUS
  <2>0. bad \in SUBSET Nat
    OBVIOUS
  <2>1. PICK n \in bad : \A i \in bad : n <= i
    BY <2>0, Least
  <2>2. n \in 1 .. N /\ n - 1 \in 0 .. N /\ n - 1 \notin bad
    BY <1>1, <2>1
  <2> QED
    BY <1>1, <2>1, <2>2 DEF Widened
<1> QED
  BY <1>1, <1>2 DEF IsRings

\* Ball, which the properties of the runs are stated with, is one.
LEMMA BallIsRings ==
  ASSUME NEW from, NEW N \in Nat, N = Cardinality(Room)
  PROVE  IsRings(Ball(from), grid, extra, from, N)
<1>1. Ball(from) = CHOOSE b : IsBall(b, grid, extra, from, N)
  BY DEF Ball, OpenCells, Widened, Free, IsBall
<1>2. \E b : IsBall(b, grid, extra, from, N)
  BY RingsExist
<1>3. IsBall(Ball(from), grid, extra, from, N)
  BY <1>1, <1>2
<1> QED
  BY <1>3, RingsUnfold

\* Rings grow.
LEMMA RingsGrow ==
  ASSUME NEW b, NEW g, NEW x, NEW from, NEW N \in Nat, IsRings(b, g, x, from, N),
         NEW m \in 0 .. N, NEW n \in m .. N
  PROVE  b[m] \subseteq b[n]
<1> DEFINE bad == {k \in m .. N : ~ (b[m] \subseteq b[k])}
<1>1. bad = {}
  <2> SUFFICES ASSUME bad # {} PROVE FALSE
    OBVIOUS
  <2>0. bad \in SUBSET Nat
    <3>1. m \in Nat /\ \A k \in m .. N : k \in Nat
      OBVIOUS
    <3> QED
      BY <3>1
  <2>1. PICK k \in bad : \A i \in bad : k <= i
    BY <2>0, Least
  <2>2. k # m /\ k \in 1 .. N /\ k - 1 \in m .. N
    BY <2>1
  <2>3. b[m] \subseteq b[k - 1]
    BY <2>1, <2>2
  <2>4. b[k] = Widened(g, x, b[k - 1])
    BY <2>2 DEF IsRings
  <2> QED
    BY <2>1, <2>3, <2>4 DEF Widened
<1> QED
  BY <1>1

-----------------------------------------------------------------------------
(* What is true of a search between two turns of its loop. *)

Labels == [cell : Cell, cost : Nat, parent : Cell]

Searches == [open : SUBSET Entries, closed : SUBSET Cell, labels : SUBSET Labels]

\* A call that gets past the guards before the loop, with its reference.
Call(g, x, from, to, b, N) ==
  /\ g \in TileMap /\ from \in Cell /\ to \in Cell
  /\ ~ Trivial(g, x, from, to)
  /\ IsFiniteSet(Cells(g)) /\ N = Cardinality(Cells(g)) /\ N \in Nat
  /\ IsRings(b, g, x, from, N)

\* A cell has one label; that of the start is its own, and every other cell was
\* reached over free cells from a closed one that is one step nearer.
LabelsFit(g, x, from, s) ==
  /\ \A l, k \in s.labels : l.cell = k.cell => l = k
  /\ Label(from, 0, from) \in s.labels
  /\ \A l \in s.labels : l.cell # from =>
       /\ l.cell \in Free(g, x)
       /\ \E k \in s.labels : /\ k.cell = l.parent /\ k.cell \in s.closed
                              /\ l.cost = k.cost + 1 /\ l.cell \in Neighbors(k.cell)

\* An entry is no better than its cell's label, and the label of a cell that is
\* not closed is on the heap.
HeapFits(to, s) ==
  /\ \A e \in s.open : \E l \in s.labels :
       l.cell = e.cell /\ l.cost + Manhattan(l.cell, to) <= e.f
  /\ \A l \in s.labels : l.cell \notin s.closed => Entry(l.cost, l.cell, to) \in s.open

\* What is closed is labelled, and so are its free neighbours, a step further
\* at most; the goal ends the search.
ClosedFits(g, x, to, s) ==
  /\ s.closed \subseteq Floor(g) /\ to \notin s.closed
  /\ \A c \in s.closed : \E l \in s.labels : l.cell = c
  /\ \A k \in s.labels : k.cell \in s.closed =>
       \A n \in Neighbors(k.cell) \cap Free(g, x) :
         \E l \in s.labels : l.cell = n /\ l.cost <= k.cost + 1

\* A cost counts cells that are closed.
CostsFit(s) ==
  \A l \in s.labels : /\ l.cost <= Cardinality(s.closed)
                      /\ l.cell \in s.closed => l.cost < Cardinality(s.closed)

\* A cost is the number of a ring, and a closed cell lies in no smaller one.
RingsFit(b, s) ==
  \A l \in s.labels : /\ l.cell \in b[l.cost]
                      /\ l.cell \in s.closed => \A n \in 0 .. l.cost - 1 : l.cell \notin b[n]

SearchFits(g, x, from, to, b, s) ==
  /\ s \in Searches
  /\ LabelsFit(g, x, from, s) /\ HeapFits(to, s) /\ ClosedFits(g, x, to, s)
  /\ CostsFit(s) /\ RingsFit(b, s)

-----------------------------------------------------------------------------
(* Facts that follow. *)

LEMMA CellsFit ==
  ASSUME NEW g, NEW x, NEW from, NEW to, NEW b, NEW N, Call(g, x, from, to, b, N),
         NEW s, SearchFits(g, x, from, to, b, s)
  PROVE  /\ \A l \in s.labels : l \in Labels /\ l.cell \in Floor(g)
         /\ \A e \in s.open : e \in Entries /\ e.cell \in Cells(g)
         /\ s.open \subseteq Entries
<1>1. s.open \subseteq Entries /\ s.labels \subseteq Labels
  BY DEF SearchFits, Searches
<1>2. from \in Floor(g)
  BY DEF Call, Trivial, Blocked, Floor
<1>3. \A l \in s.labels : l.cell \in Floor(g)
  BY <1>2 DEF SearchFits, LabelsFit, Free
<1>4. \A e \in s.open : e.cell \in Cells(g)
  BY <1>3 DEF SearchFits, HeapFits, Floor
<1> QED
  BY <1>1, <1>3, <1>4

LEMMA CostsBounded ==
  ASSUME NEW g, NEW x, NEW from, NEW to, NEW b, NEW N, Call(g, x, from, to, b, N),
         NEW s, SearchFits(g, x, from, to, b, s)
  PROVE  /\ IsFiniteSet(s.closed) /\ Cardinality(s.closed) \in Nat
         /\ Cardinality(s.closed) <= N
         /\ \A l \in s.labels : l.cost \in Nat /\ l.cost <= N
<1>1. s.closed \in SUBSET Cells(g)
  BY DEF SearchFits, ClosedFits, Floor
<1>2. IsFiniteSet(Cells(g)) /\ N = Cardinality(Cells(g)) /\ N \in Nat
  BY DEF Call
<1>3. IsFiniteSet(s.closed) /\ Cardinality(s.closed) <= N
  BY <1>1, <1>2, FS_Subset
<1>4. Cardinality(s.closed) \in Nat
  BY <1>3, FS_CardinalityType
<1>5. \A l \in s.labels : l.cost \in Nat /\ l.cost <= Cardinality(s.closed)
  BY CellsFit DEF SearchFits, CostsFit, Labels
<1> QED
  BY <1>2, <1>3, <1>4, <1>5

LEMMA TopFits ==
  ASSUME NEW g, NEW x, NEW from, NEW to, NEW b, NEW N, Call(g, x, from, to, b, N),
         NEW s, SearchFits(g, x, from, to, b, s), s.open # {}
  PROVE  /\ Top(g, s) \in s.open /\ Top(g, s) \in Entries
         /\ \A d \in s.open : Top(g, s).f <= d.f
         /\ \E l \in s.labels : l.cell = Top(g, s).cell /\ l.cost + Manhattan(l.cell, to) <= Top(g, s).f
<1>1. g \in TileMap
  BY DEF Call
<1>2. Top(g, s) \in s.open /\ \A d \in s.open : Top(g, s).f <= d.f
  BY <1>1, CellsFit, TopIsFirst
<1> QED
  BY <1>2, CellsFit DEF SearchFits, HeapFits

\* Whatever lies in the m-th ring has been closed at a cost of at most m, or a
\* cell on the heap is on the way to it.
LEMMA Frontier ==
  ASSUME NEW g, NEW x, NEW from, NEW to, NEW b, NEW N, Call(g, x, from, to, b, N),
         NEW s, SearchFits(g, x, from, to, b, s), NEW m \in 0 .. N, NEW c \in b[m]
  PROVE  \/ \E l \in s.labels : l.cell = c /\ c \in s.closed /\ l.cost <= m
         \/ \E l \in s.labels : l.cell \notin s.closed /\ l.cost + Manhattan(l.cell, c) <= m
<1> DEFINE Near(k, d) ==
             \/ \E l \in s.labels : l.cell = d /\ d \in s.closed /\ l.cost <= k
             \/ \E l \in s.labels : l.cell \notin s.closed /\ l.cost + Manhattan(l.cell, d) <= k
           bad == {k \in 0 .. N : \E d \in b[k] : ~ Near(k, d)}
<1>0. N \in Nat /\ IsRings(b, g, x, from, N) /\ from \in Cell
  BY DEF Call
<1>1. \A l \in s.labels : l.cost \in Nat /\ l.cell \in Cell
  BY CellsFit DEF Labels
<1>2. Near(0, from)
  <2> DEFINE l == Label(from, 0, from)
  <2>1. l \in s.labels /\ l.cell = from /\ l.cost = 0
    BY DEF SearchFits, LabelsFit, Label
  <2>2. Manhattan(from, from) = 0
    BY <1>0, Distances
  <2> HIDE DEF l
  <2> QED
    BY <2>1, <2>2
<1>3. ASSUME NEW k \in 0 .. N, k > 0, NEW d \in b[k], \A e \in b[k - 1] : Near(k - 1, e)
      PROVE  Near(k, d)
  <2>0. k - 1 \in Nat /\ k \in Nat /\ k \in 1 .. N /\ k - 1 \in 0 .. N
    BY <1>0, <1>3
  <2>1. b[k] = Widened(g, x, b[k - 1])
    BY <1>0, <2>0 DEF IsRings
  <2>2. b[k - 1] \subseteq Cell
    <3>1. Floor(g) \subseteq Cell
      BY DEF Floor, Cells, Cell
    <3> QED
      BY <1>0, <2>0, <3>1 DEF IsRings, Free
  <2>3. CASE d \in b[k - 1]
    <3>1. Near(k - 1, d)
      BY <2>3, <1>3
    <3>2. \A l \in s.labels : Manhattan(l.cell, d) \in Nat
      BY <1>1, <2>2, <2>3, Distances
    <3> QED
      BY <3>1, <3>2, <1>1, <2>0
  <2>4. CASE d \notin b[k - 1]
    <3>1. PICK e \in b[k - 1] : d \in Neighbors(e) /\ d \in Free(g, x)
      BY <2>1, <2>4 DEF Widened
    <3>2. e \in Cell
      BY <2>2
    <3>3. d \in Cell /\ Manhattan(d, d) = 0
      BY <3>1, <3>2, NeighborDistance, Distances
    <3>4. \A l \in s.labels : /\ Manhattan(l.cell, e) \in Nat /\ Manhattan(l.cell, d) \in Nat
                              /\ Manhattan(l.cell, d) <= Manhattan(l.cell, e) + 1
      BY <1>1, <3>1, <3>2, <3>3, NeighborDistance, Distances
    <3>5. CASE \E l \in s.labels : l.cell = e /\ e \in s.closed /\ l.cost <= k - 1
      <4>1. PICK l \in s.labels : l.cell = e /\ e \in s.closed /\ l.cost <= k - 1
        BY <3>5
      <4>2. PICK n \in s.labels : n.cell = d /\ n.cost <= l.cost + 1
        BY <4>1, <3>1 DEF SearchFits, ClosedFits
      <4>3. n.cost <= k
        BY <4>1, <4>2, <1>1, <2>0
      <4>4. n.cost + Manhattan(n.cell, d) <= k
        BY <4>2, <4>3, <3>3, <1>1
      <4> QED
        BY <4>2, <4>3, <4>4
    <3>6. CASE \E l \in s.labels : l.cell \notin s.closed /\ l.cost + Manhattan(l.cell, e) <= k - 1
      <4>1. PICK l \in s.labels : l.cell \notin s.closed /\ l.cost + Manhattan(l.cell, e) <= k - 1
        BY <3>6
      <4>2. l.cost + Manhattan(l.cell, d) <= k
        BY <4>1, <3>4, <1>1, <2>0
      <4> QED
        BY <4>1, <4>2
    <3>7. Near(k - 1, e)
      BY <1>3
    <3> QED
      BY <3>5, <3>6, <3>7
  <2> QED
    BY <2>3, <2>4
<1>4. b[0] = {from}
  BY <1>0 DEF IsRings
<1> HIDE DEF Near
<1>5. bad = {}
  <2> SUFFICES ASSUME bad # {} PROVE FALSE
    OBVIOUS
  <2>0. bad \in SUBSET Nat
    OBVIOUS
  <2>1. PICK k \in bad : \A i \in bad : k <= i
    BY <2>0, Least
  <2>2. PICK d \in b[k] : ~ Near(k, d)
    BY <2>1
  <2>3. k \in 0 .. N /\ k # 0
    BY <2>2, <1>2, <1>4
  <2>4. k > 0 /\ k - 1 \in 0 .. N /\ k - 1 \notin bad
    BY <2>1, <2>3, <1>0
  <2>5. \A e \in b[k - 1] : Near(k - 1, e)
    BY <2>4
  <2> QED
    BY <1>3, <2>2, <2>3, <2>4, <2>5
<1>6. Near(m, c)
  BY <1>5
<1> QED
  BY <1>6 DEF Near

\* A cell about to be closed has been reached by a shortest way: a cell on the
\* way of a shorter one would stand before it on the heap.
LEMMA PoppedIsFinal ==
  ASSUME NEW g, NEW x, NEW from, NEW to, NEW b, NEW N, Call(g, x, from, to, b, N),
         NEW s, SearchFits(g, x, from, to, b, s), s.open # {},
         Top(g, s).cell \notin s.closed,
         NEW l \in s.labels, l.cell = Top(g, s).cell, NEW n \in 0 .. l.cost - 1
  PROVE  l.cell \notin b[n]
<1> SUFFICES ASSUME l.cell \in b[n] PROVE FALSE
  OBVIOUS
<1> DEFINE c == l.cell
           t == Top(g, s)
<1>0. N \in Nat /\ to \in Cell
  BY DEF Call
<1>1. l.cost \in Nat /\ l.cost <= N /\ n \in 0 .. N /\ n \in Nat /\ n < l.cost
  BY <1>0, CostsBounded
<1>2. PICK k \in s.labels : k.cell \notin s.closed /\ k.cost + Manhattan(k.cell, c) <= n
  BY <1>1, Frontier
<1>3. k.cell \in Cell /\ c \in Cell /\ k.cost \in Nat
  BY CellsFit DEF Labels
<1>4. Entry(k.cost, k.cell, to) \in s.open
  BY <1>2 DEF SearchFits, HeapFits
<1>5. t.f <= k.cost + Manhattan(k.cell, to)
  BY <1>4, TopFits DEF Entry
<1>6. l.cost + Manhattan(c, to) <= t.f
  <2>1. PICK j \in s.labels : j.cell = t.cell /\ j.cost + Manhattan(j.cell, to) <= t.f
    BY TopFits
  <2>2. j = l
    BY <2>1 DEF SearchFits, LabelsFit
  <2> QED
    BY <2>1, <2>2
<1>7. /\ Manhattan(k.cell, to) <= Manhattan(k.cell, c) + Manhattan(c, to)
      /\ Manhattan(k.cell, c) \in Nat /\ Manhattan(c, to) \in Nat /\ Manhattan(k.cell, to) \in Nat
  BY <1>0, <1>3, Distances
<1>8. t.f \in Nat
  BY TopFits DEF Entries
<1> HIDE DEF c, t
<1> QED
  BY <1>1, <1>2, <1>3, <1>5, <1>6, <1>7, <1>8

-----------------------------------------------------------------------------
(* Every turn of the loop keeps it. *)

LEMMA StartFits ==
  ASSUME NEW g, NEW x, NEW from, NEW to, NEW b, NEW N, Call(g, x, from, to, b, N)
  PROVE  SearchFits(g, x, from, to, b, NewSearch(from, to))
<1> DEFINE s == NewSearch(from, to)
           l == Label(from, 0, from)
<1>0. from \in Cell /\ to \in Cell /\ from # to /\ from \in Floor(g) /\ b[0] = {from}
  BY DEF Call, Trivial, Blocked, Floor, IsRings
<1>1. s.open = {Entry(0, from, to)} /\ s.closed = {} /\ s.labels = {l}
  BY DEF NewSearch
<1>2. l.cell = from /\ l.cost = 0 /\ l.parent = from
  BY DEF Label
<1>3. Manhattan(from, to) \in Nat
  BY <1>0, Distances
<1>4. s \in Searches
  BY <1>0, <1>3 DEF NewSearch, Searches, Entries, Labels, Entry, Label
<1>5. Cardinality({}) = 0
  BY FS_EmptySet
<1>6. Entry(0, from, to).cell = from /\ Entry(0, from, to).f = 0 + Manhattan(from, to)
  BY DEF Entry
<1> HIDE DEF s
<1>7. LabelsFit(g, x, from, s)
  BY <1>1, <1>2 DEF LabelsFit
<1>8. HeapFits(to, s)
  BY <1>1, <1>2, <1>3, <1>6 DEF HeapFits
<1>9. ClosedFits(g, x, to, s)
  BY <1>1 DEF ClosedFits
<1>10. CostsFit(s) /\ RingsFit(b, s)
  BY <1>0, <1>1, <1>2, <1>5 DEF CostsFit, RingsFit
<1>11. SearchFits(g, x, from, to, b, s)
  BY <1>4, <1>7, <1>8, <1>9, <1>10 DEF SearchFits
<1> QED
  BY <1>11 DEF s

LEMMA DropFits ==
  ASSUME NEW g, NEW x, NEW from, NEW to, NEW b, NEW N, Call(g, x, from, to, b, N),
         NEW s, SearchFits(g, x, from, to, b, s), s.open # {},
         Top(g, s).cell \in s.closed
  PROVE  SearchFits(g, x, from, to, b, DropStale(g, s))
<1> DEFINE t == Top(g, s)
           d == DropStale(g, s)
<1>0. s \in Searches
  BY DEF SearchFits
<1>1. d.open = s.open \ {t} /\ d.closed = s.closed /\ d.labels = s.labels /\ d \in Searches
  BY <1>0 DEF DropStale, Searches
<1> HIDE DEF d
<1>2. HeapFits(to, d)
  <2>1. \A l \in s.labels : l.cell \notin s.closed => Entry(l.cost, l.cell, to) # t
    BY DEF Entry
  <2> QED
    BY <1>1, <2>1 DEF SearchFits, HeapFits
<1>3. LabelsFit(g, x, from, d)
  BY <1>1 DEF SearchFits, LabelsFit
<1>4. ClosedFits(g, x, to, d)
  BY <1>1 DEF SearchFits, ClosedFits
<1>5. CostsFit(d) /\ RingsFit(b, d)
  BY <1>1 DEF SearchFits, CostsFit, RingsFit
<1>6. SearchFits(g, x, from, to, b, d)
  BY <1>1, <1>2, <1>3, <1>4, <1>5 DEF SearchFits
<1> QED
  BY <1>6 DEF d

LEMMA ExpandFits ==
  ASSUME NEW g, NEW x, NEW from, NEW to, NEW b, NEW N, Call(g, x, from, to, b, N),
         NEW s, SearchFits(g, x, from, to, b, s), s.open # {},
         Top(g, s).cell \notin s.closed, Top(g, s).cell # to
  PROVE  SearchFits(g, x, from, to, b, Expand(g, x, to, s))
<1> DEFINE t == Top(g, s)
           c == t.cell
           lc == LabelOf(s, c)
           cost == lc.cost + 1
           better == Improved(g, x, s, c, cost)
           e == Expand(g, x, to, s)
<1>0. /\ g \in TileMap /\ from \in Cell /\ to \in Cell /\ N \in Nat
      /\ IsRings(b, g, x, from, N)
      /\ s \in Searches /\ LabelsFit(g, x, from, s) /\ HeapFits(to, s)
      /\ ClosedFits(g, x, to, s) /\ CostsFit(s) /\ RingsFit(b, s)
  BY DEF Call, SearchFits
<1>1. lc \in s.labels /\ lc.cell = c /\ \A l \in s.labels : l.cell = c => l = lc
  <2>1. \E l \in s.labels : l.cell = c
    BY TopFits
  <2>2. lc \in s.labels /\ lc.cell = c
    BY <2>1 DEF LabelOf
  <2> QED
    BY <2>2, <1>0 DEF LabelsFit
<1>2. /\ \A l \in s.labels : l \in Labels /\ l.cost \in Nat /\ l.cost <= N /\ l.cell \in Cell
      /\ lc.cost \in Nat /\ cost \in Nat /\ c \in Cell /\ c \in Floor(g)
      /\ IsFiniteSet(s.closed) /\ Cardinality(s.closed) \in Nat
  BY <1>1, CostsBounded, CellsFit DEF Labels
<1>3. /\ e.open = (s.open \ {t}) \cup {Entry(cost, n, to) : n \in better}
      /\ e.closed = s.closed \cup {c}
      /\ e.labels = {l \in s.labels : l.cell \notin better} \cup {Label(n, cost, c) : n \in better}
      /\ e = [open |-> e.open, closed |-> e.closed, labels |-> e.labels]
  BY DEF Expand
<1>4. \A n : n \in better <=> /\ n \in Neighbors(c) /\ n \in Free(g, x) /\ n \notin s.closed
                              /\ \A l \in s.labels : l.cell = n => cost < l.cost
  <2>1. \A n : ~ Blocked(g, n) <=> n \in Floor(g)
    BY DEF Floor, Blocked
  <2> QED
    BY <2>1 DEF Improved, Free
<1>5. \A n \in better : n \in Cell /\ n # c /\ n # from
  <2>1. \A n \in better : n \in Cell
    BY <1>2, <1>4, NeighborDistance
  <2>2. c \notin better
    BY <1>1, <1>2, <1>4
  <2>3. from \notin better
    <3>1. Label(from, 0, from) \in s.labels
      BY <1>0 DEF LabelsFit
    <3>2. Label(from, 0, from).cell = from /\ Label(from, 0, from).cost = 0
      BY DEF Label
    <3> QED
      BY <1>2, <1>4, <3>1, <3>2
  <2> QED
    BY <2>1, <2>2, <2>3
<1>6. \A n : /\ Label(n, cost, c).cell = n /\ Label(n, cost, c).cost = cost
             /\ Label(n, cost, c).parent = c
  BY DEF Label
<1>7. \A m, k : /\ Entry(m, k, to).cell = k /\ Entry(m, k, to).f = m + Manhattan(k, to)
                /\ Entry(m, k, to).h = Manhattan(k, to)
  BY DEF Entry
<1> HIDE DEF e, better, cost, lc, t
\* Labels of closed cells stay, and no label gets worse.
<1>8. \A l \in s.labels : l.cell \in e.closed => l \in e.labels /\ l.cell \notin better
  BY <1>1, <1>3, <1>4, <1>5
<1>9. \A l \in s.labels : \E k \in e.labels : k.cell = l.cell /\ k.cost <= l.cost
  <2> SUFFICES ASSUME NEW l \in s.labels
               PROVE  \E k \in e.labels : k.cell = l.cell /\ k.cost <= l.cost
    OBVIOUS
  <2>1. CASE l.cell \notin better
    BY <2>1, <1>2, <1>3
  <2>2. CASE l.cell \in better
    <3>1. Label(l.cell, cost, c) \in e.labels
      BY <1>3, <2>2
    <3>2. cost < l.cost
      BY <1>4, <2>2
    <3> QED
      BY <1>2, <1>6, <3>1, <3>2
  <2> QED
    BY <2>1, <2>2
<1>10. \A l \in e.labels : \/ l \in s.labels /\ l.cell \notin better
                           \/ \E n \in better : l = Label(n, cost, c) /\ l \notin s.labels
  <2>1. \A n \in better : Label(n, cost, c) \notin s.labels
    BY <1>2, <1>4, <1>6
  <2> QED
    BY <1>3, <2>1
<1>11. e \in Searches
  <2>1. e.open \subseteq Entries
    <3>1. s.open \subseteq Entries
      BY <1>0 DEF Searches
    <3>2. \A n \in better : Entry(cost, n, to) \in Entries
      <4> SUFFICES ASSUME NEW n \in better PROVE Entry(cost, n, to) \in Entries
        OBVIOUS
      <4>1. n \in Cell /\ Manhattan(n, to) \in Nat /\ cost + Manhattan(n, to) \in Nat
        BY <1>0, <1>2, <1>5, Distances
      <4> QED
        BY <4>1 DEF Entry, Entries
    <3> QED
      BY <1>3, <3>1, <3>2
  <2>2. e.closed \subseteq Cell
    BY <1>0, <1>2, <1>3 DEF Searches
  <2>3. e.labels \subseteq Labels
    <3>1. \A n \in better : Label(n, cost, c) \in Labels
      BY <1>2, <1>5 DEF Label, Labels
    <3> QED
      BY <1>2, <1>3, <3>1
  <2> QED
    BY <1>3, <2>1, <2>2, <2>3 DEF Searches
<1>12. LabelsFit(g, x, from, e)
  <2>1. ASSUME NEW l \in e.labels, NEW k \in e.labels, l.cell = k.cell PROVE l = k
    <3>1. \A i \in s.labels, j \in s.labels : i.cell = j.cell => i = j
      BY <1>0 DEF LabelsFit
    <3> QED
      BY <1>6, <1>10, <2>1, <3>1
  <2>2. Label(from, 0, from) \in e.labels
    <3>1. Label(from, 0, from).cell = from /\ Label(from, 0, from) \in s.labels
      BY <1>0 DEF LabelsFit, Label
    <3> QED
      BY <1>3, <1>5, <3>1
  <2>3. ASSUME NEW l \in e.labels, l.cell # from
        PROVE  /\ l.cell \in Free(g, x)
               /\ \E k \in e.labels : /\ k.cell = l.parent /\ k.cell \in e.closed
                                      /\ l.cost = k.cost + 1 /\ l.cell \in Neighbors(k.cell)
    <3>1. CASE l \in s.labels
      <4>1. l.cell \in Free(g, x)
        BY <1>0, <2>3, <3>1 DEF LabelsFit
      <4>2. PICK k \in s.labels : /\ k.cell = l.parent /\ k.cell \in s.closed
                                  /\ l.cost = k.cost + 1 /\ l.cell \in Neighbors(k.cell)
        BY <1>0, <2>3, <3>1 DEF LabelsFit
      <4>3. k.cell \in e.closed /\ k \in e.labels
        BY <1>3, <1>8, <4>2
      <4> QED
        BY <4>1, <4>2, <4>3
    <3>2. CASE \E n \in better : l = Label(n, cost, c)
      <4>1. PICK n \in better : l = Label(n, cost, c)
        BY <3>2
      <4>2. l.cell = n /\ l.parent = c /\ l.cost = cost
        BY <1>6, <4>1
      <4>3. lc \in e.labels /\ lc.cell = c /\ c \in e.closed
        BY <1>1, <1>3, <1>8
      <4>4. cost = lc.cost + 1
        BY DEF cost
      <4>5. n \in Free(g, x) /\ n \in Neighbors(c)
        BY <1>4
      <4> QED
        BY <4>2, <4>3, <4>4, <4>5
    <3> QED
      BY <1>10, <3>1, <3>2
  <2> QED
    BY <2>1, <2>2, <2>3 DEF LabelsFit
<1>13. HeapFits(to, e)
  <2>1. ASSUME NEW d \in e.open
        PROVE  \E l \in e.labels : l.cell = d.cell /\ l.cost + Manhattan(l.cell, to) <= d.f
    <3>1. CASE d \in s.open
      <4>1. PICK l \in s.labels : l.cell = d.cell /\ l.cost + Manhattan(l.cell, to) <= d.f
        BY <1>0, <3>1 DEF HeapFits
      <4>2. PICK k \in e.labels : k.cell = l.cell /\ k.cost <= l.cost
        BY <1>9
      <4>3. k.cost \in Nat /\ l.cost \in Nat /\ Manhattan(l.cell, to) \in Nat /\ d.f \in Nat
        <5>1. k \in Labels /\ d \in Entries
          BY <1>0, <1>11, <3>1 DEF Searches
        <5> QED
          BY <1>0, <1>2, <5>1, Distances DEF Labels, Entries
      <4> QED
        BY <4>1, <4>2, <4>3
    <3>2. CASE \E n \in better : d = Entry(cost, n, to)
      <4>1. PICK n \in better : d = Entry(cost, n, to)
        BY <3>2
      <4>2. Label(n, cost, c) \in e.labels /\ d.cell = n /\ d.f = cost + Manhattan(n, to)
        BY <1>3, <1>7, <4>1
      <4>3. Manhattan(n, to) \in Nat
        BY <1>0, <1>5, Distances
      <4> QED
        BY <1>2, <1>6, <4>2, <4>3
    <3> QED
      BY <1>3, <3>1, <3>2
  <2>2. ASSUME NEW l \in e.labels, l.cell \notin e.closed
        PROVE  Entry(l.cost, l.cell, to) \in e.open
    <3>1. CASE l \in s.labels
      <4>1. l.cell \notin s.closed /\ l.cell # c
        BY <1>3, <2>2
      <4>2. Entry(l.cost, l.cell, to) \in s.open
        BY <1>0, <3>1, <4>1 DEF HeapFits
      <4>3. Entry(l.cost, l.cell, to) # t
        BY <1>7, <4>1
      <4> QED
        BY <1>3, <4>2, <4>3
    <3>2. CASE \E n \in better : l = Label(n, cost, c)
      BY <1>3, <1>6, <3>2
    <3> QED
      BY <1>10, <3>1, <3>2
  <2> QED
    BY <2>1, <2>2 DEF HeapFits
<1>14. ClosedFits(g, x, to, e)
  <2>1. e.closed \subseteq Floor(g) /\ to \notin e.closed
    BY <1>0, <1>2, <1>3 DEF ClosedFits, t
  <2>2. \A d \in e.closed : \E l \in e.labels : l.cell = d
    <3>1. \A d \in e.closed : \E l \in s.labels : l.cell = d
      BY <1>0, <1>1, <1>3 DEF ClosedFits
    <3> QED
      BY <1>8, <3>1
  <2>3. ASSUME NEW k \in e.labels, k.cell \in e.closed, NEW n \in Neighbors(k.cell) \cap Free(g, x)
        PROVE  \E l \in e.labels : l.cell = n /\ l.cost <= k.cost + 1
    <3>1. k \in s.labels
      BY <1>3, <1>4, <1>5, <1>6, <1>10, <2>3
    <3>2. ASSUME NEW l \in s.labels, l.cell = n, l.cost <= k.cost + 1
          PROVE  \E i \in e.labels : i.cell = n /\ i.cost <= k.cost + 1
      <4>1. PICK i \in e.labels : i.cell = l.cell /\ i.cost <= l.cost
        BY <1>9
      <4>2. i.cost \in Nat /\ l.cost \in Nat /\ k.cost \in Nat
        BY <1>2, <1>11, <3>1 DEF Searches, Labels
      <4> QED
        BY <3>2, <4>1, <4>2
    <3>3. CASE k.cell \in s.closed
      <4>1. \E l \in s.labels : l.cell = n /\ l.cost <= k.cost + 1
        BY <1>0, <3>1, <3>3 DEF ClosedFits
      <4> QED
        BY <3>2, <4>1
    <3>4. CASE k.cell \notin s.closed
      <4>1. k.cell = c /\ k = lc /\ cost = k.cost + 1
        BY <1>1, <1>3, <2>3, <3>1, <3>4 DEF cost
      <4>2. CASE n \in better
        <5>1. Label(n, cost, c) \in e.labels
          BY <1>3, <4>2
        <5> QED
          BY <1>2, <1>6, <4>1, <5>1
      <4>3. CASE n \in s.closed
        <5>1. PICK l \in s.labels : l.cell = n
          BY <1>0, <4>3 DEF ClosedFits
        <5>2. l.cost <= cost
          <6> SUFFICES ASSUME cost < l.cost PROVE FALSE
            BY <1>2
          <6>1. cost \in 1 .. N /\ cost \in 0 .. l.cost - 1 /\ cost - 1 = lc.cost
            <7>1. l.cost \in Nat /\ l.cost <= N /\ N \in Nat /\ cost < l.cost
              BY <1>0, <1>2
            <7>2. cost \in Nat /\ cost = lc.cost + 1 /\ lc.cost \in Nat
              BY <1>2 DEF cost
            <7> QED
              BY <7>1, <7>2
          <6>2. c \in b[lc.cost]
            BY <1>0, <1>1 DEF RingsFit
          <6>3. b[cost] = Widened(g, x, b[lc.cost])
            BY <1>0, <6>1 DEF IsRings
          <6>4. n \in b[cost]
            BY <2>3, <4>1, <6>2, <6>3 DEF Widened
          <6>5. n \notin b[cost]
            BY <1>0, <4>3, <5>1, <6>1 DEF RingsFit
          <6> QED
            BY <6>4, <6>5
        <5> QED
          BY <3>2, <4>1, <5>1, <5>2
      <4>4. CASE n \notin better /\ n \notin s.closed
        <5>1. PICK l \in s.labels : l.cell = n /\ ~ (cost < l.cost)
          BY <1>4, <2>3, <4>1, <4>4
        <5>2. l.cost <= k.cost + 1
          BY <1>2, <4>1, <5>1
        <5> QED
          BY <3>2, <5>1, <5>2
      <4> QED
        BY <4>2, <4>3, <4>4
    <3> QED
      BY <3>3, <3>4
  <2> QED
    BY <2>1, <2>2, <2>3 DEF ClosedFits
<1>15. /\ Cardinality(e.closed) = Cardinality(s.closed) + 1
       /\ cost <= Cardinality(e.closed) /\ lc.cost < Cardinality(e.closed)
  <2>1. Cardinality(e.closed) = Cardinality(s.closed) + 1
    BY <1>2, <1>3, FS_AddElement, ZenonT(30) DEF t
  <2>2. lc.cost <= Cardinality(s.closed)
    BY <1>0, <1>1 DEF CostsFit
  <2> QED
    BY <1>2, <2>1, <2>2 DEF cost
<1>16. CostsFit(e)
  <2> SUFFICES ASSUME NEW l \in e.labels
               PROVE  /\ l.cost <= Cardinality(e.closed)
                      /\ l.cell \in e.closed => l.cost < Cardinality(e.closed)
    BY DEF CostsFit
  <2>1. CASE l \in s.labels
    <3>1. /\ l.cost <= Cardinality(s.closed)
          /\ l.cell \in s.closed => l.cost < Cardinality(s.closed)
          /\ l.cost \in Nat
      BY <1>0, <1>2, <2>1 DEF CostsFit
    <3>2. l.cell = c => l = lc
      BY <1>1, <2>1
    <3> QED
      BY <1>2, <1>3, <1>15, <3>1, <3>2
  <2>2. CASE \E n \in better : l = Label(n, cost, c)
    <3>1. l.cost = cost /\ l.cell \notin e.closed
      BY <1>3, <1>4, <1>5, <1>6, <2>2
    <3> QED
      BY <1>15, <3>1
  <2> QED
    BY <1>10, <2>1, <2>2
<1>17. RingsFit(b, e)
  <2> SUFFICES ASSUME NEW l \in e.labels
               PROVE  /\ l.cell \in b[l.cost]
                      /\ l.cell \in e.closed => \A n \in 0 .. l.cost - 1 : l.cell \notin b[n]
    BY DEF RingsFit
  <2>1. CASE l \in s.labels
    <3>1. /\ l.cell \in b[l.cost]
          /\ l.cell \in s.closed => \A n \in 0 .. l.cost - 1 : l.cell \notin b[n]
      BY <1>0, <2>1 DEF RingsFit
    <3>2. ASSUME l.cell = c PROVE \A n \in 0 .. l.cost - 1 : l.cell \notin b[n]
      BY <2>1, <3>2, PoppedIsFinal DEF t
    <3> QED
      BY <1>3, <3>1, <3>2
  <2>2. CASE \E n \in better : l = Label(n, cost, c)
    <3>1. PICK n \in better : l = Label(n, cost, c)
      BY <2>2
    <3>2. l.cost = cost /\ l.cell = n /\ l.cell \notin e.closed
      BY <1>3, <1>4, <1>5, <1>6, <3>1
    <3>3. cost \in 1 .. N /\ cost - 1 = lc.cost
      <4>1. e.closed \in SUBSET Cells(g)
        BY <1>14 DEF ClosedFits, Floor
      <4>2. IsFiniteSet(Cells(g)) /\ N = Cardinality(Cells(g))
        BY DEF Call
      <4>3. Cardinality(e.closed) <= N
        BY <4>1, <4>2, FS_Subset
      <4> QED
        BY <1>0, <1>2, <1>15, <4>3 DEF cost
    <3>4. c \in b[lc.cost]
      BY <1>0, <1>1 DEF RingsFit
    <3>5. b[cost] = Widened(g, x, b[lc.cost])
      BY <1>0, <3>3 DEF IsRings
    <3>6. n \in b[cost]
      BY <1>4, <3>4, <3>5 DEF Widened
    <3> QED
      BY <3>2, <3>6
  <2> QED
    BY <1>10, <2>1, <2>2
<1>18. SearchFits(g, x, from, to, b, e)
  BY <1>11, <1>12, <1>13, <1>14, <1>16, <1>17 DEF SearchFits
<1> QED
  BY <1>18 DEF e

-----------------------------------------------------------------------------
(* The way back. *)

LEMMA Prepend ==
  ASSUME NEW S, NEW q \in Seq(S), NEW p \in S
  PROVE  LET r == <<p>> \o q
         IN  /\ r \in Seq(S) /\ Len(r) = Len(q) + 1 /\ r[1] = p
             /\ \A i \in 2 .. Len(r) : r[i] = q[i - 1]
OBVIOUS

\* `q' is the last part of a way of K steps to the goal, over free cells that
\* are each a step further than the one before.
IsTail(g, x, to, K, s, q) ==
  /\ q \in Seq(Cell) /\ Len(q) \in 1 .. K /\ q[Len(q)] = to
  /\ \A i \in 1 .. Len(q) :
       /\ q[i] \in Free(g, x) /\ (q[i] = to => i = Len(q))
       /\ \E l \in s.labels : l.cell = q[i] /\ l.cost = K - Len(q) + i
       /\ i > 1 => q[i] \in Neighbors(q[i - 1])

Further(s, q) == <<LabelOf(s, Head(q)).parent>> \o q

\* The label of a cell and the parent it names.
LEMMA Parent ==
  ASSUME NEW g, NEW x, NEW from, NEW to, NEW b, NEW N, Call(g, x, from, to, b, N),
         NEW s, SearchFits(g, x, from, to, b, s), NEW l \in s.labels
  PROVE  /\ LabelOf(s, l.cell) = l
         /\ l.cell = from => l.cost = 0
         /\ l.cell # from => /\ l.cell \in Free(g, x) /\ l.cost \in Nat /\ l.cost # 0
                             /\ \E k \in s.labels : /\ k.cell = l.parent /\ k.cell # to
                                                    /\ k.cost = l.cost - 1
                                                    /\ l.cell \in Neighbors(k.cell)
<1>0. LabelsFit(g, x, from, s) /\ ClosedFits(g, x, to, s)
  BY DEF SearchFits
<1>1. LabelOf(s, l.cell) = l
  <2>1. LabelOf(s, l.cell) \in s.labels /\ LabelOf(s, l.cell).cell = l.cell
    BY DEF LabelOf
  <2> QED
    BY <1>0, <2>1 DEF LabelsFit
<1>2. l.cell = from => l.cost = 0
  <2>1. Label(from, 0, from) \in s.labels /\ Label(from, 0, from).cell = from
        /\ Label(from, 0, from).cost = 0
    BY <1>0 DEF LabelsFit, Label
  <2> QED
    BY <1>0, <2>1 DEF LabelsFit
<1>3. ASSUME l.cell # from
      PROVE  /\ l.cell \in Free(g, x) /\ l.cost \in Nat /\ l.cost # 0
             /\ \E k \in s.labels : /\ k.cell = l.parent /\ k.cell # to
                                    /\ k.cost = l.cost - 1
                                    /\ l.cell \in Neighbors(k.cell)
  <2>1. l.cell \in Free(g, x)
    BY <1>0, <1>3 DEF LabelsFit
  <2>2. PICK k \in s.labels : /\ k.cell = l.parent /\ k.cell \in s.closed
                              /\ l.cost = k.cost + 1 /\ l.cell \in Neighbors(k.cell)
    BY <1>0, <1>3 DEF LabelsFit
  <2>3. k.cell # to
    BY <1>0, <2>2 DEF ClosedFits
  <2>4. k.cost \in Nat /\ l.cost \in Nat
    BY CostsBounded
  <2> QED
    BY <2>1, <2>2, <2>3, <2>4
<1> QED
  BY <1>1, <1>2, <1>3

LEMMA FurtherFits ==
  ASSUME NEW g, NEW x, NEW from, NEW to, NEW b, NEW N, Call(g, x, from, to, b, N),
         NEW s, SearchFits(g, x, from, to, b, s), NEW K \in Nat, NEW q,
         IsTail(g, x, to, K, s, q), Len(q) < K
  PROVE  IsTail(g, x, to, K, s, Further(s, q)) /\ Len(Further(s, q)) = Len(q) + 1
<1> DEFINE r == Further(s, q)
<1>1. /\ q \in Seq(Cell) /\ Len(q) \in 1 .. K /\ Len(q) \in Nat /\ Len(q) >= 1
      /\ q[Len(q)] = to /\ Head(q) = q[1] /\ 1 \in 1 .. Len(q)
  BY DEF IsTail
<1>2. PICK l \in s.labels : l.cell = q[1] /\ l.cost = K - Len(q) + 1
  BY <1>1 DEF IsTail
<1>3. l.cost \in Nat /\ l.cost > 1
  BY <1>1, <1>2
<1>4. l.cell # from
  BY <1>3, Parent
<1>5. PICK k \in s.labels : /\ k.cell = l.parent /\ k.cell # to /\ k.cost = l.cost - 1
                            /\ l.cell \in Neighbors(k.cell)
  BY <1>4, Parent
<1>6. k.cost # 0 /\ k.cost = K - Len(q)
  BY <1>1, <1>2, <1>3, <1>5
<1>7. k.cell # from
  BY <1>6, Parent
<1>8. k.cell \in Free(g, x) /\ k.cell \in Cell
  BY <1>7, Parent, CellsFit DEF Labels
<1>9. LabelOf(s, Head(q)).parent = k.cell
  BY <1>1, <1>2, <1>5, Parent
<1>10. r = <<k.cell>> \o q
  BY <1>9 DEF Further
<1>11. /\ r \in Seq(Cell) /\ Len(r) = Len(q) + 1 /\ r[1] = k.cell
       /\ \A i \in 2 .. Len(r) : r[i] = q[i - 1]
  BY <1>1, <1>8, <1>10, Prepend
<1> HIDE DEF r
<1>12. Len(r) \in 1 .. K /\ r[Len(r)] = to
  BY <1>1, <1>11
<1>13. ASSUME NEW i \in 1 .. Len(r)
       PROVE  /\ r[i] \in Free(g, x) /\ (r[i] = to => i = Len(r))
              /\ \E j \in s.labels : j.cell = r[i] /\ j.cost = K - Len(r) + i
              /\ i > 1 => r[i] \in Neighbors(r[i - 1])
  <2>1. CASE i = 1
    <3>1. k.cost = K - Len(r) + 1
      BY <1>1, <1>6, <1>11
    <3> QED
      BY <1>5, <1>8, <1>11, <2>1, <3>1
  <2>2. CASE i # 1
    <3>1. i \in 2 .. Len(r) /\ i - 1 \in 1 .. Len(q) /\ i \in Int
      BY <1>1, <1>11, <2>2
    <3>2. r[i] = q[i - 1]
      BY <1>11, <3>1
    <3>3. /\ q[i - 1] \in Free(g, x) /\ (q[i - 1] = to => i - 1 = Len(q))
          /\ \E j \in s.labels : j.cell = q[i - 1] /\ j.cost = K - Len(q) + (i - 1)
          /\ i - 1 > 1 => q[i - 1] \in Neighbors(q[i - 1 - 1])
      BY <3>1 DEF IsTail
    <3>4. K - Len(q) + (i - 1) = K - Len(r) + i
      BY <1>1, <1>11, <3>1
    <3>5. r[i] \in Neighbors(r[i - 1])
      <4>1. CASE i = 2
        BY <1>2, <1>5, <1>11, <3>2, <4>1
      <4>2. CASE i # 2
        <5>1. i - 1 \in 2 .. Len(r) /\ i - 1 > 1
          BY <1>11, <3>1, <4>2
        <5>2. r[i - 1] = q[i - 1 - 1]
          BY <1>11, <5>1
        <5> QED
          BY <3>2, <3>3, <5>1, <5>2
      <4> QED
        BY <4>1, <4>2
    <3> QED
      BY <1>1, <1>11, <3>1, <3>2, <3>3, <3>4, <3>5
  <2> QED
    BY <2>1, <2>2
<1>14. IsTail(g, x, to, K, s, r)
  BY <1>11, <1>12, <1>13 DEF IsTail
<1> QED
  BY <1>11, <1>14 DEF r

\* The recursion of Backtrack.
IsBack(b, to, K, s) ==
  b = [n \in 0 .. K - 1 |-> IF n = 0 THEN <<to>> ELSE Further(s, b[n - 1])]

\* All tails, prolonged as long as they are not whole.
LEMMA BackExists ==
  ASSUME NEW g, NEW x, NEW from, NEW to, NEW b, NEW N, Call(g, x, from, to, b, N),
         NEW s, SearchFits(g, x, from, to, b, s), NEW K \in Nat \ {0},
         IsTail(g, x, to, K, s, <<to>>)
  PROVE  \E f : IsBack(f, to, K, s)
<1> DEFINE X == {q \in Seq(Cell) : IsTail(g, x, to, K, s, q)}
           F == [q \in X |-> IF Len(q) < K THEN Further(s, q) ELSE q]
<1>1. \A q \in X : Len(q) < K => Further(s, q) \in X /\ Len(Further(s, q)) = Len(q) + 1
  <2> SUFFICES ASSUME NEW q \in X, Len(q) < K
               PROVE  Further(s, q) \in X /\ Len(Further(s, q)) = Len(q) + 1
    OBVIOUS
  <2>1. IsTail(g, x, to, K, s, Further(s, q)) /\ Len(Further(s, q)) = Len(q) + 1
    BY FurtherFits
  <2> QED
    BY <2>1 DEF IsTail
<1>2. F \in [X -> X]
  BY <1>1
<1>3. <<to>> \in X /\ Len(<<to>>) = 1
  BY DEF IsTail
<1>4. /\ \A q \in X : Len(q) < K => F[q] = Further(s, q)
      /\ \A q \in X : Len(q) \in Nat
  OBVIOUS
<1> HIDE DEF F, X
<1>5. K - 1 \in Nat
  OBVIOUS
<1>6. PICK f : IsIteration(f, K - 1, X, F, <<to>>)
  BY <1>2, <1>3, <1>5, Iteration
<1>7. /\ f \in [0 .. K - 1 -> X] /\ f[0] = <<to>>
      /\ \A n \in 1 .. K - 1 : f[n] = F[f[n - 1]]
  BY <1>6 DEF IsIteration
<1> DEFINE Good(n) == f[n] \in X /\ Len(f[n]) = n + 1
           bad == {n \in 0 .. K - 1 : ~ Good(n)}
<1>8. Good(0)
  <2>1. f[0] = <<to>>
    BY <1>7
  <2> QED
    BY <1>3, <2>1
<1>9. ASSUME NEW n \in 1 .. K - 1, Good(n - 1) PROVE Good(n) /\ f[n] = Further(s, f[n - 1])
  <2>1. Len(f[n - 1]) = n /\ n < K /\ f[n - 1] \in X
    BY <1>9
  <2>2. f[n] = F[f[n - 1]]
    BY <1>7
  <2>3. f[n] = Further(s, f[n - 1])
    BY <1>4, <2>1, <2>2
  <2>4. f[n] \in X /\ Len(f[n]) = n + 1
    BY <1>1, <2>1, <2>3
  <2> QED
    BY <2>3, <2>4
<1> HIDE DEF Good
<1>a. bad = {}
  <2> SUFFICES ASSUME bad # {} PROVE FALSE
    OBVIOUS
  <2>0. bad \in SUBSET Nat
    OBVIOUS
  <2>1. PICK n \in bad : \A i \in bad : n <= i
    BY <2>0, Least
  <2>2. n # 0 /\ n \in Nat
    BY <1>8, <2>1
  <2>3. n \in 1 .. K - 1 /\ n - 1 \in 0 .. K - 1 /\ n - 1 \notin bad
    BY <2>1, <2>2
  <2> QED
    BY <1>9, <2>1, <2>3
<1>b. \A n \in 1 .. K - 1 : f[n] = Further(s, f[n - 1])
  <2> SUFFICES ASSUME NEW n \in 1 .. K - 1 PROVE f[n] = Further(s, f[n - 1])
    OBVIOUS
  <2>1. n - 1 \in 0 .. K - 1
    OBVIOUS
  <2>2. Good(n - 1)
    BY <1>a, <2>1
  <2> QED
    BY <1>9, <2>2
<1>10. IsBack(f, to, K, s)
  BY <1>7, <1>b DEF IsBack
<1> QED
  BY <1>10

\* The goal's label alone is a tail, and the whole is one of K steps.
LEMMA BackIsTail ==
  ASSUME NEW g, NEW x, NEW from, NEW to, NEW b, NEW N, Call(g, x, from, to, b, N),
         NEW s, SearchFits(g, x, from, to, b, s), NEW K \in Nat \ {0},
         IsTail(g, x, to, K, s, <<to>>), NEW f, IsBack(f, to, K, s)
  PROVE  IsTail(g, x, to, K, s, f[K - 1]) /\ Len(f[K - 1]) = K
<1> DEFINE e == [n \in 0 .. K - 1 |-> IF n = 0 THEN <<to>> ELSE Further(s, f[n - 1])]
<1>1. f = e
  BY Zenon DEF IsBack
<1>2. e[0] = <<to>> /\ \A n \in 1 .. K - 1 : e[n] = Further(s, f[n - 1])
  OBVIOUS
<1> HIDE DEF e
<1>3. f[0] = <<to>> /\ \A n \in 1 .. K - 1 : f[n] = Further(s, f[n - 1])
  BY <1>1, <1>2
<1> DEFINE Good(n) == IsTail(g, x, to, K, s, f[n]) /\ Len(f[n]) = n + 1
           bad == {n \in 0 .. K - 1 : ~ Good(n)}
<1>4. Good(0)
  BY <1>3
<1>5. ASSUME NEW n \in 1 .. K - 1, Good(n - 1) PROVE Good(n)
  <2>1. Len(f[n - 1]) = n /\ n < K
    BY <1>5
  <2>2. f[n] = Further(s, f[n - 1])
    BY <1>3
  <2>3. IsTail(g, x, to, K, s, Further(s, f[n - 1])) /\ Len(Further(s, f[n - 1])) = n + 1
    BY <1>5, <2>1, FurtherFits
  <2> QED
    BY <2>2, <2>3
<1> HIDE DEF Good
<1>6. bad = {}
  <2> SUFFICES ASSUME bad # {} PROVE FALSE
    OBVIOUS
  <2>0. bad \in SUBSET Nat
    OBVIOUS
  <2>1. PICK n \in bad : \A i \in bad : n <= i
    BY <2>0, Least
  <2>2. n # 0 /\ n \in Nat
    BY <1>4, <2>1
  <2>3. n \in 1 .. K - 1 /\ n - 1 \in 0 .. K - 1 /\ n - 1 \notin bad
    BY <2>1, <2>2
  <2> QED
    BY <1>5, <2>1, <2>3
<1>7. Good(K - 1)
  BY <1>6
<1> QED
  BY <1>7 DEF Good

\* What is walked back from the goal is a route, as long as its label says.
LEMMA BacktrackIsRoute ==
  ASSUME NEW g, NEW x, NEW from, NEW to, NEW b, NEW N, Call(g, x, from, to, b, N),
         NEW s, SearchFits(g, x, from, to, b, s), NEW l \in s.labels, l.cell = to
  PROVE  /\ IsRoute(g, x, from, to, Backtrack(s, from, to))
         /\ Len(Backtrack(s, from, to)) = l.cost
<1> DEFINE K == l.cost
           r == Backtrack(s, from, to)
<1>0. from # to /\ to \in Cell /\ ~ Blocked(g, from)
  BY DEF Call, Trivial
<1>1. K \in Nat \ {0} /\ to \in Free(g, x) /\ LabelOf(s, to) = l
  BY <1>0, Parent
<1>2. IsTail(g, x, to, K, s, <<to>>)
  <2>1. <<to>> \in Seq(Cell) /\ Len(<<to>>) = 1 /\ <<to>>[1] = to
    BY <1>0
  <2>2. 1 \in 1 .. K /\ K - 1 + 1 = K /\ \A i \in 1 .. 1 : i = 1
    BY <1>1
  <2> HIDE DEF K
  <2>3. l.cost = K
    BY DEF K
  <2> QED
    BY <1>1, <2>1, <2>2, <2>3 DEF IsTail
<1>3. r = (CHOOSE f : IsBack(f, to, K, s))[K - 1]
  BY <1>1 DEF Backtrack, IsBack, Further
<1>4. PICK f : IsBack(f, to, K, s) /\ r = f[K - 1]
  BY <1>1, <1>2, <1>3, BackExists
<1> HIDE DEF r, K
<1>5. IsTail(g, x, to, K, s, r) /\ Len(r) = K
  BY <1>1, <1>2, <1>4, BackIsTail
<1>6. r \in Seq(Cell) /\ r # <<>> /\ r[Len(r)] = to
  BY <1>1, <1>5 DEF IsTail
<1>7. ASSUME NEW i \in 1 .. Len(r)
      PROVE  /\ ~ Blocked(g, r[i]) /\ r[i] \notin x
             /\ r[i] \in Neighbors(IF i = 1 THEN from ELSE r[i - 1])
             /\ r[i] = to => i = Len(r)
  <2>1. /\ r[i] \in Free(g, x) /\ (r[i] = to => i = Len(r))
        /\ \E j \in s.labels : j.cell = r[i] /\ j.cost = K - Len(r) + i
        /\ i > 1 => r[i] \in Neighbors(r[i - 1])
    BY <1>5 DEF IsTail
  <2>2. ~ Blocked(g, r[i]) /\ r[i] \notin x
    BY <2>1 DEF Free, Floor
  <2>3. CASE i = 1
    <3>1. PICK j \in s.labels : j.cell = r[1] /\ j.cost = 1
      BY <1>1, <1>5, <2>1, <2>3
    <3>2. j.cell # from
      BY <3>1, Parent
    <3>3. PICK k \in s.labels : k.cost = 0 /\ j.cell \in Neighbors(k.cell)
      BY <3>1, <3>2, Parent
    <3>4. k.cell = from
      BY <3>3, Parent
    <3> QED
      BY <2>1, <2>2, <2>3, <3>1, <3>3, <3>4
  <2>4. CASE i # 1
    BY <2>1, <2>2, <2>4
  <2> QED
    BY <2>3, <2>4
<1>8. IsRoute(g, x, from, to, r)
  BY <1>0, <1>6, <1>7 DEF IsRoute
<1> QED
  BY <1>5, <1>8 DEF r, K

-----------------------------------------------------------------------------
(* The whole search, turn by turn. *)

AtGoal(g, to, s) == s.open # {} /\ Top(g, s).cell = to /\ to \notin s.closed

\* One turn of the loop, none when the search is over.
Turn(g, x, to, s) ==
  IF s.open = {} \/ AtGoal(g, to, s) THEN s
  ELSE IF Top(g, s).cell \in s.closed THEN DropStale(g, s)
  ELSE Expand(g, x, to, s)

LEMMA TurnFits ==
  ASSUME NEW g, NEW x, NEW from, NEW to, NEW b, NEW N, Call(g, x, from, to, b, N),
         NEW s, SearchFits(g, x, from, to, b, s)
  PROVE  SearchFits(g, x, from, to, b, Turn(g, x, to, s))
<1>1. CASE s.open = {} \/ AtGoal(g, to, s)
  BY <1>1 DEF Turn
<1>2. CASE s.open # {} /\ ~ AtGoal(g, to, s) /\ Top(g, s).cell \in s.closed
  BY <1>2, DropFits DEF Turn
<1>3. CASE s.open # {} /\ ~ AtGoal(g, to, s) /\ Top(g, s).cell \notin s.closed
  <2>1. Top(g, s).cell # to
    BY <1>3 DEF AtGoal
  <2>2. SearchFits(g, x, from, to, b, Expand(g, x, to, s))
    BY <1>3, <2>1, ExpandFits
  <2> QED
    BY <1>3, <2>2 DEF Turn
<1> QED
  BY <1>1, <1>2, <1>3

\* The recursion of astar.
IsRun(r, k, g, x, from, to) ==
  r = [n \in 0 .. k |-> IF n = 0 THEN NewSearch(from, to) ELSE Turn(g, x, to, r[n - 1])]

LEMMA RunExists ==
  ASSUME NEW g, NEW x, NEW from, NEW to, NEW b, NEW N, Call(g, x, from, to, b, N),
         NEW k \in Nat
  PROVE  \E r : IsRun(r, k, g, x, from, to)
<1> DEFINE X == {s \in Searches : SearchFits(g, x, from, to, b, s)}
           F == [s \in X |-> Turn(g, x, to, s)]
<1>1. \A s \in X : Turn(g, x, to, s) \in X
  <2> SUFFICES ASSUME NEW s \in X PROVE Turn(g, x, to, s) \in X
    OBVIOUS
  <2>1. SearchFits(g, x, from, to, b, Turn(g, x, to, s))
    BY TurnFits
  <2> QED
    BY <2>1 DEF SearchFits
<1>2. F \in [X -> X] /\ \A s \in X : F[s] = Turn(g, x, to, s)
  BY <1>1
<1>3. NewSearch(from, to) \in X
  BY StartFits DEF SearchFits
<1> HIDE DEF F, X
<1>4. PICK f : IsIteration(f, k, X, F, NewSearch(from, to))
  BY <1>2, <1>3, Iteration
<1>5. f \in [0 .. k -> X] /\ f[0] = NewSearch(from, to) /\ \A n \in 1 .. k : f[n] = F[f[n - 1]]
  BY <1>4 DEF IsIteration
<1>6. \A n \in 1 .. k : f[n] = Turn(g, x, to, f[n - 1])
  BY <1>2, <1>5
<1>7. IsRun(f, k, g, x, from, to)
  BY <1>5, <1>6 DEF IsRun
<1> QED
  BY <1>7

LEMMA RunUnfolds ==
  ASSUME NEW g, NEW x, NEW from, NEW to, NEW k \in Nat, NEW r, IsRun(r, k, g, x, from, to)
  PROVE  r[0] = NewSearch(from, to) /\ \A n \in 1 .. k : r[n] = Turn(g, x, to, r[n - 1])
<1> DEFINE e == [n \in 0 .. k |-> IF n = 0 THEN NewSearch(from, to) ELSE Turn(g, x, to, r[n - 1])]
<1>1. r = e
  BY Zenon DEF IsRun
<1>2. e[0] = NewSearch(from, to) /\ \A n \in 1 .. k : e[n] = Turn(g, x, to, r[n - 1])
  OBVIOUS
<1> HIDE DEF e
<1> QED
  BY <1>1, <1>2

LEMMA RunFits ==
  ASSUME NEW g, NEW x, NEW from, NEW to, NEW b, NEW N, Call(g, x, from, to, b, N),
         NEW k \in Nat, NEW r, IsRun(r, k, g, x, from, to), NEW m \in 0 .. k
  PROVE  SearchFits(g, x, from, to, b, r[m])
<1> DEFINE Good(n) == SearchFits(g, x, from, to, b, r[n])
           bad == {n \in 0 .. k : ~ Good(n)}
<1>1. Good(0)
  BY RunUnfolds, StartFits
<1>2. ASSUME NEW n \in 1 .. k, Good(n - 1) PROVE Good(n)
  <2>1. r[n] = Turn(g, x, to, r[n - 1])
    BY RunUnfolds
  <2> QED
    BY <1>2, <2>1, TurnFits
<1> HIDE DEF Good
<1>3. bad = {}
  <2> SUFFICES ASSUME bad # {} PROVE FALSE
    OBVIOUS
  <2>0. bad \in SUBSET Nat
    OBVIOUS
  <2>1. PICK n \in bad : \A i \in bad : n <= i
    BY <2>0, Least
  <2>2. n # 0 /\ n \in Nat
    BY <1>1, <2>1
  <2>3. n \in 1 .. k /\ n - 1 \in 0 .. k /\ n - 1 \notin bad
    BY <2>1, <2>2
  <2> QED
    BY <1>2, <2>1, <2>3
<1>4. Good(m)
  BY <1>3
<1> QED
  BY <1>4 DEF Good

\* A search that is over stays as it is.
LEMMA RunStays ==
  ASSUME NEW g, NEW x, NEW from, NEW to, NEW k \in Nat, NEW r, IsRun(r, k, g, x, from, to),
         NEW m \in 0 .. k, r[m].open = {} \/ AtGoal(g, to, r[m])
  PROVE  r[k] = r[m]
<1> DEFINE bad == {n \in 0 .. k : m <= n /\ r[n] # r[m]}
<1>0. \A n \in 1 .. k : r[n] = Turn(g, x, to, r[n - 1])
  BY RunUnfolds
<1>1. bad = {}
  <2> SUFFICES ASSUME bad # {} PROVE FALSE
    OBVIOUS
  <2>0. bad \in SUBSET Nat
    OBVIOUS
  <2>1. PICK n \in bad : \A i \in bad : n <= i
    BY <2>0, Least
  <2>2. n # m /\ n \in 0 .. k /\ m <= n /\ m \in Nat /\ n \in Nat
    BY <2>1
  <2>3. n \in 1 .. k /\ n - 1 \in 0 .. k /\ m <= n - 1 /\ n - 1 \notin bad
    BY <2>1, <2>2
  <2>4. r[n - 1] = r[m]
    BY <2>3
  <2>5. r[n] = Turn(g, x, to, r[n - 1])
    BY <1>0, <2>3
  <2>6. r[n] = r[m]
    BY <2>4, <2>5 DEF Turn
  <2> QED
    BY <2>1, <2>6
<1>2. k \in 0 .. k /\ m <= k
  OBVIOUS
<1> QED
  BY <1>1, <1>2

-----------------------------------------------------------------------------
(* The path finder as the world calls it. *)

\* As many turns as astar grants its loop.
Turns(g) == 4 * Cardinality(Floor(g)) + 1

LEMMA GridsAreFinite ==
  ASSUME NEW g \in TileMap
  PROVE  /\ IsFiniteSet(Cells(g)) /\ Cardinality(Cells(g)) \in Nat
         /\ IsFiniteSet(Floor(g)) /\ Cardinality(Floor(g)) \in Nat
         /\ Turns(g) \in Nat
<1>1. g.width \in Nat /\ g.height \in Nat
  BY DEF TileMap
<1>2. IsFiniteSet(0 .. g.width - 1) /\ IsFiniteSet(0 .. g.height - 1)
  <2>1. 0 \in Int /\ g.width - 1 \in Int /\ g.height - 1 \in Int
    BY <1>1
  <2> QED
    BY <2>1, FS_Interval
<1>3. IsFiniteSet(Cells(g))
  BY <1>2, FS_Product DEF Cells
<1>4. Floor(g) \in SUBSET Cells(g)
  BY DEF Floor
<1>5. IsFiniteSet(Floor(g))
  BY <1>3, <1>4, FS_Subset
<1>6. Cardinality(Cells(g)) \in Nat /\ Cardinality(Floor(g)) \in Nat
  BY <1>3, <1>5, FS_CardinalityType
<1> QED
  BY <1>3, <1>5, <1>6 DEF Turns

\* Past the guards, astar answers from the last state of the one run there is.
LEMMA AstarUnfolds ==
  ASSUME NEW g, NEW x, NEW from, NEW to, NEW b, NEW N, Call(g, x, from, to, b, N)
  PROVE  \E r : /\ IsRun(r, Turns(g), g, x, from, to)
                /\ r = CHOOSE q : IsRun(q, Turns(g), g, x, from, to)
                /\ astar(g, x, from, to) =
                     IF AtGoal(g, to, r[Turns(g)]) THEN Backtrack(r[Turns(g)], from, to)
                     ELSE NoRoute
<1> DEFINE r == CHOOSE q : IsRun(q, Turns(g), g, x, from, to)
<1>1. ~ Trivial(g, x, from, to) /\ g \in TileMap
  BY DEF Call
<1>2. Turns(g) \in Nat
  BY <1>1, GridsAreFinite
<1>3. IsRun(r, Turns(g), g, x, from, to)
  BY <1>2, RunExists
<1>4. astar(g, x, from, to) =
        IF AtGoal(g, to, r[Turns(g)]) THEN Backtrack(r[Turns(g)], from, to) ELSE NoRoute
  BY <1>1 DEF astar, IsRun, Turn, AtGoal, Turns
<1> QED
  BY <1>3, <1>4

\* astar never answers with anything but a route over free tiles around the
\* crowd, from where it is asked to the goal.
THEOREM AstarMeetsContract ==
  ASSUME NEW g \in TileMap, NEW x, NEW from \in Cell, NEW to \in Cell
  PROVE  LET r == astar(g, x, from, to)
         IN  r # NoRoute => IsRoute(g, x, from, to, r)
<1>1. CASE Trivial(g, x, from, to)
  <2>1. astar(g, x, from, to) = TrivialAnswer(from, to)
    BY <1>1 DEF astar
  <2>2. CASE from = to
    <3>1. astar(g, x, from, to) = <<>>
      BY <2>1, <2>2 DEF TrivialAnswer
    <3>2. IsRoute(g, x, from, to, <<>>)
      BY <2>2 DEF IsRoute
    <3> QED
      BY <3>1, <3>2
  <2>3. CASE from # to
    BY <2>1, <2>3 DEF TrivialAnswer
  <2> QED
    BY <2>2, <2>3
<1>2. CASE ~ Trivial(g, x, from, to)
  <2> DEFINE N == Cardinality(Cells(g))
  <2>1. IsFiniteSet(Cells(g)) /\ N \in Nat /\ Turns(g) \in Nat
    BY GridsAreFinite
  <2>2. PICK b : IsRings(b, g, x, from, N)
    BY <2>1, RingsExist, RingsUnfold
  <2>3. Call(g, x, from, to, b, N)
    BY <1>2, <2>1, <2>2 DEF Call
  <2> HIDE DEF N
  <2>4. PICK r : /\ IsRun(r, Turns(g), g, x, from, to)
                 /\ astar(g, x, from, to) =
                      IF AtGoal(g, to, r[Turns(g)]) THEN Backtrack(r[Turns(g)], from, to)
                      ELSE NoRoute
    BY <2>3, AstarUnfolds
  <2> DEFINE s == r[Turns(g)]
  <2>5. SearchFits(g, x, from, to, b, s)
    BY <2>1, <2>3, <2>4, RunFits
  <2>6. ASSUME AtGoal(g, to, s) PROVE IsRoute(g, x, from, to, Backtrack(s, from, to))
    <3>1. PICK l \in s.labels : l.cell = to
      BY <2>3, <2>5, <2>6, TopFits DEF AtGoal
    <3> QED
      BY <2>3, <2>5, <3>1, BacktrackIsRoute
  <2> QED
    BY <2>4, <2>6
<1> QED
  BY <1>1, <1>2

\* The contract World assumes of its path finder (RouteAssumption), of this one:
\* for every map and layout, from wherever an agent can stand to any anchor,
\* around any crowd.
THEOREM RouteAssumptionHolds ==
  ASSUME NEW m \in TileMap, NEW layout \in Seq(Item),
         NEW from \in Standable(m, layout), NEW to \in AnchorCells(layout), NEW crowd
  PROVE  LET g == CollisionGrid(m, layout)
             r == astar(g, crowd, from, to)
         IN  r # NoRoute => IsRoute(g, crowd, from, to, r)
<1> DEFINE g == CollisionGrid(m, layout)
<1>1. m.width \in Nat /\ m.height \in Nat /\ Cells(m) \subseteq Cell
  BY DEF TileMap, Cells, Cell
<1>2. g \in TileMap /\ Cells(g) = Cells(m)
  BY <1>1 DEF CollisionGrid, TileMap, Cells
<1> HIDE DEF g
<1>3. from \in Cell
  BY <1>1, <1>2 DEF Standable, Floor, DoorTiles, g
<1>4. to \in Cell
  <2>1. PICK i \in DOMAIN layout : to = <<layout[i].x, layout[i].y>>
    BY DEF AnchorCells
  <2>2. layout[i] \in Item
    BY <2>1
  <2>3. layout[i].x \in Int /\ layout[i].y \in Int
    BY <2>2 DEF Item
  <2> QED
    BY <2>1, <2>3 DEF Cell
<1>5. LET r == astar(g, crowd, from, to) IN r # NoRoute => IsRoute(g, crowd, from, to, r)
  BY <1>2, <1>3, <1>4, AstarMeetsContract
<1> QED
  BY <1>5 DEF g

-----------------------------------------------------------------------------
(* How many turns a search can take. *)

LEMMA FourAtMost ==
  ASSUME NEW a, NEW b, NEW c, NEW d
  PROVE  /\ IsFiniteSet({a, b, c, d}) /\ Cardinality({a, b, c, d}) \in Nat
         /\ Cardinality({a, b, c, d}) <= 4
<1>1. IsFiniteSet({a}) /\ Cardinality({a}) = 1
  BY FS_Singleton
<1>2. IsFiniteSet({a} \cup {b}) /\ Cardinality({a} \cup {b}) \in 1 .. 2
  BY <1>1, FS_AddElement
<1>3. IsFiniteSet(({a} \cup {b}) \cup {c}) /\ Cardinality(({a} \cup {b}) \cup {c}) \in 1 .. 3
  BY <1>2, FS_AddElement
<1>4. /\ IsFiniteSet((({a} \cup {b}) \cup {c}) \cup {d})
      /\ Cardinality((({a} \cup {b}) \cup {c}) \cup {d}) \in 1 .. 4
  BY <1>3, FS_AddElement
<1>5. (({a} \cup {b}) \cup {c}) \cup {d} = {a, b, c, d}
  OBVIOUS
<1> QED
  BY <1>4, <1>5

LEMMA StartCounts ==
  ASSUME NEW from, NEW to
  PROVE  LET s == NewSearch(from, to)
         IN  IsFiniteSet(s.open) /\ Cardinality(s.open) = 1 /\ Cardinality(s.closed) = 0
BY FS_Singleton, FS_EmptySet DEF NewSearch

LEMMA DropCounts ==
  ASSUME NEW g, NEW s, IsFiniteSet(s.open), Top(g, s) \in s.open, s \in Searches
  PROVE  LET d == DropStale(g, s)
         IN  /\ IsFiniteSet(d.open) /\ Cardinality(d.open) = Cardinality(s.open) - 1
             /\ d.closed = s.closed
<1>1. DropStale(g, s).open = s.open \ {Top(g, s)} /\ DropStale(g, s).closed = s.closed
  BY DEF DropStale, Searches
<1> QED
  BY <1>1, FS_RemoveElement

LEMMA ExpandCounts ==
  ASSUME NEW g, NEW x, NEW to, NEW s, IsFiniteSet(s.open), Top(g, s) \in s.open,
         IsFiniteSet(s.closed), Top(g, s).cell \notin s.closed
  PROVE  LET e == Expand(g, x, to, s)
         IN  /\ IsFiniteSet(e.open) /\ Cardinality(e.open) <= Cardinality(s.open) + 3
             /\ Cardinality(e.closed) = Cardinality(s.closed) + 1
<1> DEFINE t == Top(g, s)
           c == t.cell
           cost == LabelOf(s, c).cost + 1
           new == {Entry(cost, n, to) : n \in Improved(g, x, s, c, cost)}
           old == s.open \ {t}
           e == Expand(g, x, to, s)
           four == {Entry(cost, <<c[1], c[2] - 1>>, to), Entry(cost, <<c[1] + 1, c[2]>>, to),
                    Entry(cost, <<c[1], c[2] + 1>>, to), Entry(cost, <<c[1] - 1, c[2]>>, to)}
<1>1. e.open = old \cup new /\ e.closed = s.closed \cup {c}
  BY DEF Expand
<1>2. new \in SUBSET four
  BY DEF Improved, Neighbors
<1> HIDE DEF e, new, four
<1>3. IsFiniteSet(four) /\ Cardinality(four) \in Nat /\ Cardinality(four) <= 4
  BY FourAtMost DEF four
<1>4. IsFiniteSet(new) /\ Cardinality(new) \in Nat /\ Cardinality(new) <= 4
  BY <1>2, <1>3, FS_Subset, FS_CardinalityType
<1>5. IsFiniteSet(old) /\ Cardinality(old) = Cardinality(s.open) - 1 /\ Cardinality(s.open) \in Nat
  BY FS_RemoveElement, FS_CardinalityType
<1>6. /\ IsFiniteSet(old \cup new) /\ Cardinality(old \cap new) \in Nat
      /\ Cardinality(old \cup new) = Cardinality(old) + Cardinality(new) - Cardinality(old \cap new)
  <2>1. IsFiniteSet(old \cap new)
    BY <1>5, FS_Intersection
  <2> QED
    BY <1>4, <1>5, <2>1, FS_Union, FS_CardinalityType
<1> HIDE DEF old
<1>7. Cardinality(old \cup new) <= Cardinality(s.open) + 3
  BY <1>4, <1>5, <1>6
<1>8. Cardinality(s.closed \cup {c}) = Cardinality(s.closed) + 1
  BY FS_AddElement
<1>9. /\ IsFiniteSet(e.open) /\ Cardinality(e.open) <= Cardinality(s.open) + 3
      /\ Cardinality(e.closed) = Cardinality(s.closed) + 1
  BY <1>1, <1>6, <1>7, <1>8
<1> QED
  BY <1>9 DEF e

\* Turns are paid for by closed cells: one for the start and four for each.
Counted(n, s) ==
  /\ IsFiniteSet(s.open) /\ Cardinality(s.open) \in Nat
  /\ n + Cardinality(s.open) <= 1 + 4 * Cardinality(s.closed)

\* A search that can take another turn has not used up those astar grants.
LEMMA TurnCounts ==
  ASSUME NEW g, NEW x, NEW from, NEW to, NEW b, NEW N, Call(g, x, from, to, b, N),
         NEW r, IsRun(r, Turns(g), g, x, from, to), NEW n \in 0 .. Turns(g),
         NEW s, s = r[n], Counted(n, s), s.open # {}, ~ AtGoal(g, to, s)
  PROVE  /\ n + 1 \in 0 .. Turns(g) /\ r[n + 1] = Turn(g, x, to, s)
         /\ Counted(n + 1, Turn(g, x, to, s))
<1>0. g \in TileMap /\ Turns(g) \in Nat
  BY GridsAreFinite DEF Call
<1>1. SearchFits(g, x, from, to, b, s)
  BY <1>0, RunFits
<1>2. IsFiniteSet(s.closed) /\ Cardinality(s.closed) \in Nat
  BY <1>1, CostsBounded
<1>3. Cardinality(s.closed) <= Cardinality(Floor(g)) /\ Cardinality(Floor(g)) \in Nat
  <2>1. s.closed \in SUBSET Floor(g)
    BY <1>1 DEF SearchFits, ClosedFits
  <2> QED
    BY <1>0, <2>1, GridsAreFinite, FS_Subset
<1>4. Cardinality(s.open) # 0 /\ Cardinality(s.open) \in Nat /\ IsFiniteSet(s.open)
  BY FS_EmptySet DEF Counted
<1>5. n + 1 \in 0 .. Turns(g) /\ n + 1 \in 1 .. Turns(g) /\ n \in Nat
  BY <1>0, <1>2, <1>3, <1>4 DEF Counted, Turns
<1>6. r[n + 1] = Turn(g, x, to, s)
  <2>1. \A i \in 1 .. Turns(g) : r[i] = Turn(g, x, to, r[i - 1])
    BY <1>0, RunUnfolds
  <2>2. n + 1 - 1 = n
    BY <1>5
  <2> QED
    BY <1>5, <2>1, <2>2
<1>7. Top(g, s) \in s.open
  BY <1>1, TopFits
<1>8. Counted(n + 1, Turn(g, x, to, s))
  <2>1. CASE Top(g, s).cell \in s.closed
    <3>1. Turn(g, x, to, s) = DropStale(g, s)
      BY <2>1 DEF Turn
    <3>2. s \in Searches
      BY <1>1 DEF SearchFits
    <3>3. /\ IsFiniteSet(DropStale(g, s).open) /\ DropStale(g, s).closed = s.closed
          /\ Cardinality(DropStale(g, s).open) = Cardinality(s.open) - 1
      BY <1>4, <1>7, <3>2, DropCounts
    <3> QED
      BY <1>2, <1>4, <1>5, <3>1, <3>3, FS_CardinalityType DEF Counted
  <2>2. CASE Top(g, s).cell \notin s.closed
    <3>1. Turn(g, x, to, s) = Expand(g, x, to, s)
      BY <2>2 DEF Turn
    <3>2. /\ IsFiniteSet(Expand(g, x, to, s).open)
          /\ Cardinality(Expand(g, x, to, s).open) <= Cardinality(s.open) + 3
          /\ Cardinality(Expand(g, x, to, s).closed) = Cardinality(s.closed) + 1
      BY <1>2, <1>4, <1>7, <2>2, ExpandCounts
    <3>3. Cardinality(Expand(g, x, to, s).open) \in Nat
      BY <3>2, FS_CardinalityType
    <3> QED
      BY <1>2, <1>4, <1>5, <3>1, <3>2, <3>3 DEF Counted
  <2> QED
    BY <2>1, <2>2
<1> QED
  BY <1>5, <1>6, <1>8

-----------------------------------------------------------------------------
(* The state machine. *)

TheRun(g, x, from, to) == CHOOSE r : IsRun(r, Turns(g), g, x, from, to)

\* The arguments never change and fit the room.
ArgumentsFit ==
  /\ grid \in TileMap /\ Cells(grid) = Room
  /\ start \in Cell /\ goal \in Cell
  /\ done \in BOOLEAN

\* The search is one of the states astar runs through, reached in as many turns
\* as cells closed so far pay for, and the answer is the one astar gives.
RunFollowed ==
  /\ \E n \in 0 .. Turns(grid) : /\ search = TheRun(grid, extra, start, goal)[n]
                                 /\ Counted(n, search)
  /\ ~ done => answer = NoRoute
  /\ done => \/ search.open = {} /\ answer = NoRoute
             \/ AtGoal(grid, goal, search) /\ answer = Backtrack(search, start, goal)

PInv ==
  /\ ArgumentsFit
  /\ Trivial(grid, extra, start, goal) =>
       done /\ search = NewSearch(start, goal) /\ answer = TrivialAnswer(start, goal)
  /\ ~ Trivial(grid, extra, start, goal) => RunFollowed

\* A call past the guards, with the rings the properties use.
LEMMA RoomCall ==
  ASSUME ArgumentsFit, ~ Trivial(grid, extra, start, goal)
  PROVE  /\ Call(grid, extra, start, goal, Ball(start), Cardinality(Room))
         /\ IsRun(TheRun(grid, extra, start, goal), Turns(grid), grid, extra, start, goal)
         /\ Turns(grid) \in Nat
<1>1. grid \in TileMap /\ Cells(grid) = Room /\ start \in Cell /\ goal \in Cell
  BY DEF ArgumentsFit
<1>2. IsFiniteSet(Cells(grid)) /\ Cardinality(Room) \in Nat /\ Turns(grid) \in Nat
  BY <1>1, GridsAreFinite
<1>3. IsRings(Ball(start), grid, extra, start, Cardinality(Room))
  BY <1>2, BallIsRings
<1>4. Call(grid, extra, start, goal, Ball(start), Cardinality(Room))
  BY <1>1, <1>2, <1>3 DEF Call
<1>5. \E r : IsRun(r, Turns(grid), grid, extra, start, goal)
  BY <1>2, <1>4, RunExists
<1> QED
  BY <1>2, <1>4, <1>5 DEF TheRun

LEMMA SearchIsFit ==
  ASSUME PInv, ~ Trivial(grid, extra, start, goal)
  PROVE  SearchFits(grid, extra, start, goal, Ball(start), search)
<1>1. ArgumentsFit /\ RunFollowed
  BY DEF PInv
<1>2. PICK n \in 0 .. Turns(grid) : search = TheRun(grid, extra, start, goal)[n]
  BY <1>1 DEF RunFollowed
<1> QED
  BY <1>1, <1>2, RoomCall, RunFits

LEMMA InitPInv ==
  ASSUME Init
  PROVE  PInv
<1>1. /\ \E walls \in SUBSET Room : grid = [width |-> Width, height |-> Height, walls |-> walls]
      /\ start \in Starts /\ goal \in Room
      /\ search = NewSearch(start, goal)
      /\ done = Trivial(grid, extra, start, goal)
      /\ answer = IF done THEN TrivialAnswer(start, goal) ELSE NoRoute
  BY DEF Init
<1>2. Width \in Nat /\ Height \in Nat /\ start \in Cell
  BY <1>1, SizeAssumption
<1>3. Room \subseteq Cell
  BY <1>2 DEF Room, Cell
<1>4. grid \in TileMap /\ Cells(grid) = Room
  BY <1>1, <1>2, <1>3 DEF TileMap, Cells, Room
<1>5. Trivial(grid, extra, start, goal) \in BOOLEAN
  BY DEF Trivial, Blocked
<1>6. ArgumentsFit
  BY <1>1, <1>2, <1>3, <1>4, <1>5 DEF ArgumentsFit
<1>7. ASSUME Trivial(grid, extra, start, goal)
      PROVE  done /\ search = NewSearch(start, goal) /\ answer = TrivialAnswer(start, goal)
  BY <1>1, <1>7, Zenon
<1>8. ASSUME ~ Trivial(grid, extra, start, goal) PROVE RunFollowed
  <2>1. ~ done /\ answer = NoRoute
    BY <1>1, <1>8, Zenon
  <2>2. /\ IsRun(TheRun(grid, extra, start, goal), Turns(grid), grid, extra, start, goal)
        /\ Turns(grid) \in Nat
    BY <1>6, <1>8, RoomCall
  <2>3. TheRun(grid, extra, start, goal)[0] = search
    BY <1>1, <2>2, RunUnfolds
  <2>4. Counted(0, search)
    BY <1>1, StartCounts DEF Counted
  <2>5. 0 \in 0 .. Turns(grid)
    BY <2>2
  <2> QED
    BY <2>1, <2>3, <2>4, <2>5 DEF RunFollowed
<1> QED
  BY <1>6, <1>7, <1>8 DEF PInv

LEMMA StepPInv ==
  ASSUME PInv, [Next]_vars
  PROVE  PInv'
<1>1. CASE UNCHANGED vars
  BY <1>1 DEF vars, PInv, ArgumentsFit, RunFollowed
<1>2. CASE Next
  <2>1. /\ ~ done /\ done \in BOOLEAN /\ UNCHANGED <<grid, extra, start, goal>> /\ done' \in BOOLEAN
    BY <1>2 DEF Next, PopStale, PopGoal, PopCell, HeapEmpty, Searching, PInv, ArgumentsFit
  <2>2. ~ Trivial(grid, extra, start, goal) /\ ArgumentsFit /\ RunFollowed
    BY <2>1 DEF PInv
  <2>3. ArgumentsFit' /\ ~ Trivial(grid, extra, start, goal)'
    BY <2>1, <2>2 DEF ArgumentsFit
  <2>4. TheRun(grid, extra, start, goal)' = TheRun(grid, extra, start, goal)
    BY <2>1
  <2> SUFFICES RunFollowed'
    BY <2>3 DEF PInv
  <2>5. PICK n \in 0 .. Turns(grid) : /\ search = TheRun(grid, extra, start, goal)[n]
                                      /\ Counted(n, search)
    BY <2>2 DEF RunFollowed
  <2>6. answer = NoRoute
    BY <2>1, <2>2 DEF RunFollowed
  <2>7. CASE PopStale \/ PopCell
    <3>1. /\ search' = Turn(grid, extra, goal, search)
          /\ search.open # {} /\ ~ AtGoal(grid, goal, search)
          /\ answer' = answer /\ done' = done
      <4>1. CASE PopStale
        BY <4>1, SearchIsFit, <2>2 DEF PopStale, Searching, Turn, AtGoal
      <4>2. CASE PopCell
        BY <4>2 DEF PopCell, Searching, Turn, AtGoal
      <4> QED
        BY <2>7, <4>1, <4>2
    <3>2. /\ n + 1 \in 0 .. Turns(grid)
          /\ TheRun(grid, extra, start, goal)[n + 1] = Turn(grid, extra, goal, search)
          /\ Counted(n + 1, Turn(grid, extra, goal, search))
      BY <2>2, <2>5, <3>1, RoomCall, TurnCounts
    <3>3. \E k \in 0 .. Turns(grid') : /\ search' = TheRun(grid, extra, start, goal)'[k]
                                       /\ Counted(k, search')
      BY <2>1, <2>4, <3>1, <3>2
    <3> QED
      BY <2>1, <2>6, <3>1, <3>3 DEF RunFollowed
  <2>8. CASE PopGoal \/ HeapEmpty
    <3>1. \/ search'.open = {} /\ answer' = NoRoute
          \/ AtGoal(grid', goal', search') /\ answer' = Backtrack(search', start', goal')
      <4>1. CASE PopGoal
        BY <2>1, <4>1 DEF PopGoal, Searching, AtGoal
      <4>2. CASE HeapEmpty
        BY <2>6, <4>2 DEF HeapEmpty
      <4> QED
        BY <2>8, <4>1, <4>2
    <3>2. search' = search /\ done'
      BY <2>8 DEF PopGoal, HeapEmpty
    <3>3. \E k \in 0 .. Turns(grid') : /\ search' = TheRun(grid, extra, start, goal)'[k]
                                       /\ Counted(k, search')
      BY <2>1, <2>4, <2>5, <3>2
    <3> QED
      BY <3>1, <3>2, <3>3 DEF RunFollowed
  <2> QED
    BY <1>2, <2>7, <2>8 DEF Next
<1> QED
  BY <1>1, <1>2

\* The inductive invariant of PathfindRun.
THEOREM PInvHolds == Spec => []PInv
<1>1. Init => PInv
  BY InitPInv
<1>2. PInv /\ [Next]_vars => PInv'
  BY StepPInv
<1> QED
  BY <1>1, <1>2, PTL DEF Spec

\* Refusing to reopen a closed cell loses nothing (pathfind.rs:93).
THEOREM ClosedStaysFinal == Spec => []ClosedIsFinal
<1>1. PInv => ClosedIsFinal
  <2> SUFFICES ASSUME PInv, NEW l \in search.labels, l.cell \in search.closed
               PROVE  /\ l.cell \in Ball(start)[l.cost]
                      /\ \A n \in 0 .. l.cost - 1 : l.cell \notin Ball(start)[n]
    BY DEF ClosedIsFinal
  <2>1. CASE Trivial(grid, extra, start, goal)
    BY <2>1 DEF PInv, NewSearch
  <2>2. CASE ~ Trivial(grid, extra, start, goal)
    BY <2>2, SearchIsFit DEF SearchFits, RingsFit
  <2> QED
    BY <2>1, <2>2
<1> QED
  BY <1>1, PInvHolds, PTL

\* When the loop ends, astar would have ended in the same state.
LEMMA AnswerIsAstar ==
  ASSUME PInv, done
  PROVE  answer = astar(grid, extra, start, goal)
<1>1. CASE Trivial(grid, extra, start, goal)
  BY <1>1 DEF PInv, astar
<1>2. CASE ~ Trivial(grid, extra, start, goal)
  <2> DEFINE r == TheRun(grid, extra, start, goal)
             k == Turns(grid)
  <2>1. ArgumentsFit /\ RunFollowed
    BY <1>2 DEF PInv
  <2>2. PICK n \in 0 .. k : search = r[n]
    BY <2>1 DEF RunFollowed
  <2>3. astar(grid, extra, start, goal) =
          IF AtGoal(grid, goal, r[k]) THEN Backtrack(r[k], start, goal) ELSE NoRoute
    BY <1>2, <2>1, RoomCall, AstarUnfolds DEF TheRun
  <2>4. \/ search.open = {} /\ answer = NoRoute
        \/ AtGoal(grid, goal, search) /\ answer = Backtrack(search, start, goal)
    BY <2>1 DEF RunFollowed
  <2>5. r[k] = search
    BY <1>2, <2>1, <2>2, <2>4, RoomCall, RunStays
  <2>6. search.open = {} => ~ AtGoal(grid, goal, search)
    BY DEF AtGoal
  <2> QED
    BY <2>3, <2>4, <2>5, <2>6
<1> QED
  BY <1>1, <1>2

\* An empty heap means that no ring holds the goal.
LEMMA EmptyHeapMeansNoWay ==
  ASSUME PInv, ~ Trivial(grid, extra, start, goal), search.open = {}
  PROVE  goal \notin Ball(start)[Cardinality(Room)]
<1> SUFFICES ASSUME goal \in Ball(start)[Cardinality(Room)] PROVE FALSE
  OBVIOUS
<1> DEFINE N == Cardinality(Room)
           b == Ball(start)
<1>1. Call(grid, extra, start, goal, b, N)
  BY RoomCall DEF PInv
<1>2. SearchFits(grid, extra, start, goal, b, search)
  BY SearchIsFit
<1>3. N \in 0 .. N /\ goal \in b[N]
  BY <1>1 DEF Call
<1> HIDE DEF N, b
<1>4. \/ \E l \in search.labels : l.cell = goal /\ goal \in search.closed /\ l.cost <= N
      \/ \E l \in search.labels : l.cell \notin search.closed /\ l.cost + Manhattan(l.cell, goal) <= N
  BY <1>1, <1>2, <1>3, Frontier
<1>5. goal \notin search.closed
  BY <1>2 DEF SearchFits, ClosedFits
<1>6. \A l \in search.labels : l.cell \in search.closed
  BY <1>2 DEF SearchFits, HeapFits
<1> QED
  BY <1>4, <1>5, <1>6

\* The goal on top of the heap means a shortest route.
LEMMA GoalMeansShortest ==
  ASSUME PInv, ~ Trivial(grid, extra, start, goal), AtGoal(grid, goal, search)
  PROVE  LET r == Backtrack(search, start, goal)
         IN  /\ IsRoute(grid, extra, start, goal, r)
             /\ goal \in Ball(start)[Cardinality(Room)]
             /\ \A n \in 0 .. Len(r) - 1 : goal \notin Ball(start)[n]
<1> DEFINE N == Cardinality(Room)
           b == Ball(start)
           r == Backtrack(search, start, goal)
<1>1. Call(grid, extra, start, goal, b, N)
  BY RoomCall DEF PInv
<1>2. SearchFits(grid, extra, start, goal, b, search)
  BY SearchIsFit
<1>3. search.open # {} /\ Top(grid, search).cell = goal /\ goal \notin search.closed
  BY DEF AtGoal
<1> HIDE DEF N, b
<1>4. PICK l \in search.labels : l.cell = goal
  BY <1>1, <1>2, <1>3, TopFits
<1>5. IsRoute(grid, extra, start, goal, r) /\ Len(r) = l.cost
  BY <1>1, <1>2, <1>4, BacktrackIsRoute
<1>6. \A n \in 0 .. l.cost - 1 : goal \notin b[n]
  BY <1>1, <1>2, <1>3, <1>4, PoppedIsFinal
<1>7. goal \in b[N]
  <2>1. goal \in b[l.cost]
    BY <1>2, <1>4 DEF SearchFits, RingsFit
  <2>2. N \in Nat /\ IsRings(b, grid, extra, start, N)
    BY <1>1 DEF Call
  <2>3. l.cost \in 0 .. N /\ N \in l.cost .. N
    BY <1>1, <1>2, <2>2, CostsBounded
  <2>4. b[l.cost] \subseteq b[N]
    BY <2>2, <2>3, RingsGrow
  <2> QED
    BY <2>1, <2>4
<1> HIDE DEF r
<1>8. \A n \in 0 .. Len(r) - 1 : goal \notin b[n]
  BY <1>5, <1>6
<1> QED
  BY <1>5, <1>7, <1>8 DEF r, N, b

\* A* answers with a shortest route, or with none exactly when there is none.
THEOREM AnswersAreShortest == Spec => []ShortestAnswer
<1>1. PInv => ShortestAnswer
  <2> SUFFICES ASSUME PInv, done PROVE ShortestAnswer
    BY DEF ShortestAnswer
  <2> DEFINE N == Cardinality(Room)
             reachable == /\ ~ Blocked(grid, start) /\ goal \in OpenCells
                          /\ goal \in Ball(start)[N]
             Shortest == IF reachable
                         THEN /\ IsRoute(grid, extra, start, goal, answer)
                              /\ \A n \in 0 .. Len(answer) - 1 : goal \notin Ball(start)[n]
                         ELSE answer = NoRoute
  <2>1. answer = astar(grid, extra, start, goal)
    BY AnswerIsAstar
  <2>2. ASSUME start # goal PROVE Shortest
    <3>1. CASE Trivial(grid, extra, start, goal)
      <4>1. answer = NoRoute
        BY <2>2, <3>1 DEF PInv, TrivialAnswer
      <4>2. ~ reachable
        BY <2>2, <3>1 DEF Trivial, OpenCells, Floor
      <4> QED
        BY <4>1, <4>2
    <3>2. CASE ~ Trivial(grid, extra, start, goal)
      <4>1. ~ Blocked(grid, start) /\ goal \in OpenCells
        <5>1. goal \in Cells(grid)
          BY <3>2 DEF Trivial, Blocked
        <5> QED
          BY <3>2, <5>1 DEF Trivial, OpenCells, Floor
      <4>2. \/ search.open = {} /\ answer = NoRoute
            \/ AtGoal(grid, goal, search) /\ answer = Backtrack(search, start, goal)
        BY <3>2 DEF PInv, RunFollowed
      <4>3. CASE search.open = {} /\ answer = NoRoute
        BY <3>2, <4>3, EmptyHeapMeansNoWay
      <4>4. CASE AtGoal(grid, goal, search) /\ answer = Backtrack(search, start, goal)
        BY <3>2, <4>1, <4>4, GoalMeansShortest
      <4> QED
        BY <4>2, <4>3, <4>4
    <3> QED
      BY <3>1, <3>2
  <2> QED
    BY <2>1, <2>2 DEF ShortestAnswer
<1> QED
  BY <1>1, PInvHolds, PTL
=============================================================================
