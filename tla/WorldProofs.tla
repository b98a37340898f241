----------------------------- MODULE WorldProofs -----------------------------
(***************************************************************************)
(* Theorems about World, for every roster, every set of maps and layouts   *)
(* and every path finder that returns only routes (RouteAssumption).       *)
(***************************************************************************)
EXTENDS World, FiniteSetTheorems, SequenceTheorems, TLAPS

-----------------------------------------------------------------------------
(* Lemmas about the geometry and about routes. *)

\* A tile of the map or of its collision grid is a cell; door tiles are
\* places to stand.
LEMMA StandableCells ==
  ASSUME NEW m \in Maps, NEW l \in Layouts
  PROVE  /\ Standable(m, l) \subseteq Cell
         /\ DoorTiles(m) \subseteq Standable(m, l)
<1> DEFINE g == CollisionGrid(m, l)
<1>1. m \in TileMap
  BY GeometryAssumption
<1>2. g.width = m.width /\ g.height = m.height
  BY <1>1 DEF CollisionGrid, TileMap
<1>3. Floor(m) \subseteq Cell
  BY <1>1 DEF Floor, Cells, Cell, TileMap
<1>4. Floor(g) \subseteq Cell
  BY <1>1, <1>2 DEF Floor, Cells, Cell, TileMap
<1> QED
  BY <1>3, <1>4 DEF Standable, DoorTiles

\* The anchor of every item is a cell.
LEMMA AnchorsAreCells ==
  ASSUME NEW l \in Layouts
  PROVE  AnchorCells(l) \subseteq Cell
<1>1. l \in Seq(Item)
  BY GeometryAssumption
<1>2. \A i \in DOMAIN l : l[i].x \in Int /\ l[i].y \in Int
  <2>1. \A i \in DOMAIN l : l[i] \in Item
    BY <1>1, ElementOfSeq, LenProperties
  <2> QED
    BY <2>1 DEF Item
<1> QED
  BY <1>2 DEF AnchorCells, Cell

\* The roster built for a layout that resolves seats everyone at an item.
LEMMA ChairsType ==
  ASSUME NEW l \in Resolving
  PROVE  ChairsOf(l) \in [Agent -> AnchorCells(l)]
<1>1. ASSUME NEW a \in Agent
      PROVE  \E c \in AnchorCells(l) : c \in SeatOfDesk(l, DeskId[a])
  <2>1. SeatOfDesk(l, DeskId[a]) # {}
    BY DEF Resolving
  <2>2. SeatOfDesk(l, DeskId[a]) \subseteq AnchorCells(l)
    BY DEF SeatOfDesk, AnchorCells, First
  <2> QED
    BY <2>1, <2>2
<1> QED
  BY <1>1 DEF ChairsOf

\* A roster never gives one chair to two agents.
LEMMA ChairsAreOwn ==
  ASSUME NEW l \in Resolving, NEW a \in Agent, NEW b \in Agent, ChairsOf(l)[a] = ChairsOf(l)[b]
  PROVE  a = b
<1>1. \A c \in Agent : ChairsOf(l)[c] \in SeatOfDesk(l, DeskId[c])
  <2> SUFFICES ASSUME NEW c \in Agent PROVE ChairsOf(l)[c] \in SeatOfDesk(l, DeskId[c])
    OBVIOUS
  <2>1. SeatOfDesk(l, DeskId[c]) # {}
    BY DEF Resolving
  <2>2. SeatOfDesk(l, DeskId[c]) \subseteq AnchorCells(l)
    BY DEF SeatOfDesk, AnchorCells, First
  <2> QED
    BY <2>1, <2>2 DEF ChairsOf
<1> QED
  BY <1>1 DEF Resolving

\* Every agent has an arrival time.
LEMMA ArrivalType ==
  ASSUME NEW names \in [Agent -> Names]
  PROVE  ArrivalSec(names) \in [Agent -> Nat]
<1>1. ASSUME NEW a \in Agent
      PROVE  Cardinality({b \in Specialist : names[b] < names[a]}) \in Nat
  <2>1. IsFiniteSet({b \in Specialist : names[b] < names[a]})
    BY ScheduleAssumption, FS_Subset
  <2> QED
    BY <2>1, FS_CardinalityType
<1>2. ASSUME NEW a \in Agent, NEW n \in Nat
      PROVE  FirstSpecialistSec + StaggerSec * n \in Nat
  BY ScheduleAssumption
<1> QED
  BY <1>1, <1>2, ScheduleAssumption DEF ArrivalSec

\* A route round somebody is a route.
LEMMA RouteWithoutCrowd ==
  ASSUME NEW g, NEW crowd, NEW from, NEW to, NEW r, IsRoute(g, crowd, from, to, r)
  PROVE  IsRoute(g, {}, from, to, r)
BY DEF IsRoute

\* After its first step, the rest of a route is a route from there.
LEMMA RouteTail ==
  ASSUME NEW g, NEW from, NEW to, NEW r, IsRoute(g, {}, from, to, r), r # <<>>
  PROVE  /\ Head(r) \in Neighbors(from) /\ ~ Blocked(g, Head(r))
         /\ Head(r) \in Cell
         /\ IsRoute(g, {}, Head(r), to, Tail(r))
         /\ Tail(r) = <<>> => Head(r) = to
<1>1. r \in Seq(Cell) /\ Len(r) \in Nat /\ Len(r) >= 1 /\ Head(r) = r[1]
  BY DEF IsRoute
<1> DEFINE t == Tail(r)
<1>2. /\ t \in Seq(Cell) /\ Len(t) \in Nat /\ Len(t) = Len(r) - 1
      /\ \A i \in 1 .. Len(t) : t[i] = r[i + 1]
  BY <1>1
<1> HIDE DEF t
<1>3. /\ r[Len(r)] = to
      /\ \A i \in 1 .. Len(r) :
           /\ ~ Blocked(g, r[i])
           /\ r[i] \in Neighbors(IF i = 1 THEN from ELSE r[i - 1])
           /\ r[i] = to => i = Len(r)
  BY <1>1 DEF IsRoute
<1>4. Head(r) \in Neighbors(from) /\ ~ Blocked(g, Head(r)) /\ Head(r) \in Cell
  BY <1>1, <1>3
<1>5. t = <<>> <=> Head(r) = to
  <2>1. t = <<>> <=> Len(t) = 0
    BY <1>2, EmptySeq
  <2>2. Head(r) = to <=> Len(r) = 1
    <3>1. 1 \in 1 .. Len(r)
      BY <1>1
    <3>2. r[1] = to => 1 = Len(r)
      BY <3>1, <1>3
    <3>3. Len(r) = 1 => r[1] = to
      BY <1>3
    <3> QED
      BY <3>2, <3>3, <1>1
  <2> QED
    BY <2>1, <2>2, <1>1, <1>2
<1>6. t # <<>> => t[Len(t)] = to
  <2> SUFFICES ASSUME t # <<>> PROVE t[Len(t)] = to
    OBVIOUS
  <2>1. Len(t) \in 1 .. Len(t) /\ Len(t) + 1 = Len(r)
    BY <1>1, <1>2, EmptySeq
  <2> QED
    BY <2>1, <1>2, <1>3
<1>7. ASSUME NEW i \in 1 .. Len(t)
      PROVE  /\ ~ Blocked(g, t[i])
             /\ t[i] \in Neighbors(IF i = 1 THEN Head(r) ELSE t[i - 1])
             /\ t[i] = to => i = Len(t)
  <2>1. i + 1 \in 1 .. Len(r) /\ i + 1 # 1 /\ t[i] = r[i + 1] /\ (i + 1) - 1 = i
    BY <1>1, <1>2
  <2>2. (IF i = 1 THEN Head(r) ELSE t[i - 1]) = r[i]
    <3>1. CASE i = 1
      BY <3>1, <1>1
    <3>2. CASE i # 1
      <4>1. i - 1 \in 1 .. Len(t) /\ (i - 1) + 1 = i
        BY <3>2, <1>2
      <4> QED
        BY <4>1, <3>2, <1>2
    <3> QED
      BY <3>1, <3>2
  <2>3. /\ ~ Blocked(g, r[i + 1])
        /\ r[i + 1] \in Neighbors(r[i])
        /\ r[i + 1] = to => i + 1 = Len(r)
    BY <2>1, <1>3
  <2>4. t[i] \in Neighbors(IF i = 1 THEN Head(r) ELSE t[i - 1])
    BY <2>1, <2>2, <2>3
  <2>5. t[i] = to => i = Len(t)
    BY <2>1, <2>3, <1>1, <1>2
  <2> QED
    BY <2>1, <2>3, <2>4, <2>5
<1>8. IsRoute(g, {}, Head(r), to, t)
  BY <1>2, <1>4, <1>5, <1>6, <1>7 DEF IsRoute
<1> QED
  BY <1>2, <1>4, <1>5, <1>8 DEF t

-----------------------------------------------------------------------------
(* The inductive invariant. *)

\* The roster, the grid and the chairs are those of the current map and layout.
Current ==
  layout \in Resolving /\ grid = CollisionGrid(map, layout) /\ chair = ChairsOf(layout)

\* Who is on the floor stands where one can stand, who sits sits in the chair, and
\* who is reported unreachable has no way to it.
Placed ==
  \A a \in Agent : /\ spawned[a] => pos[a] \in Standable(map, layout)
                   /\ status[a] = "seated" => pos[a] = chair[a] /\ ~ Blocked(grid, pos[a])
                   /\ status[a] = "stuck_unreachable" =>
                        Route(grid, {}, pos[a], chair[a]) = NoRoute

\* A tick runs in a running world, and its loops have only those ahead whom
\* they are for.
TodoAhead ==
  /\ phase # "idle" => mode = "running"
  /\ phase = "spawn" => \A a \in todo : ~ spawned[a] /\ spawnSec[a] <= clock
  /\ phase = "move" => \A a \in todo : status[a] = "walking"

IInv ==
  /\ TypeOK /\ Current /\ Placed /\ TodoAhead
  /\ NobodyVanishes /\ PathsLeadHome /\ OccupiedExact /\ NoSharedTile

-----------------------------------------------------------------------------
(* What the path finder gives in a state of the world. *)

\* An empty office and the others on the floor are crowds the contract covers.
LEMMA NobodyIsACrowd ==
  ASSUME NEW m, NEW l, NEW a \in Agent
  PROVE  {} \in Crowds(m, l)
<1> DEFINE p == [b \in {} |-> b]
<1>1. {} \in (SUBSET Agent) \ {Agent} /\ p \in [{} -> Standable(m, l)]
  OBVIOUS
<1>2. {} = {p[b] : b \in {}}
  OBVIOUS
<1>3. {} \in TilesOf(m, l, {})
  BY <1>1, <1>2 DEF TilesOf
<1> QED
  BY <1>1, <1>3 DEF Crowds

\* The tiles of everyone but one agent on the floor are a crowd the contract covers.
LEMMA OthersAreACrowd ==
  ASSUME IInv, phase = "move", NEW a \in Agent, spawned[a]
  PROVE  occupied \ {pos[a]} \in Crowds(map, layout)
<1> DEFINE others == OnFloor \ {a}
           p == [b \in others |-> pos[b]]
<1>1. others \in (SUBSET Agent) \ {Agent} /\ p \in [others -> Standable(map, layout)]
  BY DEF IInv, Placed, OnFloor
<1>2. occupied = {pos[b] : b \in OnFloor}
  BY DEF IInv, OccupiedExact
<1>3. \A b \in OnFloor : b # a => pos[b] # pos[a]
  BY DEF IInv, NoSharedTile, OnFloor
<1>4. occupied \ {pos[a]} = {p[b] : b \in others}
  BY <1>2, <1>3
<1>5. occupied \ {pos[a]} \in TilesOf(map, layout, others)
  BY <1>1, <1>4 DEF TilesOf
<1> HIDE DEF others
<1> QED
  BY <1>1, <1>5 DEF Crowds

\* The path finder's answer is a route home over the current grid.
LEMMA AnswerIsRoute ==
  ASSUME TypeOK, Current, NEW a \in Agent, NEW from \in Standable(map, layout),
         NEW crowd \in Crowds(map, layout), NEW r,
         r = Route(grid, crowd, from, chair[a]), r # NoRoute
  PROVE  IsRoute(grid, {}, from, chair[a], r)
<1>1. map \in Maps /\ layout \in Layouts
  BY DEF TypeOK
<1>2. chair[a] \in AnchorCells(layout)
  BY ChairsType DEF Current
<1>3. IsRoute(grid, crowd, from, chair[a], r)
  BY <1>1, <1>2, RouteAssumption DEF Current
<1> QED
  BY <1>3, RouteWithoutCrowd

\* A walker has the path it needs: the defensive re-path of world.rs:502-512
\* never changes it.
LEMMA PathIsKept ==
  ASSUME IInv, NEW a \in Agent, status[a] = "walking"
  PROVE  PathNow(a) = path[a] /\ IsRoute(grid, {}, pos[a], chair[a], path[a])
<1>1. IsRoute(grid, {}, pos[a], chair[a], path[a])
  BY DEF IInv, PathsLeadHome
<1>2. CASE path[a] # <<>>
  BY <1>1, <1>2 DEF PathNow
<1>3. CASE path[a] = <<>>
  <2> DEFINE r == Route(grid, {}, pos[a], chair[a])
  <2>1. pos[a] = chair[a]
    BY <1>1, <1>3 DEF IsRoute
  <2>2. pos[a] \in Standable(map, layout)
    BY DEF IInv, Placed, NobodyVanishes
  <2>3. r # NoRoute => IsRoute(grid, {}, pos[a], chair[a], r)
    BY <2>2, NobodyIsACrowd, AnswerIsRoute DEF IInv
  <2>4. r # NoRoute => r = <<>>
    BY <2>1, <2>3 DEF IsRoute
  <2> QED
    BY <1>1, <1>3, <2>4 DEF PathNow
<1> QED
  BY <1>2, <1>3

-----------------------------------------------------------------------------
(* The invariant holds at first and every step keeps it. *)

\* The world as loaded: nobody on the floor, everything derived from its own files.
LEMMA InitIInv == Init => IInv
<1> SUFFICES ASSUME Init PROVE IInv
  OBVIOUS
<1> USE DEF Init
<1>1. layout \in Layouts
  BY DEF Resolving
<1>2. chair \in [Agent -> Cell]
  BY <1>1, ChairsType, AnchorsAreCells
<1>3. InitialName \in [Agent -> Names] /\ spawnSec \in [Agent -> Nat]
  BY ScheduleAssumption, ArrivalType
<1>4. simDay \in 0 .. DayCap - 1 /\ clock \in 0 .. DaySecs - 1 /\ mapRev \in 1 .. MaxMapRev
  BY ScheduleAssumption
<1>5. TypeOK
  BY <1>1, <1>2, <1>3, <1>4, ScheduleAssumption DEF TypeOK, Modes, Statuses
<1>6. Current
  BY DEF Current
<1>7. Placed /\ TodoAhead /\ NobodyVanishes /\ PathsLeadHome /\ OccupiedExact /\ NoSharedTile
  BY DEF Placed, TodoAhead, NobodyVanishes, PathsLeadHome, OccupiedExact, NoSharedTile, OnFloor
<1> QED
  BY <1>5, <1>6, <1>7 DEF IInv

\* Steps that move nobody and leave the tick's own variables alone.
LEMMA TimeControlIInv ==
  ASSUME IInv, Pause \/ Resume \/ \E s \in Speeds : SetSpeed(s)
  PROVE  IInv'
<1>1. /\ UNCHANGED <<clock, simDay, mapRev, placeVars, rosterVars, walkVars, tickVars, eventVars>>
      /\ phase = "idle"
  BY DEF Pause, Resume, SetSpeed
<1>2. mode' \in Modes /\ speed' \in {1, 2, 5}
  BY DEF Pause, Resume, SetSpeed, IInv, TypeOK, Modes
<1> USE DEF placeVars, rosterVars, walkVars, tickVars, eventVars
<1>3. TypeOK'
  BY <1>1, <1>2 DEF IInv, TypeOK
<1>4. Current' /\ Placed' /\ TodoAhead'
  BY <1>1 DEF IInv, Current, Placed, TodoAhead
<1>5. NobodyVanishes' /\ PathsLeadHome' /\ OccupiedExact' /\ NoSharedTile'
  BY <1>1 DEF IInv, NobodyVanishes, PathsLeadHome, OccupiedExact, NoSharedTile, OnFloor
<1> QED
  BY <1>3, <1>4, <1>5 DEF IInv

\* A rename touches neither the floor nor what the roster was built from.
LEMMA PatchAgentIInv ==
  ASSUME IInv, NEW a \in Agent, NEW n \in Names, PatchAgent(a, n)
  PROVE  IInv'
<1>1. UNCHANGED <<worldVars, placeVars, rosterKey, chair, spawnSec, walkVars, tickVars, stuckNote>>
  BY DEF PatchAgent
<1> USE DEF worldVars, placeVars, walkVars, tickVars
<1>2. name' \in [Agent -> Names]
  BY DEF PatchAgent, IInv, TypeOK
<1>3. shown' \in [Agent -> [status : Statuses, pos : Cell]]
  BY DEF PatchAgent, IInv, TypeOK
<1>4. TypeOK'
  BY <1>1, <1>2, <1>3 DEF IInv, TypeOK
<1>5. Current' /\ Placed' /\ TodoAhead'
  BY <1>1 DEF IInv, Current, Placed, TodoAhead
<1>6. NobodyVanishes' /\ PathsLeadHome' /\ OccupiedExact' /\ NoSharedTile'
  BY <1>1 DEF IInv, NobodyVanishes, PathsLeadHome, OccupiedExact, NoSharedTile, OnFloor
<1> QED
  BY <1>4, <1>5, <1>6 DEF IInv

\* After a restart of the day nobody is on the floor, so an edit only has to
\* make grid and chairs those of the new map and layout.
LEMMA EditIInv ==
  ASSUME IInv, phase = "idle", ResetToDayStart, Current',
         map' \in Maps, mapRev' \in 1 .. MaxMapRev,
         UNCHANGED rosterVars \/ \E l \in Layouts : RebuildRoster(l)
  PROVE  IInv'
<1> USE DEF ResetToDayStart, tickVars
<1>1. layout' \in Layouts /\ chair' \in [Agent -> Cell]
  BY ChairsType, AnchorsAreCells DEF Current, Resolving
<1>2. /\ name' \in [Agent -> Names] /\ rosterKey' \in [Agent -> Names]
      /\ spawnSec' \in [Agent -> Nat]
  BY ArrivalType DEF rosterVars, RebuildRoster, IInv, TypeOK
<1>3. clock' \in 0 .. DaySecs - 1 /\ mode' \in Modes
  BY ScheduleAssumption DEF Modes
<1>4. /\ status' \in [Agent -> Statuses] /\ spawned' \in [Agent -> BOOLEAN]
      /\ path' \in [Agent -> Seq(Cell)] /\ pos' \in [Agent -> Cell]
      /\ stall' \in [Agent -> 0 .. RerouteAfterTicks - 1]
      /\ rerouteFails' \in [Agent -> 0 .. StuckRerouteStreak - 1]
  BY ScheduleAssumption DEF Statuses, IInv, TypeOK
<1>5. shown' \in [Agent -> [status : Statuses, pos : Cell]]
  BY DEF Statuses, IInv, TypeOK
<1>6. TypeOK'
  BY <1>1, <1>2, <1>3, <1>4, <1>5 DEF IInv, TypeOK
<1>7. Placed' /\ TodoAhead'
  BY DEF Placed, TodoAhead
<1>8. NobodyVanishes' /\ PathsLeadHome' /\ OccupiedExact' /\ NoSharedTile'
  BY DEF NobodyVanishes, PathsLeadHome, OccupiedExact, NoSharedTile, OnFloor
<1> QED
  BY <1>6, <1>7, <1>8 DEF IInv

\* A new map keeps the layout, and with it every chair.
LEMMA ReplaceMapIInv ==
  ASSUME IInv, NEW m \in Maps, ReplaceMap(m)
  PROVE  IInv'
<1>1. Current'
  BY DEF ReplaceMap, IInv, Current, rosterVars
<1>2. mapRev' \in 1 .. MaxMapRev
  BY ScheduleAssumption DEF ReplaceMap, IInv, TypeOK
<1> QED
  BY <1>1, <1>2, EditIInv DEF ReplaceMap

\* A new layout gives everyone a chair of that layout.
LEMMA ReplaceLayoutIInv ==
  ASSUME IInv, NEW l \in Layouts, ReplaceLayout(l)
  PROVE  IInv'
<1>1. Current'
  BY DEF ReplaceLayout, RebuildRoster, Current
<1>2. mapRev' \in 1 .. MaxMapRev /\ map' \in Maps
  BY DEF ReplaceLayout, IInv, TypeOK
<1> QED
  BY <1>1, <1>2, EditIInv DEF ReplaceLayout

\* Both at once: validated against each other, never against what they replace.
LEMMA ReplaceMapAndLayoutIInv ==
  ASSUME IInv, NEW m \in Maps, NEW l \in Layouts, ReplaceMapAndLayout(m, l)
  PROVE  IInv'
<1>1. Current'
  BY DEF ReplaceMapAndLayout, RebuildRoster, Current
<1>2. mapRev' \in 1 .. MaxMapRev
  BY ScheduleAssumption DEF ReplaceMapAndLayout, IInv, TypeOK
<1> QED
  BY <1>1, <1>2, EditIInv DEF ReplaceMapAndLayout

-----------------------------------------------------------------------------
(* The steps of a tick. *)

\* The tick starts with the exact set of occupied tiles and queues only the due.
LEMMA BeginTickIInv ==
  ASSUME IInv, BeginTick
  PROVE  IInv'
<1> USE DEF BeginTick, placeVars, rosterVars, walkVars
<1>1. NewTime \in Nat
  BY ScheduleAssumption DEF IInv, TypeOK, NewTime
<1>2. NewClock \in 0 .. DaySecs - 1
  BY <1>1, ScheduleAssumption DEF NewClock
<1>3. (simDay + NewTime \div DaySecs) % DayCap \in 0 .. DayCap - 1
  <2>1. NewTime \div DaySecs \in Nat
    BY <1>1, ScheduleAssumption
  <2> QED
    BY <2>1, ScheduleAssumption DEF IInv, TypeOK
<1>4. occupied' \in SUBSET Cell /\ todo' \in SUBSET Agent /\ stuckNote' \in SUBSET Agent
  BY DEF IInv, TypeOK, OnFloor, Due
<1>5. TypeOK'
  BY <1>2, <1>3, <1>4 DEF IInv, TypeOK
<1>6. Current' /\ Placed'
  BY DEF IInv, Current, Placed
<1>7. TodoAhead'
  BY DEF TodoAhead, Due
<1>8. NobodyVanishes' /\ PathsLeadHome' /\ NoSharedTile' /\ OccupiedExact'
  BY DEF IInv, NobodyVanishes, PathsLeadHome, NoSharedTile, OccupiedExact, OnFloor
<1> QED
  BY <1>5, <1>6, <1>7, <1>8 DEF IInv

\* Steps that only turn the phase or pass over an agent.
LEMMA PassingIInv ==
  ASSUME IInv, StartMoves \/ EndTick \/ \E a \in Agent : WaitOutside(a) \/ StayPut(a)
  PROVE  IInv'
<1>1. UNCHANGED <<worldVars, placeVars, rosterVars, walkVars, eventVars>>
  BY DEF StartMoves, EndTick, WaitOutside, StayPut
<1> USE DEF worldVars, placeVars, rosterVars, walkVars, eventVars
<1>2. /\ phase' \in {"idle", "spawn", "move"}
      /\ todo' \in SUBSET Agent /\ occupied' \in SUBSET Cell
      /\ phase' # "idle" => phase # "idle" /\ occupied' = occupied
  BY DEF StartMoves, EndTick, WaitOutside, StayPut, Turn, OnFloor, IInv, TypeOK
<1>3. TypeOK'
  BY <1>1, <1>2 DEF IInv, TypeOK
<1>4. Current' /\ Placed'
  BY <1>1 DEF IInv, Current, Placed
<1>5. TodoAhead'
  BY <1>1 DEF StartMoves, EndTick, WaitOutside, StayPut, Turn, IInv, TodoAhead
<1>6. NobodyVanishes' /\ PathsLeadHome' /\ NoSharedTile' /\ OccupiedExact'
  BY <1>1, <1>2 DEF IInv, NobodyVanishes, PathsLeadHome, NoSharedTile, OccupiedExact, OnFloor
<1> QED
  BY <1>3, <1>4, <1>5, <1>6 DEF IInv

\* Both ways of entering put one more agent on a tile nobody holds.
LEMMA EnterAtKeepsTiles ==
  ASSUME IInv, NEW a \in Agent, NEW door \in FreeDoors, NEW newStatus,
         Turn("spawn", a), EnterAt(a, door, newStatus),
         newStatus \in {"walking", "stuck_unreachable"},
         newStatus = "stuck_unreachable" => Route(grid, {}, door, chair[a]) = NoRoute
  PROVE  /\ door \in Standable(map, layout) /\ door \in Cell
         /\ Current' /\ Placed' /\ TodoAhead'
         /\ NobodyVanishes' /\ NoSharedTile' /\ OccupiedExact'
         /\ occupied' \in SUBSET Cell
<1> USE DEF EnterAt, Turn, worldVars, placeVars, rosterVars
<1>1. door \in Standable(map, layout) /\ door \in Cell /\ door \notin occupied
  BY StandableCells DEF FreeDoors, IInv, TypeOK
<1>2. /\ ~ spawned[a] /\ status[a] = "commuting"
      /\ phase = "spawn" /\ occupied = {pos[b] : b \in OnFloor}
  BY DEF IInv, TodoAhead, NobodyVanishes, OccupiedExact
<1>3. Current'
  BY DEF IInv, Current
<1>4. Placed'
  BY <1>1 DEF IInv, TypeOK, Placed
<1>5. TodoAhead'
  BY DEF IInv, TypeOK, TodoAhead
<1>6. NobodyVanishes'
  BY DEF IInv, TypeOK, NobodyVanishes
<1>7. NoSharedTile'
  BY <1>1, <1>2 DEF IInv, TypeOK, NoSharedTile, OnFloor
<1>8. OccupiedExact'
  BY <1>2 DEF IInv, TypeOK, OccupiedExact, OnFloor
<1>9. occupied' \in SUBSET Cell
  BY <1>1 DEF IInv, TypeOK
<1> QED
  BY <1>1, <1>3, <1>4, <1>5, <1>6, <1>7, <1>8, <1>9

\* Who enters with a way home walks along it from a door tile nobody holds.
LEMMA EnterIInv ==
  ASSUME IInv, NEW a \in Agent, Enter(a)
  PROVE  IInv'
<1>1. PICK door \in FreeDoors :
        LET route == Route(grid, {}, door, chair[a])
        IN  /\ IsFirst(door, FreeDoors) /\ route # NoRoute
            /\ EnterAt(a, door, "walking")
            /\ path' = [path EXCEPT ![a] = route]
            /\ stall' = [stall EXCEPT ![a] = 0]
            /\ rerouteFails' = [rerouteFails EXCEPT ![a] = 0]
            /\ shown' = [shown EXCEPT ![a] = [status |-> "walking", pos |-> door]]
  BY DEF Enter
<1> DEFINE route == Route(grid, {}, door, chair[a])
<1>2. Turn("spawn", a)
  BY DEF Enter
<1>3. /\ door \in Standable(map, layout) /\ door \in Cell
      /\ Current' /\ Placed' /\ TodoAhead'
      /\ NobodyVanishes' /\ NoSharedTile' /\ OccupiedExact'
      /\ occupied' \in SUBSET Cell
  BY <1>1, <1>2, EnterAtKeepsTiles
<1>4. IsRoute(grid, {}, door, chair[a], route)
  BY <1>1, <1>3, NobodyIsACrowd, AnswerIsRoute DEF IInv
<1>5. route \in Seq(Cell)
  BY <1>4 DEF IsRoute
<1> HIDE DEF route
<1>6. path' = [path EXCEPT ![a] = route]
  BY <1>1 DEF route
<1>7. TypeOK'
  BY <1>1, <1>2, <1>3, <1>5, <1>6, ScheduleAssumption
  DEF EnterAt, Turn, worldVars, placeVars, rosterVars, IInv, TypeOK, Statuses
<1>8. PathsLeadHome'
  BY <1>1, <1>4, <1>6 DEF EnterAt, placeVars, rosterVars, IInv, TypeOK, PathsLeadHome
<1> QED
  BY <1>3, <1>7, <1>8 DEF IInv

\* Who enters without a way home is reported, and holds its door tile.
LEMMA EnterStrandedIInv ==
  ASSUME IInv, NEW a \in Agent, EnterStranded(a)
  PROVE  IInv'
<1>1. PICK door \in FreeDoors : /\ EnterAt(a, door, "stuck_unreachable")
                               /\ Route(grid, {}, door, chair[a]) = NoRoute
  BY DEF EnterStranded
<1>2. /\ Turn("spawn", a) /\ UNCHANGED <<path, stall, rerouteFails>>
      /\ shown' = [shown EXCEPT ![a].status = "stuck_unreachable"]
  BY DEF EnterStranded
<1>3. /\ door \in Standable(map, layout) /\ door \in Cell
      /\ Current' /\ Placed' /\ TodoAhead'
      /\ NobodyVanishes' /\ NoSharedTile' /\ OccupiedExact'
      /\ occupied' \in SUBSET Cell
  BY <1>1, <1>2, EnterAtKeepsTiles
<1>4. TypeOK'
  BY <1>1, <1>2, <1>3, ZenonT(30)
  DEF EnterAt, Turn, worldVars, placeVars, rosterVars, IInv, TypeOK, Statuses
<1>5. PathsLeadHome'
  BY <1>1, <1>2 DEF EnterAt, placeVars, rosterVars, IInv, TypeOK, PathsLeadHome
<1> QED
  BY <1>3, <1>4, <1>5 DEF IInv

\* Who has a turn in the second loop walks, and is on the floor.
LEMMA MoverWalks ==
  ASSUME IInv, NEW a \in Agent, Turn("move", a)
  PROVE  /\ phase = "move" /\ status[a] = "walking" /\ spawned[a]
         /\ pos[a] \in Standable(map, layout)
         /\ occupied = {pos[b] : b \in OnFloor}
<1>1. phase = "move" /\ status[a] = "walking"
  BY DEF Turn, IInv, TodoAhead
<1>2. spawned[a]
  BY <1>1 DEF IInv, NobodyVanishes
<1> QED
  BY <1>1, <1>2 DEF IInv, Placed, OccupiedExact

\* A blocked agent does not move and ends with a way home as its path.
LEMMA BlockedIInv ==
  ASSUME IInv, NEW a \in Agent, Turn("move", a), NEW r,
         IsRoute(grid, {}, pos[a], chair[a], r),
         path' = [path EXCEPT ![a] = r],
         stall' \in [Agent -> 0 .. RerouteAfterTicks - 1],
         rerouteFails' \in [Agent -> 0 .. StuckRerouteStreak - 1],
         stuckNote' \in SUBSET Agent,
         UNCHANGED <<worldVars, placeVars, rosterVars, spawned, status, pos, occupied, shown>>
  PROVE  IInv'
<1> USE DEF Turn, worldVars, placeVars, rosterVars
<1>1. r \in Seq(Cell)
  BY DEF IsRoute
<1>2. TypeOK'
  BY <1>1 DEF IInv, TypeOK
<1>3. Current' /\ Placed' /\ TodoAhead'
  BY DEF IInv, Current, Placed, TodoAhead
<1>4. PathsLeadHome'
  BY DEF IInv, TypeOK, PathsLeadHome
<1>5. NobodyVanishes' /\ NoSharedTile' /\ OccupiedExact'
  BY DEF IInv, NobodyVanishes, NoSharedTile, OccupiedExact, OnFloor
<1> QED
  BY <1>2, <1>3, <1>4, <1>5 DEF IInv

\* Waiting keeps the path.
LEMMA WaitIInv ==
  ASSUME IInv, NEW a \in Agent, Wait(a)
  PROVE  IInv'
<1>1. Turn("move", a)
  BY DEF Wait
<1>2. IsRoute(grid, {}, pos[a], chair[a], PathNow(a))
  BY <1>1, MoverWalks, PathIsKept
<1>3. /\ path' = [path EXCEPT ![a] = PathNow(a)]
      /\ UNCHANGED <<worldVars, placeVars, rosterVars, spawned, status, pos, occupied, shown>>
  BY DEF Wait, eventVars
<1>4. /\ stall' \in [Agent -> 0 .. RerouteAfterTicks - 1]
      /\ rerouteFails' \in [Agent -> 0 .. StuckRerouteStreak - 1]
      /\ stuckNote' \in SUBSET Agent
  BY ScheduleAssumption DEF Wait, eventVars, IInv, TypeOK
<1> QED
  BY <1>1, <1>2, <1>3, <1>4, BlockedIInv

\* The way round leads home as well.
LEMMA RerouteIInv ==
  ASSUME IInv, NEW a \in Agent, Reroute(a)
  PROVE  IInv'
<1>1. Turn("move", a) /\ Detour(a) # NoRoute
  BY DEF Reroute
<1>2. IsRoute(grid, {}, pos[a], chair[a], Detour(a))
  <2>1. /\ phase = "move" /\ spawned[a] /\ pos[a] \in Standable(map, layout)
    BY <1>1, MoverWalks
  <2>2. occupied \ {pos[a]} \in Crowds(map, layout)
    BY <2>1, OthersAreACrowd
  <2> QED
    BY <1>1, <2>1, <2>2, AnswerIsRoute DEF Detour, IInv
<1>3. /\ path' = [path EXCEPT ![a] = Detour(a)]
      /\ UNCHANGED <<worldVars, placeVars, rosterVars, spawned, status, pos, occupied, shown>>
  BY DEF Reroute, eventVars
<1>4. /\ stall' \in [Agent -> 0 .. RerouteAfterTicks - 1]
      /\ rerouteFails' \in [Agent -> 0 .. StuckRerouteStreak - 1]
      /\ stuckNote' \in SUBSET Agent
  BY ScheduleAssumption DEF Reroute, eventVars, IInv, TypeOK
<1> QED
  BY <1>1, <1>2, <1>3, <1>4, BlockedIInv

\* Without a way round the old path stays.
LEMMA BoxedInIInv ==
  ASSUME IInv, NEW a \in Agent, BoxedIn(a)
  PROVE  IInv'
<1>1. Turn("move", a)
  BY DEF BoxedIn
<1>2. IsRoute(grid, {}, pos[a], chair[a], PathNow(a))
  BY <1>1, MoverWalks, PathIsKept
<1>3. /\ path' = [path EXCEPT ![a] = PathNow(a)]
      /\ UNCHANGED <<worldVars, placeVars, rosterVars, spawned, status, pos, occupied, shown>>
  BY DEF BoxedIn
<1>4. FailsNow(a) \in 0 .. StuckRerouteStreak - 1
  BY ScheduleAssumption DEF FailsNow, IInv, TypeOK
<1>5. /\ stall' \in [Agent -> 0 .. RerouteAfterTicks - 1]
      /\ rerouteFails' \in [Agent -> 0 .. StuckRerouteStreak - 1]
      /\ stuckNote' \in SUBSET Agent
  BY <1>4, ScheduleAssumption DEF BoxedIn, IInv, TypeOK
<1> QED
  BY <1>1, <1>2, <1>3, <1>5, BlockedIInv

\* What Advance does, in terms of the path the agent holds.
LEMMA AdvanceSteps ==
  ASSUME IInv, NEW a \in Agent, Advance(a)
  PROVE  LET next == Head(path[a])
             rest == Tail(path[a])
             now  == IF rest = <<>> THEN "seated" ELSE "walking"
         IN  /\ Turn("move", a) /\ next \notin occupied
             /\ next \in Neighbors(pos[a]) /\ next \in Cell
             /\ next \in Standable(map, layout) /\ ~ Blocked(grid, next)
             /\ IsRoute(grid, {}, next, chair[a], rest)
             /\ rest = <<>> => next = chair[a]
             /\ pos' = [pos EXCEPT ![a] = next]
             /\ occupied' = (occupied \ {pos[a]}) \cup {next}
             /\ path' = [path EXCEPT ![a] = rest]
             /\ status' = [status EXCEPT ![a] = now]
<1>1. Turn("move", a)
  BY DEF Advance
<1>2. status[a] = "walking"
  BY <1>1, MoverWalks
<1>3. PathNow(a) = path[a] /\ IsRoute(grid, {}, pos[a], chair[a], path[a]) /\ path[a] # <<>>
  BY <1>2, PathIsKept DEF Advance
<1> DEFINE next == Head(path[a])
           rest == Tail(path[a])
<1>4. /\ next \in Neighbors(pos[a]) /\ ~ Blocked(grid, next) /\ next \in Cell
      /\ IsRoute(grid, {}, next, chair[a], rest)
      /\ rest = <<>> => next = chair[a]
  BY <1>3, RouteTail
<1>5. next \in Standable(map, layout)
  BY <1>4 DEF IInv, Current, Standable, Floor, Blocked
<1> HIDE DEF next, rest
<1>6. /\ next \notin occupied
      /\ pos' = [pos EXCEPT ![a] = next]
      /\ occupied' = (occupied \ {pos[a]}) \cup {next}
      /\ path' = [path EXCEPT ![a] = rest]
      /\ status' = [status EXCEPT ![a] = IF rest = <<>> /\ next = chair[a]
                                         THEN "seated" ELSE status[a]]
  BY <1>3 DEF Advance, Shifted, next, rest
<1>7. (IF rest = <<>> /\ next = chair[a] THEN "seated" ELSE status[a])
        = (IF rest = <<>> THEN "seated" ELSE "walking")
  BY <1>2, <1>4
<1> QED
  BY <1>1, <1>4, <1>5, <1>6, <1>7 DEF next, rest

\* One step along the path: the tile was free, and the rest still leads home.
LEMMA AdvanceIInv ==
  ASSUME IInv, NEW a \in Agent, Advance(a)
  PROVE  IInv'
<1> DEFINE next == Head(path[a])
           rest == Tail(path[a])
           now  == IF rest = <<>> THEN "seated" ELSE "walking"
<1>1. /\ Turn("move", a) /\ next \notin occupied
      /\ next \in Cell /\ next \in Standable(map, layout) /\ ~ Blocked(grid, next)
      /\ IsRoute(grid, {}, next, chair[a], rest)
      /\ rest = <<>> => next = chair[a]
      /\ pos' = [pos EXCEPT ![a] = next]
      /\ occupied' = (occupied \ {pos[a]}) \cup {next}
      /\ path' = [path EXCEPT ![a] = rest]
      /\ status' = [status EXCEPT ![a] = now]
  BY AdvanceSteps
<1>2. /\ phase = "move" /\ status[a] = "walking" /\ spawned[a]
      /\ occupied = {pos[b] : b \in OnFloor}
  BY <1>1, MoverWalks
<1>3. /\ UNCHANGED <<worldVars, placeVars, rosterVars, spawned, stuckNote>>
      /\ stall' = [stall EXCEPT ![a] = 0]
      /\ rerouteFails' = [rerouteFails EXCEPT ![a] = 0]
  BY DEF Advance
<1>4. rest \in Seq(Cell)
  BY <1>1 DEF IsRoute
<1>5. shown' \in [Agent -> [status : Statuses, pos : Cell]]
  <2>1. PICK st \in {"seated"} \cup {shown[a].status} :
          shown' = [shown EXCEPT ![a] = [status |-> st, pos |-> Head(PathNow(a))]]
    BY DEF Advance
  <2>2. Head(PathNow(a)) \in Cell
    BY <1>1, <1>2, PathIsKept
  <2> QED
    BY <2>1, <2>2 DEF IInv, TypeOK, Statuses
<1> HIDE DEF next, rest
<1> USE DEF Turn, worldVars, placeVars, rosterVars
<1>6. TypeOK'
  <2>1. now \in Statuses
    BY DEF now, Statuses
  <2> HIDE DEF now
  <2>2. /\ spawned' \in [Agent -> BOOLEAN] /\ status' \in [Agent -> Statuses]
        /\ pos' \in [Agent -> Cell] /\ path' \in [Agent -> Seq(Cell)]
    BY <1>1, <1>3, <1>4, <2>1 DEF IInv, TypeOK
  <2>3. /\ stall' \in [Agent -> 0 .. RerouteAfterTicks - 1]
        /\ rerouteFails' \in [Agent -> 0 .. StuckRerouteStreak - 1]
    BY <1>3, ScheduleAssumption DEF IInv, TypeOK
  <2>4. phase' = phase /\ todo' \in SUBSET Agent /\ occupied' \in SUBSET Cell
    BY <1>1 DEF IInv, TypeOK
  <2> QED
    BY <1>3, <1>5, <2>2, <2>3, <2>4 DEF IInv, TypeOK
<1>7. Current'
  BY <1>3 DEF IInv, Current
<1>8. Placed'
  BY <1>1, <1>3 DEF IInv, TypeOK, Placed
<1>9. TodoAhead'
  BY <1>1, <1>2, <1>3 DEF IInv, TypeOK, TodoAhead
<1>10. NobodyVanishes'
  BY <1>1, <1>2, <1>3 DEF IInv, TypeOK, NobodyVanishes
<1>11. PathsLeadHome'
  BY <1>1, <1>3 DEF IInv, TypeOK, PathsLeadHome
<1>12. NoSharedTile'
  BY <1>1, <1>2, <1>3 DEF IInv, TypeOK, NoSharedTile, OnFloor
<1>13. OccupiedExact'
  BY <1>1, <1>2, <1>3 DEF IInv, TypeOK, NoSharedTile, OccupiedExact, OnFloor
<1> QED
  BY <1>6, <1>7, <1>8, <1>9, <1>10, <1>11, <1>12, <1>13 DEF IInv

-----------------------------------------------------------------------------
(* Moves. *)

\* Both ways of entering are at a free door tile and not before the hour.
LEMMA EnteringIsLegal ==
  ASSUME IInv, NEW a \in Agent, Enter(a) \/ EnterStranded(a)
  PROVE  LegalMoves
<1>1. PICK door \in FreeDoors, newStatus \in {"walking", "stuck_unreachable"} :
        EnterAt(a, door, newStatus)
  BY DEF Enter, EnterStranded
<1>2. Turn("spawn", a)
  BY DEF Enter, EnterStranded
<1>3. /\ ~ spawned[a] /\ spawnSec[a] <= clock
      /\ phase = "spawn" /\ occupied = {pos[b] : b \in OnFloor}
  BY <1>2 DEF Turn, IInv, TodoAhead, OccupiedExact
<1>4. /\ spawned' = [spawned EXCEPT ![a] = TRUE] /\ pos' = [pos EXCEPT ![a] = door]
      /\ door \in DoorTiles(map) /\ door \notin occupied
  BY <1>1 DEF EnterAt, FreeDoors
<1> QED
  BY <1>3, <1>4 DEF IInv, TypeOK, LegalMoves

\* An advance is one step of a walker to a neighbour tile.
LEMMA AdvanceIsLegal ==
  ASSUME IInv, NEW a \in Agent, Advance(a)
  PROVE  LegalMoves
<1>1. /\ Turn("move", a) /\ Head(path[a]) \in Neighbors(pos[a])
      /\ pos' = [pos EXCEPT ![a] = Head(path[a])]
  BY AdvanceSteps
<1>2. phase = "move" /\ status[a] = "walking"
  BY <1>1, MoverWalks
<1>3. mode = "running"
  BY <1>2 DEF IInv, TodoAhead
<1>4. spawned' = spawned
  BY DEF Advance
<1> QED
  BY <1>1, <1>2, <1>3, <1>4 DEF IInv, TypeOK, LegalMoves

\* No other step moves anyone or lets anyone in.
LEMMA StepIsLegal ==
  ASSUME IInv, [Next]_vars
  PROVE  LegalMoves \/ UNCHANGED vars
<1>1. ASSUME NEW a \in Agent, Enter(a) \/ EnterStranded(a) \/ Advance(a)
      PROVE  LegalMoves
  BY <1>1, EnteringIsLegal, AdvanceIsLegal
<1>2. CASE UNCHANGED pos /\ (UNCHANGED spawned \/ spawned' = [b \in Agent |-> FALSE])
  BY <1>2 DEF LegalMoves
<1>3. CASE \E a \in Agent : WaitOutside(a) \/ StayPut(a) \/ Wait(a) \/ Reroute(a) \/ BoxedIn(a)
  BY <1>2, <1>3 DEF WaitOutside, StayPut, Wait, Reroute, BoxedIn, walkVars
<1>4. CASE BeginTick \/ StartMoves \/ EndTick
  BY <1>2, <1>4 DEF BeginTick, StartMoves, EndTick, walkVars
<1>5. CASE UserStep
  BY <1>2, <1>5 DEF UserStep, Pause, Resume, SetSpeed, ReplaceMap, ReplaceLayout,
     ReplaceMapAndLayout, PatchAgent, ResetToDayStart, walkVars
<1> QED
  BY <1>1, <1>3, <1>4, <1>5 DEF Next, TickStep

-----------------------------------------------------------------------------
(* The theorems. *)

\* Every step of the world keeps the invariant.
LEMMA StepIInv ==
  ASSUME IInv, [Next]_vars
  PROVE  IInv'
<1>1. CASE BeginTick
  BY <1>1, BeginTickIInv
<1>2. CASE StartMoves \/ EndTick \/ \E a \in Agent : WaitOutside(a) \/ StayPut(a)
  BY <1>2, PassingIInv
<1>3. ASSUME NEW a \in Agent, Enter(a)
      PROVE  IInv'
  BY <1>3, EnterIInv
<1>4. ASSUME NEW a \in Agent, EnterStranded(a)
      PROVE  IInv'
  BY <1>4, EnterStrandedIInv
<1>5. ASSUME NEW a \in Agent, Wait(a)
      PROVE  IInv'
  BY <1>5, WaitIInv
<1>6. ASSUME NEW a \in Agent, Reroute(a)
      PROVE  IInv'
  BY <1>6, RerouteIInv
<1>7. ASSUME NEW a \in Agent, BoxedIn(a)
      PROVE  IInv'
  BY <1>7, BoxedInIInv
<1>8. ASSUME NEW a \in Agent, Advance(a)
      PROVE  IInv'
  BY <1>8, AdvanceIInv
<1>9. CASE Pause \/ Resume \/ \E s \in Speeds : SetSpeed(s)
  BY <1>9, TimeControlIInv
<1>10. ASSUME NEW m \in Maps, ReplaceMap(m)
       PROVE  IInv'
  BY <1>10, ReplaceMapIInv
<1>11. ASSUME NEW l \in Layouts, ReplaceLayout(l)
       PROVE  IInv'
  BY <1>11, ReplaceLayoutIInv
<1>12. ASSUME NEW m \in Maps, NEW l \in Layouts, ReplaceMapAndLayout(m, l)
       PROVE  IInv'
  BY <1>12, ReplaceMapAndLayoutIInv
<1>13. ASSUME NEW a \in Agent, NEW n \in Names, PatchAgent(a, n)
       PROVE  IInv'
  BY <1>13, PatchAgentIInv
<1>14. CASE UNCHANGED vars
  <2>1. UNCHANGED <<worldVars, placeVars, rosterVars, walkVars, tickVars, eventVars>>
    BY <1>14 DEF vars
  <2> USE DEF worldVars, placeVars, rosterVars, walkVars, tickVars, eventVars
  <2>2. TypeOK' /\ Current' /\ Placed' /\ TodoAhead'
    BY <2>1 DEF IInv, TypeOK, Current, Placed, TodoAhead
  <2>3. NobodyVanishes' /\ PathsLeadHome' /\ OccupiedExact' /\ NoSharedTile'
    BY <2>1 DEF IInv, NobodyVanishes, PathsLeadHome, OccupiedExact, NoSharedTile, OnFloor
  <2> QED
    BY <2>2, <2>3 DEF IInv
<1> QED
  BY <1>1, <1>2, <1>3, <1>4, <1>5, <1>6, <1>7, <1>8, <1>9, <1>10, <1>11, <1>12, <1>13,
     <1>14
  DEF Next, TickStep, UserStep

\* The inductive invariant holds in every reachable state.
THEOREM IInvHolds == Spec => []IInv
BY InitIInv, StepIInv, PTL DEF Spec

\* Every variable keeps its type: the counters stay in their bounds and every
\* path is a sequence of cells, whatever is edited.
THEOREM TypeCorrect == Spec => []TypeOK
<1>1. IInv => TypeOK
  BY DEF IInv
<1> QED
  BY <1>1, IInvHolds, PTL

\* The promise of world.rs:494-497: no two agents ever settle on the same tile.
THEOREM NobodySharesATile == Spec => []NoSharedTile
<1>1. IInv => NoSharedTile
  BY DEF IInv
<1> QED
  BY <1>1, IInvHolds, PTL

\* The tile set step() maintains is exact after each of its turns.
THEOREM OccupancyIsExact == Spec => []OccupiedExact
<1>1. IInv => OccupiedExact
  BY DEF IInv
<1> QED
  BY <1>1, IInvHolds, PTL

\* Every walker holds a walkable way to its own chair over the current grid.
THEOREM EveryPathLeadsHome == Spec => []PathsLeadHome
<1>1. IInv => PathsLeadHome
  BY DEF IInv
<1> QED
  BY <1>1, IInvHolds, PTL

\* Who is off the floor is commuting and the other way round: the vanishing
\* that world.rs:380-385 warns of cannot happen.
THEOREM NobodyEverVanishes == Spec => []NobodyVanishes
<1>1. IInv => NobodyVanishes
  BY DEF IInv
<1> QED
  BY <1>1, IInvHolds, PTL

\* Grid and chairs are always those of the current map and layout, nobody shares a
\* chair, and who is reported unreachable has no way to its own.
THEOREM DerivedStateIsCurrent == Spec => []DerivedIsCurrent
<1>1. IInv => DerivedIsCurrent
  <2> SUFFICES ASSUME IInv PROVE DerivedIsCurrent
    OBVIOUS
  <2>1. \A a, b \in Agent : chair[a] = chair[b] => a = b
    BY ChairsAreOwn DEF IInv, Current
  <2> QED
    BY <2>1 DEF IInv, Current, Placed, DerivedIsCurrent
<1> QED
  BY <1>1, IInvHolds, PTL

\* On the floor agents move by single steps of a running world; they appear
\* only on a free door tile, and not before their hour.
THEOREM AgentsOnlyWalk == Spec => NoTeleport
<1>1. IInv /\ [Next]_vars => [LegalMoves]_vars
  BY StepIsLegal
<1> QED
  BY <1>1, IInvHolds, PTL DEF Spec, NoTeleport
=============================================================================
