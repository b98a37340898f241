-------------------------------- MODULE Grid --------------------------------
(***************************************************************************)
(* The static geometry of the office: the tile map (tilemap.rs), the       *)
(* furniture laid out on it, and the collision grid the two make together  *)
(* (grid.rs).  No variables: every operator is a pure function of a map or *)
(* of a map and a layout.                                                  *)
(*                                                                         *)
(* A map is a record [width, height, walls], `walls' being the cells whose *)
(* tile on the "walls" layer collides.  A layout is the sequence of its    *)
(* items, in file order, because look-ups take the first match.            *)
(***************************************************************************)
EXTENDS Integers, Sequences, FiniteSets

Cell == Int \X Int

\* A layout item.  Its key is a tuple so that the "<desk key>-chair" naming
\* convention is Append(key, "chair").
Item == [id : STRING, key : Seq(STRING), x : Int, y : Int, w : Nat, h : Nat,
         rotation : Int, walkable : BOOLEAN]

ChairKey(deskKey) == Append(deskKey, "chair")

-----------------------------------------------------------------------------
(* The tile map. *)

TileMap == [width : Nat, height : Nat, walls : SUBSET Cell]

Cells(m) == (0 .. m.width - 1) \X (0 .. m.height - 1)

\* Out of bounds counts as blocked.  The collision grid has the same shape.
Blocked(m, c) == c \notin Cells(m) \/ c \in m.walls

Floor(m) == {c \in Cells(m) : ~ Blocked(m, c)}

OnRing(m, c) == \/ c[1] \in {0, m.width - 1}
                \/ c[2] \in {0, m.height - 1}

\* A door is any walkable cell of the outer ring; there is no door object.
DoorTiles(m) == {c \in Floor(m) : OnRing(m, c)}

\* Row-major order, the order of the code's door list.
RowMajor(c, d) == c[2] < d[2] \/ (c[2] = d[2] /\ c[1] <= d[1])

IsFirst(c, S) == c \in S /\ \A d \in S : RowMajor(c, d)

Neighbors(c) == { <<c[1], c[2] - 1>>, <<c[1] + 1, c[2]>>,
                  <<c[1], c[2] + 1>>, <<c[1] - 1, c[2]>> }

\* The closure of the floor from one cell, ring by ring; the code's stack visits
\* the same cells in another order.
Reached(m, from) ==
  LET floor == Floor(m)
      fill[n \in 0 .. Cardinality(floor)] ==
        IF n = 0 THEN {from}
        ELSE LET prev == fill[n - 1]
             IN  prev \cup (floor \cap UNION {Neighbors(c) : c \in prev})
  IN  fill[Cardinality(floor)]

FloodConnected(m) ==
  \E door \in DoorTiles(m) : IsFirst(door, DoorTiles(m)) /\ Reached(m, door) = Floor(m)

\* The structural checks of PUT /world/map, the size limits as parameters.
ValidShape(m, minSize, maxSize) ==
  /\ m.width \in minSize .. maxSize /\ m.height \in minSize .. maxSize
  /\ DoorTiles(m) # {}
  /\ FloodConnected(m)

-----------------------------------------------------------------------------
(* Furniture. *)

\* Cells an item covers: a quarter turn swaps width and height, the anchor
\* stays the top-left corner, and any integer rotation is reduced mod 360.
Footprint(item) ==
  LET turned == item.rotation % 360 \in {90, 270}
      fw == IF turned THEN item.h ELSE item.w
      fh == IF turned THEN item.w ELSE item.h
  IN  (item.x .. item.x + fw - 1) \X (item.y .. item.y + fh - 1)

\* Every item in bounds and off the walls; items may overlap each other.
LayoutFits(m, layout) ==
  \A i \in DOMAIN layout : \A c \in Footprint(layout[i]) : ~ Blocked(m, c)

\* The collision grid: walls plus the footprints of non-walkable items, the
\* part of a footprint that lies outside the map dropped.
CollisionGrid(m, layout) ==
  [m EXCEPT !.walls = @ \cup
     (Cells(m) \cap UNION {Footprint(layout[i]) :
                             i \in {j \in DOMAIN layout : ~ layout[j].walkable}})]

\* Where an agent can ever stand: free cells, and door tiles even when
\* furniture covers them (entering looks at the door list, not at the grid).
Standable(m, layout) == Floor(CollisionGrid(m, layout)) \cup DoorTiles(m)

\* `r' walks from one cell to another over free cells outside `crowd', one
\* neighbour per step: it leaves out its start, ends at and nowhere earlier
\* meets its goal, and is empty exactly when there is nowhere to go.
IsRoute(g, crowd, from, to, r) ==
  /\ r \in Seq(Cell)
  /\ r = <<>> <=> from = to
  /\ r # <<>> => r[Len(r)] = to /\ ~ Blocked(g, from)
  /\ \A i \in 1 .. Len(r) :
       /\ ~ Blocked(g, r[i]) /\ r[i] \notin crowd
       /\ r[i] \in Neighbors(IF i = 1 THEN from ELSE r[i - 1])
       /\ r[i] = to => i = Len(r)

-----------------------------------------------------------------------------
(* Desk and chair look-up. *)

\* A look-up takes the first match; the set is empty without one.
First(matches) == {i \in matches : \A k \in matches : i <= k}

AnchorCells(layout) == {<<layout[i].x, layout[i].y>> : i \in DOMAIN layout}

\* The chair of the desk with an id, as the set of its cell, empty if it does
\* not resolve: the desk is looked up by id, its chair by the derived key, and
\* the chair must be walkable.
SeatOfDesk(layout, deskId) ==
  LET desks  == First({i \in DOMAIN layout : layout[i].id = deskId})
      chairs == UNION {First({j \in DOMAIN layout : layout[j].key = ChairKey(layout[i].key)}) :
                         i \in desks}
  IN  {<<layout[j].x, layout[j].y>> : j \in {k \in chairs : layout[k].walkable}}
=============================================================================
