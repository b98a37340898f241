------------------------------- MODULE MCWorld -------------------------------
(* Small offices for World, with the path finder of Pathfind and the        *)
(* game day scaled down to some ticks.  world_edits has three agents;       *)
(* world_day has two, due in the same tick, which are let in one after the  *)
(* other or at opposite doors, and a third name for them to be reordered    *)
(* by renames; world_standoff sends the two against each other.             *)
EXTENDS World

P == INSTANCE Pathfind

MCRoute(g, extra, from, to) == P!astar(g, extra, from, to)

Ring(w, h) == {c \in (0 .. w - 1) \X (0 .. h - 1) :
                 c[1] \in {0, w - 1} \/ c[2] \in {0, h - 1}}

Room(w, h, doors) == [width |-> w, height |-> h, walls |-> Ring(w, h) \ doors]

Furniture(id, key, x, y, w, h, rotation) ==
  [id |-> id, key |-> key, x |-> x, y |-> y, w |-> w, h |-> h,
   rotation |-> rotation, walkable |-> FALSE]

Desk(who, x, y) == Furniture(who, <<who>>, x, y, 1, 1, 0)

Chair(who, x, y) == [Desk(who, x, y) EXCEPT !.id = "seat", !.key = ChairKey(<<who>>),
                                            !.walkable = TRUE]

TwoDoors == Room(6, 5, {<<2, 4>>, <<3, 4>>})
OneDoor  == Room(6, 5, {<<2, 4>>})
Small    == Room(5, 5, {<<2, 4>>})
FarDoors == Room(6, 5, {<<0, 2>>, <<5, 2>>})

\* Desks along the north wall, a chair below each.
Rows == << Desk("a", 1, 1), Chair("a", 1, 2), Desk("b", 2, 1), Chair("b", 2, 2),
           Desk("c", 3, 1), Chair("c", 3, 2) >>

\* The only way to a's chair leads over b's; a cabinet turned by 90 degrees.
Choke == << Chair("a", 1, 1), Desk("a", 2, 1), Chair("b", 1, 2), Desk("b", 3, 1),
            Furniture("cab", <<"cab">>, 2, 2, 1, 1, 90),
            Chair("c", 3, 2), Desk("c", 3, 1) >>

\* c's chair is under a cabinet: no path leads to it.
Sealed == << Desk("a", 1, 1), Chair("a", 1, 2), Desk("b", 2, 1), Chair("b", 2, 2),
             Desk("c", 3, 1), Chair("c", 3, 3),
             Furniture("cab", <<"cab">>, 3, 3, 1, 1, 0) >>

\* On the straight way in from the west stands b's chair, beside the room to
\* walk round it; c, let in at the east door, comes the other way.
Cross == << Desk("a", 4, 1), Chair("a", 4, 2), Desk("b", 2, 1), Chair("b", 2, 2),
            Desk("c", 1, 1), Chair("c", 1, 2) >>

\* b's chair stands on the first door tile of TwoDoors.
Doorway == << Desk("a", 1, 1), Chair("a", 1, 2), Desk("b", 2, 1), Chair("b", 2, 4),
              Desk("c", 3, 1), Chair("c", 3, 2) >>

\* On the straight way in from the west, c's chair comes before b's.
Inline == << Desk("b", 3, 1), Chair("b", 3, 2), Desk("c", 2, 1), Chair("c", 2, 2) >>

MCAgent == {"a", "b", "c"}
MCDeskId == [x \in MCAgent |-> x]
MCInitialName == [x \in MCAgent |-> CASE x = "a" -> 1 [] x = "b" -> 2 [] x = "c" -> 3]
MCSpecialist == MCAgent \ {"a"}
MCGradeSec == [x \in MCAgent |-> 4]
MCStartPos == [x \in MCAgent |-> <<0, 0>>]

\* Two specialists due in the same tick, with a name to spare, so that renaming
\* reorders them.
TwoAgents == {"b", "c"}
TwoDeskId == [x \in TwoAgents |-> x]
TwoInitialName == [x \in TwoAgents |-> IF x = "b" THEN 1 ELSE 2]
TwoSpecialists == TwoAgents
TwoGradeSec == [x \in TwoAgents |-> 4]
TwoStartPos == [x \in TwoAgents |-> <<0, 0>>]

\* The only way to c's chair leads over b's.
Behind == << Chair("c", 1, 1), Desk("c", 2, 1), Chair("b", 1, 2), Desk("b", 3, 1),
             Furniture("cab", <<"cab">>, 2, 2, 1, 1, 90) >>

\* For FarDoors, each chair at the end opposite to its owner's door: a corridor one
\* tile wide, a room with the desks on either side, and one with them on the same side.
Corridor == << Chair("b", 4, 1), Chair("c", 1, 1), Desk("b", 2, 1), Desk("c", 3, 1),
               Furniture("cab", <<"cab">>, 1, 3, 4, 1, 0) >>
Passing  == << Chair("b", 4, 2), Chair("c", 1, 2), Desk("b", 2, 1), Desk("c", 4, 3) >>
Facing   == << Chair("b", 4, 2), Chair("c", 1, 2), Desk("b", 1, 1), Desk("c", 4, 1) >>

DayMaps == {OneDoor, FarDoors}
DayLayouts == {Inline, Behind, Corridor, Passing}

AllMaps == {TwoDoors, Small, FarDoors}
AllLayouts == {Rows, Choke, Sealed, Cross, Doorway}

DoorwayMaps == {TwoDoors}
DoorwayLayouts == {Doorway}

FacingMaps == {FarDoors}
FacingLayouts == {Facing}
=============================================================================
