------------------------------ MODULE MCSaves ------------------------------
(* Two agents, two maps, two layouts; the small map holds only the layout    *)
(* that was made for it, so shrinking the room takes both.                   *)
EXTENDS Saves, TLC

MCAgent == {"a", "b"}
MCNames == 1 .. 4
MCSeedName == [x \in MCAgent |-> IF x = "a" THEN 1 ELSE 2]
MCDesk == {"d1", "d2"}
MCSeatOf == [x \in MCAgent |-> IF x = "a" THEN "d1" ELSE "d2"]

MCMaps == {"wide", "small"}
MCLayouts == {"loose", "dense"}
MCFits == {<<"wide", "loose">>, <<"wide", "dense">>, <<"small", "dense">>}
MCKeyOf == [l \in MCLayouts |-> [d \in MCDesk |-> d]]

\* b keeps its name, so that no name of the seed passes to another agent; and
\* names the two may exchange.
NewNames == [x \in MCAgent |-> IF x = "a" THEN {1, 2, 3} ELSE {2}]
AnyNames == [x \in MCAgent |-> {1, 2, 3}]
\* Handlers are alike, and no property is a liveness property.
Alike == Permutations(Handler)
=============================================================================
