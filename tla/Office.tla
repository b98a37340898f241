------------------------------- MODULE Office -------------------------------
(***************************************************************************)
(* The office as its visitors see it, without clock, ticks, queues, stalls *)
(* or detours: people come in, walk from tile to tile, sit down on their   *)
(* own chairs and stay there; rooms are refurnished while nobody is in.    *)
(***************************************************************************)
CONSTANT Beside(_, _)     \* two tiles are neighbours

VARIABLES
  place,     \* a function from who is inside to tiles
  seated,    \* those who sit
  home,      \* everybody's chair
  floor      \* the tiles one can walk on

Inside == DOMAIN place

Taken == {place[a] : a \in Inside}

\* Everybody but a stays where they are.
OthersStay(a) == \A b \in Inside \ {a} : place'[b] = place[b]

Init == Inside = {} /\ seated = {}

\* In at a door, which furniture may stand on, but nobody else.
ComeIn(a) ==
  /\ a \notin Inside /\ DOMAIN place' = Inside \cup {a}
  /\ place'[a] \notin Taken /\ OthersStay(a)
  /\ UNCHANGED <<seated, home, floor>>

Walk(a) ==
  /\ a \in Inside \ seated /\ DOMAIN place' = Inside
  /\ place'[a] \in floor \ Taken /\ Beside(place[a], place'[a]) /\ OthersStay(a)
  /\ \/ UNCHANGED seated
     \/ place'[a] = home[a] /\ seated' = seated \cup {a}
  /\ UNCHANGED <<home, floor>>

\* Everybody is sent out, whatever becomes of the rooms.
Refurnish == DOMAIN place' = {} /\ seated' = {}

Next ==
  \/ Refurnish
  \/ \E a \in DOMAIN home : ComeIn(a) \/ Walk(a)

Spec == Init /\ [][Next]_<<place, seated, home, floor>>
=============================================================================
