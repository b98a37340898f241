----------------------------- MODULE MCPathfind -----------------------------
(* A 4 x 3 room: every pattern of at most MaxWalls walls, searches from two *)
(* corners and from the middle, with nobody or one agent in the way.        *)
EXTENDS PathfindRun

MCStarts == {<<0, 0>>, <<1, 1>>, <<3, 2>>}
MCCrowds == {{}, {<<1, 1>>}, {<<2, 0>>, <<2, 1>>}}
=============================================================================
