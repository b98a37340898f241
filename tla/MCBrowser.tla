---------------------------- MODULE MCBrowser ----------------------------
(* A fixture for Browser and its scenes.  Maps, layouts, looks and places  *)
(* are numbers; look 0 is the empty appearance, place 0 is off the floor.  *)
EXTENDS Browser

MCSeed == [map |-> 1, layout |-> 1, agent |-> [look |-> 1, place |-> 0]]

Quiet == [maps |-> {}, layouts |-> {}, looks |-> {}, places |-> {}, controls |-> TRUE,
          drafts |-> FALSE, edits |-> 0, saves |-> 0, faults |-> 0, canvas |-> "drawn"]

\* Others replace maps under a canvas that asks for its first one.
MapScene == [Quiet EXCEPT !.maps = Maps, !.edits = 2, !.faults = 1, !.canvas = "loading"]

\* The agent changes its looks.
LookScene == [Quiet EXCEPT !.looks = Looks, !.edits = 2, !.faults = 1, !.canvas = "peopled"]

\* Somebody drafts layouts, others save theirs.
DraftScene == [Quiet EXCEPT !.layouts = {2}, !.drafts = TRUE, !.edits = 2, !.saves = 1]

\* Saves overlap too; nobody starts the world.
SaveScene == [DraftScene EXCEPT !.controls = FALSE, !.edits = 3, !.saves = 2]

\* Somebody drafts layouts and saves while the agent moves.
MoveScene == [Quiet EXCEPT !.places = Places, !.drafts = TRUE, !.edits = 1, !.saves = 1]

\* The server is started again meanwhile.
CrashScene == [Quiet EXCEPT !.layouts = {2}, !.drafts = TRUE, !.edits = 1, !.saves = 1,
                            !.faults = 1]

AllMCScenes == {MapScene, LookScene, DraftScene, SaveScene, MoveScene, CrashScene}
=============================================================================
