------------------------------ MODULE Browser ------------------------------
(***************************************************************************)
(* One browser at work: the draft of the layout editor                     *)
(* (LayoutEditorPanel.tsx), the map and the visuals of the canvas          *)
(* (OfficeCanvas.tsx), and the store they share with the socket (store.ts) *)
(* while others edit the world and the server may be restarted.            *)
(*                                                                         *)
(* Stream shows that what the server sends arrives in order and that a     *)
(* client that fell behind comes back with a fresh snapshot; here that is  *)
(* the one operator Sent.  Of the agents the model keeps one: how it looks *)
(* and where it is.  The page has had its first snapshot.                  *)
(*                                                                         *)
(* All at once is beyond TLC.  A behaviour plays in a scene, which says    *)
(* what may happen in it; nothing else depends on the scene.               *)
(***************************************************************************)
EXTENDS Integers, Sequences

CONSTANTS
  Maps, Layouts, Looks,
  Plain,       \* the empty appearance: the sheet every agent has
  Places,      \* where the agent is, with its status
  Seed,        \* [map, layout, agent] of the fixture, before the working day
  Room,        \* messages on their way before the server gives the client up
  MaxEdits,    \* bound on the edits
  MaxSaves,    \* bound on the saves under way at once
  MaxFaults,   \* bound on restarts, failed map requests and failed images
  None,        \* no draft, no base, no map, no key
  Scenes       \* see AllScenes

Agents == [look : Looks, place : Places]

\* What others put, where the agent goes, whether anybody pauses and resumes or drafts
\* layouts, how many edits and saves under way at once there are and how many faults, and
\* whether the canvas is still without its first map, has it, or shows the agent too.
AllScenes ==
  [maps : SUBSET Maps, layouts : SUBSET Layouts, looks : SUBSET Looks, places : SUBSET Places,
   controls : BOOLEAN, drafts : BOOLEAN,
   edits : 0 .. MaxEdits, saves : 0 .. MaxSaves, faults : 0 .. MaxFaults,
   canvas : {"loading", "drawn", "peopled"}]

ASSUME BrowserAssumption ==
  /\ Plain \in Looks /\ Seed \in [map : Maps, layout : Layouts, agent : Agents]
  /\ Scenes \subseteq AllScenes /\ Room \in Nat \ {0}
  /\ {MaxEdits, MaxSaves, MaxFaults} \subseteq Nat

VARIABLES
  scene,      \* fixed
  world,      \* the server's: content, map_rev, running; history: edits and lives
  served,     \* history: the layouts the server has had
  inbox,      \* what is on its way over the socket
  store,      \* layout, agent, running and world.map_rev
  editor,     \* the draft, what cancelling goes back to, and the notice
  puts,       \* the saves under way
  fetch,      \* the request for the map that is under way
  cache,      \* store.mapTmj and store.mapRev; history: the server's life
  drawn,      \* the map on the canvas
  subscribed, \* the canvas follows the store
  sprite,     \* the agent's visual, in the scene of looks
  faults,
  heard,      \* history: what the socket has told of last, the edit and the agent
  stray       \* history: an older state was put back and no snapshot has come since

vars == <<scene, world, served, inbox, store, editor, puts, fetch, cache, drawn, subscribed,
          sprite, faults, heard, stray>>
server     == <<world, served>>
editorVars == <<editor, puts>>
canvasVars == <<cache, drawn, subscribed>>
history    == <<scene, heard, stray>>

Idle == [pc |-> "idle"]

Shown(w) == [layout |-> w.layout, agent |-> w.agent, running |-> w.running, rev |-> w.rev]

\* stale: the notice that a snapshot has come since the draft began; missed
\* (history): a pause or a move of the agent has.
NotEditing == [on |-> FALSE, draft |-> None, base |-> None, stale |-> FALSE, missed |-> FALSE]

\* No picture has been tried; there is none to try for the empty appearance.
NoPictures == [l \in Looks |-> IF l = Plain THEN "null" ELSE "none"]

\* buildVisual: the picture of its look, or the sheet when there is none.
NewSprite(look, manifest, made) ==
  [key |-> look, shown |-> IF made THEN look ELSE Plain,
   pictures |-> [NoPictures EXCEPT ![look] = IF made THEN "made" ELSE "null"],
   sheet |-> ~ made, manifest |-> manifest,
   swaps |-> {}, overlap |-> FALSE, retry |-> FALSE]

Init ==
  /\ scene \in Scenes
  /\ \E look \in scene.looks \cup {Seed.agent.look} :
       /\ world = [map |-> Seed.map, layout |-> Seed.layout,
                   agent |-> [look |-> look, place |-> Seed.agent.place],
                   running |-> FALSE, rev |-> 1, edits |-> 0, life |-> 0]
       /\ IF scene.canvas = "peopled"
          THEN \/ \E m \in BOOLEAN : sprite = NewSprite(look, m, FALSE)
               \/ look # Plain /\ sprite = NewSprite(look, TRUE, TRUE)
          ELSE sprite = None
  /\ served = {Seed.layout}
  /\ inbox = <<>> /\ store = Shown(world)
  /\ editor = NotEditing /\ puts = [i \in 1 .. MaxSaves |-> Idle]
  /\ IF scene.canvas = "loading"
     THEN fetch = [pc |-> "asked"] /\ cache = None /\ drawn = None /\ subscribed = FALSE
     ELSE /\ fetch = Idle /\ cache = [map |-> Seed.map, rev |-> 1, life |-> 0]
          /\ drawn = Seed.map /\ subscribed = TRUE
  /\ faults = 0 /\ heard = [edits |-> 0, agent |-> world.agent] /\ stray = FALSE

-----------------------------------------------------------------------------
(* Types. *)

Revs == 1 .. MaxEdits + 2

Worlds == [map : Maps, layout : Layouts, agent : Agents, running : BOOLEAN,
           rev : Revs, edits : 0 .. MaxEdits, life : 0 .. MaxFaults]

Messages ==
  [type : {"world_snapshot"}, world : Worlds] \cup [type : {"agent_moved"}, place : Places] \cup
  [type : {"tick", "world_paused"}]

Stores == [layout : Layouts, agent : Agents, running : BOOLEAN, rev : Revs]

Bases == [layout : Layouts, agent : Agents, running : BOOLEAN]

Editors == [on : BOOLEAN, draft : Layouts \cup {None}, base : Bases \cup {None},
            stale : BOOLEAN, missed : BOOLEAN]

Puts ==
  [pc : {"idle", "failed"}] \cup [pc : {"asked"}, layout : Layouts] \cup
  [pc : {"answered"}, world : Worlds]

\* A map the browser holds, with its revision in a life of the server.
Held == [map : Maps, rev : Revs, life : 0 .. MaxFaults]

Fetches ==
  [pc : {"idle", "asked", "failed"}] \cup
  [pc : {"answered"}, map : Maps, rev : Revs, life : 0 .. MaxFaults] \cup
  [pc : {"building"}, map : Maps]

Keys == Looks \cup {None}

\* A change of textures that waits for a picture or for the sheet.
Swaps == [look : Looks, prev : Keys, waits : {"picture", "sheet"}]

\* overlap (history): a change of textures began while another was under way; retry
\* (history): the sheet failed to load since the looks last changed.
Sprites == [key : Keys, shown : Looks, pictures : [Looks -> {"none", "making", "made", "null"}],
            sheet : BOOLEAN, manifest : BOOLEAN, swaps : SUBSET Swaps,
            overlap : BOOLEAN, retry : BOOLEAN]

ASSUME NoneAssumption == None \notin Maps \cup Layouts \cup Looks \cup Bases \cup Held \cup Sprites

-----------------------------------------------------------------------------
(* The server. *)

\* agent_status counts as a move: a place comes with its status.
Snapshot(w)  == [type |-> "world_snapshot", world |-> w]
Moved(place) == [type |-> "agent_moved", place |-> place]
Tick         == [type |-> "tick"]
WorldPaused  == [type |-> "world_paused"]

\* A client that falls behind handles what it was sent and connects again.
Sent(queue) ==
  IF Len(queue) <= Room THEN queue
  ELSE Append(SubSeq(queue, 1, Room - 1), Snapshot(world'))

Fault == faults < scene.faults /\ faults' = faults + 1

Edited(w) ==
  /\ world.edits < scene.edits
  /\ world' = [w EXCEPT !.edits = @ + 1] /\ served' = served \cup {w.layout}
  /\ inbox' = Sent(Append(inbox, Snapshot(world')))

\* A new map or layout begins the working day again.
Reset(w) == [w EXCEPT !.running = FALSE, !.agent.place = Seed.agent.place]

\* Every new map counts map_rev up.
OthersEdit ==
  /\ \/ \E m \in scene.maps : Edited(Reset([world EXCEPT !.map = m, !.rev = @ + 1]))
     \/ \E l \in scene.layouts : Edited(Reset([world EXCEPT !.layout = l]))
     \/ \E k \in scene.looks : Edited([world EXCEPT !.agent.look = k])
  /\ UNCHANGED <<store, editorVars, fetch, canvasVars, sprite, faults, history>>

\* One hold of the lock: the agent moves or not, the tick comes last.
SendTick ==
  /\ world.running
  /\ \E p \in scene.places \cup {world.agent.place} :
       /\ world' = [world EXCEPT !.agent.place = p]
       /\ inbox' = Sent(IF p = world.agent.place THEN Append(inbox, Tick)
                        ELSE Append(Append(inbox, Moved(p)), Tick))
  /\ UNCHANGED <<served, store, editorVars, fetch, canvasVars, sprite, faults, history>>

Pause ==
  /\ scene.controls
  /\ world' = [world EXCEPT !.running = FALSE]
  /\ inbox' = Sent(Append(inbox, WorldPaused))
  /\ UNCHANGED <<served, store, editorVars, fetch, canvasVars, sprite, faults, history>>

Resume ==
  /\ scene.controls /\ ~ world.running
  /\ world' = [world EXCEPT !.running = TRUE]
  /\ UNCHANGED <<served, inbox, store, editorVars, fetch, canvasVars, sprite, faults, history>>

\* PUT /world/layout accepted: done, broadcast and answered.
ServePut(i) ==
  /\ puts[i].pc = "asked"
  /\ Edited(Reset([world EXCEPT !.layout = puts[i].layout]))
  /\ puts' = [puts EXCEPT ![i] = [pc |-> "answered", world |-> world']]
  /\ UNCHANGED <<store, editor, fetch, canvasVars, sprite, faults, history>>

\* Map and revision are read in one hold of the world lock.
ServeMap ==
  /\ fetch.pc = "asked"
  /\ fetch' = [pc |-> "answered", map |-> world.map, rev |-> world.rev, life |-> world.life]
  /\ UNCHANGED <<server, inbox, store, editorVars, canvasVars, sprite, faults, history>>

\* The server starts again with what was saved, or the seed, before the working day,
\* and counts map revisions from 1; a saved map that is not the seed's is its second.
Restart ==
  /\ Fault
  /\ \E saved \in {Seed, [map |-> world.map, layout |-> world.layout, agent |-> world.agent]} :
       world' = [map |-> saved.map, layout |-> saved.layout,
                 agent |-> [look |-> saved.agent.look, place |-> Seed.agent.place],
                 running |-> FALSE, rev |-> IF saved.map = Seed.map THEN 1 ELSE 2,
                 edits |-> world.edits, life |-> world.life + 1]
  /\ inbox' = Sent(Append(inbox, Snapshot(world')))
  /\ puts' = [i \in 1 .. MaxSaves |-> IF puts[i] = Idle THEN Idle ELSE [pc |-> "failed"]]
  /\ fetch' = IF fetch.pc \in {"asked", "answered"} THEN [pc |-> "failed"] ELSE fetch
  /\ UNCHANGED <<served, store, editor, canvasVars, sprite, history>>

-----------------------------------------------------------------------------
(* The canvas: it subscribes once its first map is there, and then looks at *)
(* the store after every change of it.                                      *)

\* Mutant: only a greater revision counts as a newer one.
MapOutran(s) == subscribed /\ fetch = Idle /\ (cache = None \/ s.rev > cache.rev)

\* ensureFreshMap
MapWanted(s) == subscribed /\ fetch = Idle /\ (cache = None \/ s.rev # cache.rev)

\* ensureCharacterTexture: what is cached, or what is to be cached; without the
\* manifest nothing can be composed.
Composed(p, look) ==
  IF p.pictures[look] # "none" THEN p.pictures[look]
  ELSE IF p.manifest THEN "making" ELSE "null"

\* Without a picture an agent wears the sheet.
Worn(p) == IF p.pictures[p.key] = "made" THEN p.key ELSE Plain

\* Swaps that overlapped end well once the visual shows what it should.
Settled(p) == [p EXCEPT !.overlap = @ /\ ~ (p.swaps = {} /\ p.shown = Worn(p))]

\* applyAppearance: the key is set first.  What is at hand is put up at once, whatever
\* older swap still waits; the rest waits for the picture or for the sheet.
Swapped(p, look) ==
  LET picture == Composed(p, look)
      ready   == picture = "made" \/ (picture = "null" /\ p.sheet)
      swap    == [look |-> look, prev |-> p.key,
                  waits |-> IF picture = "making" THEN "picture" ELSE "sheet"]
  IN IF look = p.key THEN p
     ELSE Settled([p EXCEPT !.key = look, !.pictures[look] = picture, !.retry = FALSE,
                     !.shown = IF ~ ready THEN @ ELSE IF picture = "made" THEN look ELSE Plain,
                     !.swaps = IF ready THEN @ ELSE @ \cup {swap},
                     !.overlap = @ \/ p.swaps # {}])

\* The store becomes s, and whoever subscribed reacts.
Set(s) ==
  /\ store' = s
  /\ fetch' = IF MapWanted(s) THEN [pc |-> "asked"] ELSE fetch

\* syncAgents, when the agents' record is another one.
Sync == sprite' = IF sprite = None THEN None ELSE Swapped(sprite, store'.agent.look)

\* Mutant: the revision is the one the store knows of.
ReceiveMapAsKnown ==
  /\ fetch.pc = "answered"
  /\ cache' = [map |-> fetch.map, rev |-> store.rev, life |-> fetch.life]
  /\ fetch' = [pc |-> "building", map |-> fetch.map]
  /\ UNCHANGED <<server, inbox, store, editorVars, drawn, subscribed, sprite, faults, history>>

\* setMap; the reaction finds the request still under way.
ReceiveMap ==
  /\ fetch.pc = "answered"
  /\ cache' = [map |-> fetch.map, rev |-> fetch.rev, life |-> fetch.life]
  /\ fetch' = [pc |-> "building", map |-> fetch.map]
  /\ UNCHANGED <<server, inbox, store, editorVars, drawn, subscribed, sprite, faults, history>>

\* The tiles are loaded and drawn.  With the first map the canvas begins to follow the
\* store.  No look at the revision follows.
BuildMap ==
  /\ fetch.pc = "building"
  /\ drawn' = fetch.map /\ fetch' = Idle /\ subscribed' = TRUE
  /\ UNCHANGED <<server, inbox, store, editorVars, cache, sprite, faults, history>>

\* The request comes to nothing, the canvas follows the store all the same; the next
\* change of it asks again.
MapFails ==
  /\ \/ fetch.pc = "failed" /\ UNCHANGED faults
     \/ fetch.pc = "asked" /\ Fault
  /\ fetch' = Idle /\ subscribed' = TRUE
  /\ UNCHANGED <<server, inbox, store, editorVars, cache, drawn, sprite, history>>

Waiting(on) == {p \in sprite.swaps : p.waits = on}

\* All who wait for one picture share the promise of it.
PictureOf(look) == {p \in Waiting("picture") : p.look = look}

FinishPicture(look) ==
  /\ sprite # None /\ PictureOf(look) # {}
  /\ sprite' = Settled([sprite EXCEPT !.pictures[look] = "made", !.shown = look,
                                      !.swaps = @ \ PictureOf(look)])
  /\ UNCHANGED <<server, inbox, store, editorVars, fetch, canvasVars, faults, history>>

\* A piece of it fails to load: there is no picture of the look from now on.  The key
\* stays and the sheet is put up, once it is loaded.
PictureFails(look) ==
  /\ sprite # None /\ PictureOf(look) # {} /\ Fault
  /\ LET none == [sprite EXCEPT !.pictures[look] = "null", !.swaps = @ \ PictureOf(look)]
     IN  sprite' = IF sprite.sheet THEN Settled([none EXCEPT !.shown = Plain])
                   ELSE [none EXCEPT !.swaps = @ \cup {[p EXCEPT !.waits = "sheet"] :
                                                        p \in PictureOf(look)}]
  /\ UNCHANGED <<server, inbox, store, editorVars, fetch, canvasVars, history>>

LoadSheet ==
  /\ sprite # None /\ Waiting("sheet") # {}
  /\ sprite' = Settled([sprite EXCEPT !.sheet = TRUE, !.shown = Plain,
                                      !.swaps = @ \ Waiting("sheet")])
  /\ UNCHANGED <<server, inbox, store, editorVars, fetch, canvasVars, faults, history>>

\* Mutant: the key stays that of the look that could not be put up.
SheetForgotten ==
  /\ sprite # None /\ Waiting("sheet") # {} /\ Fault
  /\ sprite' = [sprite EXCEPT !.swaps = @ \ Waiting("sheet")]
  /\ UNCHANGED <<server, inbox, store, editorVars, fetch, canvasVars, history>>

\* The key goes back, so that the next change of the agents tries again.
SheetFails ==
  /\ sprite # None /\ Fault
  /\ \E p \in Waiting("sheet") :
       sprite' = [sprite EXCEPT !.key = p.prev, !.swaps = @ \ Waiting("sheet"), !.retry = TRUE]
  /\ UNCHANGED <<server, inbox, store, editorVars, fetch, canvasVars, history>>

\* applyCharacterManifest: what could not be composed without it is tried again.
ManifestArrives ==
  /\ sprite # None /\ ~ sprite.manifest
  /\ sprite' = Swapped([sprite EXCEPT !.manifest = TRUE, !.pictures = NoPictures, !.key = None],
                       store.agent.look)
  /\ UNCHANGED <<server, inbox, store, editorVars, fetch, canvasVars, faults, history>>

-----------------------------------------------------------------------------
(* The socket. *)

Applied(s, message) ==
  CASE message.type = "world_snapshot" -> Shown(message.world)
    [] message.type = "agent_moved"    -> [s EXCEPT !.agent.place = message.place]
    [] message.type = "tick"           -> [s EXCEPT !.running = TRUE]
    [] message.type = "world_paused"   -> [s EXCEPT !.running = FALSE]

\* The draft outlives every snapshot; worldSnapshotSeq tells the editor of it.
DeliverSnapshot ==
  /\ inbox # <<>> /\ Head(inbox).type = "world_snapshot" /\ inbox' = Tail(inbox)
  /\ Set(Applied(store, Head(inbox))) /\ Sync
  /\ heard' = [edits |-> Head(inbox).world.edits, agent |-> Head(inbox).world.agent]
  /\ stray' = FALSE /\ editor' = [editor EXCEPT !.stale = editor.on]
  /\ UNCHANGED <<scene, server, puts, canvasVars, faults>>

DeliverMove ==
  /\ inbox # <<>> /\ Head(inbox).type = "agent_moved" /\ inbox' = Tail(inbox)
  /\ Set(Applied(store, Head(inbox))) /\ Sync
  /\ heard' = [heard EXCEPT !.agent.place = Head(inbox).place]
  /\ editor' = [editor EXCEPT !.missed = @ \/ editor.on]
  /\ UNCHANGED <<scene, server, puts, canvasVars, faults, stray>>

DeliverTick ==
  /\ inbox # <<>> /\ Head(inbox) = Tick /\ inbox' = Tail(inbox)
  /\ Set(Applied(store, Head(inbox)))
  /\ UNCHANGED <<server, editorVars, canvasVars, sprite, faults, history>>

DeliverPause ==
  /\ inbox # <<>> /\ Head(inbox) = WorldPaused /\ inbox' = Tail(inbox)
  /\ Set(Applied(store, Head(inbox)))
  /\ editor' = [editor EXCEPT !.missed = @ \/ editor.on]
  /\ UNCHANGED <<server, puts, canvasVars, sprite, faults, history>>

Deliver == DeliverSnapshot \/ DeliverMove \/ DeliverTick \/ DeliverPause

-----------------------------------------------------------------------------
(* The editor. *)

Publish(draft) == Set([store EXCEPT !.layout = draft, !.running = FALSE])

\* The layout, the whole record of the agents, and whether the world runs.
Base == [layout |-> store.layout, agent |-> store.agent, running |-> store.running]

EnterEdit ==
  /\ scene.drafts /\ ~ editor.on
  /\ editor' = [on |-> TRUE, draft |-> store.layout, stale |-> FALSE, missed |-> FALSE,
                base |-> IF editor.base = None THEN Base ELSE editor.base]
  /\ Publish(store.layout)
  /\ UNCHANGED <<server, inbox, puts, canvasVars, sprite, faults, history>>

UpdateDraft ==
  /\ editor.on
  /\ \E l \in Layouts : editor' = [editor EXCEPT !.draft = l] /\ Publish(l)
  /\ UNCHANGED <<server, inbox, puts, canvasVars, sprite, faults, history>>

\* Mutant: the layout on the floor plan stays that of the draft.
CancelKeepsDraft ==
  /\ editor.on
  /\ editor' = NotEditing
  /\ Set([store EXCEPT !.agent = editor.base.agent, !.running = editor.base.running]) /\ Sync
  /\ stray' = (stray \/ editor.stale \/ editor.missed)
  /\ UNCHANGED <<scene, server, inbox, puts, canvasVars, faults, heard>>

\* Mutant: what to go back to is kept for the next draft.
CancelKeepsBase ==
  /\ editor.on
  /\ editor' = [NotEditing EXCEPT !.base = editor.base]
  /\ Set([store EXCEPT !.layout = editor.base.layout, !.agent = editor.base.agent,
                       !.running = editor.base.running]) /\ Sync
  /\ stray' = (stray \/ editor.stale \/ editor.missed)
  /\ UNCHANGED <<scene, server, inbox, puts, canvasVars, faults, heard>>

\* What was there when the draft began is put back, whatever came since.
CancelEdit ==
  /\ editor.on
  /\ editor' = NotEditing
  /\ Set([store EXCEPT !.layout = editor.base.layout, !.agent = editor.base.agent,
                       !.running = editor.base.running]) /\ Sync
  /\ stray' = (stray \/ editor.stale \/ editor.missed)
  /\ UNCHANGED <<scene, server, inbox, puts, canvasVars, faults, heard>>

\* Nothing keeps a second save from starting; editing goes on meanwhile.
Save(i) ==
  /\ editor.on /\ i <= scene.saves /\ puts[i] = Idle
  /\ puts' = [puts EXCEPT ![i] = [pc |-> "asked", layout |-> editor.draft]]
  /\ Set(store)
  /\ UNCHANGED <<server, inbox, editor, canvasVars, sprite, faults, history>>

\* An answer that is older than what the socket has told of.
Old(w) == w.edits < heard.edits \/ (w.edits = heard.edits /\ w.agent # heard.agent)

\* Mutant: the editor is closed, the draft stays.
SavedDraftStays(i) ==
  /\ puts[i].pc = "answered"
  /\ Set(Shown(puts[i].world)) /\ Sync
  /\ puts' = [puts EXCEPT ![i] = Idle] /\ editor' = [editor EXCEPT !.on = FALSE]
  /\ stray' = Old(puts[i].world)
  /\ UNCHANGED <<scene, server, inbox, canvasVars, faults, heard>>

\* The answer's snapshot is applied and whatever draft is open by now is done with.
SaveAnswered(i) ==
  /\ puts[i].pc = "answered"
  /\ Set(Shown(puts[i].world)) /\ Sync
  /\ puts' = [puts EXCEPT ![i] = Idle] /\ editor' = NotEditing
  /\ stray' = Old(puts[i].world)
  /\ UNCHANGED <<scene, server, inbox, canvasVars, faults, heard>>

\* Refused by validation, or lost on either way: the error is shown, the draft kept.
SaveFails(i) ==
  /\ puts[i] # Idle
  /\ puts' = [puts EXCEPT ![i] = Idle] /\ Set(store)
  /\ UNCHANGED <<server, inbox, editor, canvasVars, sprite, faults, history>>

-----------------------------------------------------------------------------
Next ==
  \/ OthersEdit \/ SendTick \/ Pause \/ Resume \/ ServeMap \/ Restart
  \/ ReceiveMap \/ BuildMap \/ MapFails
  \/ \E look \in Looks : FinishPicture(look) \/ PictureFails(look)
  \/ LoadSheet \/ SheetFails \/ ManifestArrives
  \/ Deliver
  \/ EnterEdit \/ UpdateDraft \/ CancelEdit
  \/ \E i \in 1 .. MaxSaves : Save(i) \/ ServePut(i) \/ SaveAnswered(i) \/ SaveFails(i)

\* The tick loop never ends, the socket delivers, requests are answered or fail,
\* the browser goes on with what has come.
Spec ==
  /\ Init /\ [][Next]_vars
  /\ WF_vars(SendTick) /\ WF_vars(Deliver)
  /\ WF_vars(ServeMap \/ MapFails \/ ReceiveMap \/ BuildMap)

-----------------------------------------------------------------------------
(* What must hold. *)

\* Every variable has its type; a draft and what cancelling goes back to are there
\* exactly while somebody edits.
TypeOK ==
  /\ scene \in Scenes /\ world \in Worlds /\ served \subseteq Layouts /\ store \in Stores
  /\ inbox \in Seq(Messages) /\ Len(inbox) <= Room
  /\ editor \in Editors
  /\ editor.on <=> editor.draft # None
  /\ editor.on <=> editor.base # None
  /\ puts \in [1 .. MaxSaves -> Puts] /\ fetch \in Fetches
  /\ cache \in Held \cup {None} /\ drawn \in Maps \cup {None} /\ subscribed \in BOOLEAN
  /\ sprite \in Sprites \cup {None} /\ faults \in 0 .. MaxFaults
  /\ heard \in [edits : 0 .. MaxEdits, agent : Agents] /\ stray \in BOOLEAN

\* The whole scheme of map_rev rests on it: in one life of the server the map the
\* browser holds for the current revision is the current map.
CacheIsOneMap ==
  cache # None /\ cache.life = world.life /\ cache.rev = world.rev => cache.map = world.map

\* A revision of an earlier life of the server that the current one uses again.
Alias == cache # None /\ cache.life # world.life /\ cache.rev = world.rev

\* With the world left running the canvas ends up with its map, however requests
\* overlapped with edits, failed or were ignored (OfficeCanvas.tsx:753-765), unless
\* the server has come to use a revision again.
MapCatchesUp ==
  <>[](world.running) => <>[](drawn = world.map \/ Alias)

\* Nothing is under way between browser and server.
Drained == inbox = <<>> /\ \A i \in 1 .. MaxSaves : puts[i] = Idle

\* Once the editor is closed and nothing is under way the store shows the world, as if
\* there had never been a draft: unless a draft was cancelled over a snapshot, a pause
\* or a move of the agent, whose base is older than they are (LayoutEditorPanel.tsx:449),
\* or a save was answered with less than the socket had told of by then; and then only
\* until the next snapshot.
EditorLeavesNoTrace ==
  Drained /\ ~ editor.on /\ ~ stray =>
    /\ store = [Shown(world) EXCEPT !.running = store.running]
    /\ store.running => world.running

\* At any moment, whatever is under way and however drafts, saves and snapshots
\* crossed: without an open draft the floor plan is one the server has had. Cancelling
\* discards what was drafted only (LayoutEditorPanel.tsx:449-462).
DraftsStayPrivate == ~ editor.on => store.layout \in served

\* Once no change of textures is under way, unless one began while another was, the
\* agent wears the picture of its key, or the sheet when there is no such picture
\* (OfficeCanvas.tsx:118-123); a picture that can be made has been tried; and the key is
\* that of the agent's looks, but for a sheet that failed to load since they changed.
LooksSettle ==
  sprite # None /\ sprite.swaps = {} /\ ~ sprite.overlap =>
    /\ sprite.shown = Worn(sprite)
    /\ sprite.manifest => sprite.pictures[sprite.key] # "none"
    /\ sprite.retry \/ sprite.key = store.agent.look
=============================================================================
