# Verification of the Annex-b office simulation

TLA+ models of the resident office world, of what makes it durable, of how it
reaches the browsers and what they make of it, and of the gateway to the language
models; TLC configurations that check them on small instances; and TLAPS proofs
that every safety property and both refinements hold for every value of the constants.

    tlasany M.tla                       parse a module
    tlc -config X.cfg M                 model-check module M
    tlapm M.tla                         check the proofs of module M, one of WorldProofs,
                                        OfficeProofs, SavesProofs, GatewayProofs, StreamProofs,
                                        BrowserProofs, PathfindProofs, GridProofs (half a minute
                                        to some minutes each)

## 1. The system

The server (`src/engine`) keeps one *resident world*: an office map, a layout of
furniture, a roster of agents. A task advances it tick by tick; agents arrive at
their hour through a door and walk to their own chair. Users watch in a browser
(`src/web`), pause and resume, and replace map, layout or an agent's data while it
runs. Every edit is persisted so that a restart resumes the edited world.

| component | state it keeps | operations | how it interacts | what makes it correct |
|---|---|---|---|---|
| Resident world and tick (`sim-core/world.rs`) | status, clock, speed, `map_rev`, map, layout, collision grid, roster with position, status, path and stall counters | `step`, `pause`, `resume`, `set_speed`, `replace_map`, `replace_layout`, `replace_map_and_layout`, `patch_agent` | everything runs under one lock; `step` returns events | one agent per tile, paths that are legal on the current grid, nobody lost by an edit, everyone seated in the end, stuck agents reported |
| Schedule and clock (`commute.rs`, `clock.rs`) | none | arrival hour from name and grade, clock advance over midnight | called by the world | nobody before its hour, clock within the day |
| Geometry (`tilemap.rs`, `grid.rs`) | none | door scan, connectivity, footprints, seats, validation of maps and layouts | called by the world and the handlers | an accepted layout fits its map; the grid is that of map and layout |
| Path finder (`pathfind.rs`) | heap, closed set and costs of one search | `astar` | called twice per entry or reroute | shortest route or none, always ends |
| Save file (`persist.rs`) | `world_save.json`, `.tmp` | build, write, rename, defensive load | handlers call it after their edit, start-up loads it | a restart finds a whole world, the last one answered |
| Database (`db_persist.rs`, `db.rs`) | rows of worlds, layout items, agents | one writer per kind of edit, load | the same, if a database is configured | rows keep up with the world, agents keep their seats |
| REST handlers (`world_api.rs`, `agents_api.rs`) | the request | edit under the lock, broadcast, persist, answer | world, channel, disk | an answered edit is durable |
| Tick loop, channel, sessions (`sim.rs`, `state.rs`, `ws.rs`) | a bounded broadcast channel, one session per socket | tick and send, subscribe, greet with a snapshot, forward, hang up on lag | the lock orders all broadcasts | no client misses an event for good |
| Socket and store of the browser (`ws/client.ts`, `game/store.ts`) | reconnect timer, the store | reconnect, apply a message, apply the snapshot in an answer | the only copy users see | the store shows the world once nothing is under way |
| Layout editor (`LayoutEditorPanel.tsx`) | a draft and the state to go back to: layout, agents, running | edit, cancel, save | writes the store directly, while the socket writes it too; saves may overlap | no draft stays on the plan; what a cancellation puts back or a late answer brings is corrected by the next snapshot |
| Office canvas (`OfficeCanvas.tsx`, `character_compositor.ts`) | textures, composed pictures, map being shown, cached revision | fetch map, compose sprites | woken by every change of the store, fetches on its own | ends up with the newest map and looks |
| LLM gateway (`llm-gateway`) | keys, mode and tier defaults read at start | resolve tier, call with retries, embed, report providers | reads an agent's profile; only `/healthz` calls it yet | calls go where profile, tier and mode say, as often as the tier allows |
| Validators (`llm_profile.rs`, `appearance.rs`) | none | check a profile, check an appearance | PATCH and the load of the save file | nothing the API refuses is ever served; nothing accepted is dropped |
| Budget, pricing, metering, JSON guard, agent core, generators, scripts, migrations | none | pure functions, stubs, one-shot tools | | |

What is hard to test here, and what the properties aim at, is listed line by line
under `hazards` in `PROJECT.json`. In short: a tick touches agents one after the
other over a set of occupied tiles that earlier agents of the same tick have
changed; edits land in the middle of a day; caches (grid, chairs, schedule, roster
order) have different refresh rules in each operation; waiting agents can wait for
one another; handlers edit under the lock but persist outside it, with one
temporary file for all; a process can end between any two file operations; events,
snapshots and HTTP answers reach a client on different ways; a channel of bounded
length overruns; in the browser a draft, a map request and the composing of pictures
are under way while the store changes beneath them.

## 2. The modules

| module | models | composes |
|---|---|---|
| `Grid` | geometry: doors, connectivity, footprints, seats, validation, what a route is | |
| `Pathfind` | A* as operators: `Expand`, `DropStale`, `Backtrack`, `astar` | `Grid` |
| `PathfindRun` | the search loop as a state machine beside a breadth-first reference | `Pathfind` |
| `World` | the resident world: one action per operation and per branch of the tick | `Grid`; the path finder is the parameter `Route` |
| `Office` | abstract: an office as visitors see it | `World` implements it (`View`) |
| `Saves` | handlers, save file, database, crash and restart | |
| `History` | abstract: one world of the past is kept for the next start | `Saves` implements it (`Durable`) |
| `Stream` | tick loop, channel, sessions, sockets, store, answers | |
| `Browser` | layout editor, canvas and store of one browser | the server and its channel as `Stream` shows them to be |
| `AgentData` | profile and looks of an agent: validators, PATCH, defensive load | |
| `Gateway` | tier resolution, retry loop, providers, health report | `AgentData` |
| `GridProofs`, `PathfindProofs`, `WorldProofs`, `OfficeProofs`, `SavesProofs`, `GatewayProofs`, `StreamProofs`, `BrowserProofs` | theorems, section 4 | the module named, TLAPS |
| `MCPathfind`, `MCWorld`, `MCSaves`, `MCBrowser`, `MCGateway` | the small instances for TLC; `MCWorld` gives `Route` the `astar` of `Pathfind` | |

**World.** The variables are the fields of `WorldState` and `AgentSim`, in groups:
the world (`mode`, `clock`, `simDay`, `speed`, `mapRev`), the place (`map`, `layout`,
`grid`), the roster (`name`, `rosterKey`, `chair`, `spawnSec`) and the walkers
(`spawned`, `status`, `pos`, `path`, `stall`, `rerouteFails`). `step` holds the lock for
two loops over the roster; the model takes one agent per step. `phase` says which
loop is running, `todo` whom it has still to visit, `occupied` is the set the code
builds once per tick and updates as agents move. All other operations need the
lock and wait for phase `idle`. `rosterKey` holds the names the roster was last
sorted by: `patch_agent` changes a name and neither the order nor the schedule.
`shown` is what a client that applied every event since the last snapshot holds,
and `stuckNote` whom the current tick has reported. Rejected requests change
nothing and are no action.

**Pathfind.** The heap order (f, then h, then cell index) makes the search
deterministic; the model keeps it, with stale entries dropped lazily as in the code.
`World` takes the path finder as a parameter of which the theorems assume only that
what it returns is a route (`RouteAssumption`). The runs put `astar` there, for which TLC
evaluates the assumption and `PathfindProofs` proves it.

**Saves.** A handler's request is edit (under the lock), copy (under the lock), open
the temporary file (which truncates it), write, rename, answer. The steps of two
handlers interleave, each can fail without the request noticing, and the process
can end between any two. File contents are the save they hold or bytes that do not
parse; a descriptor follows its file through another handler's rename. The
database branch is one step per transaction, with the re-linking of desks by key.
`Applies`, `NamesApply` and `FromFile` are the defensive load of the next start.

**Stream.** Of the world's content the model keeps what the properties tell apart:
running or not, the number of the edit that made it, the tile of one agent, the
clock. A client's link goes from `closed` over `subscribed` (on the channel, waiting for
the lock) and `greeting` (the snapshot is being sent) to `open`; a session that finds the
channel overrun ends, and the client handles what had been sent before its timer
starts. The events of one tick enter the channel in one step, as the lock is held;
a session that could have made room between two of them is the same as one with a
larger channel. Answers to editing requests go a way of their own (`replies`): a form waits
for its own answer, but the layout editor, the agent panel and the world settings do not
wait for one another, so any number may be under way, come in any order or be lost.
`overtaken` is history: one of a client's own answers came after a younger one, or was
lost, and no snapshot has come over the socket since.

**Office and History** state what `World` and `Saves` come to. `Office` knows who is inside
and where, who sits, whose chair is where and which tiles can be walked on. Its only
steps are that one person comes in, one walks to a neighbouring free tile (and may sit
down on its own chair), or all are sent out. `World` maps its roster to it (`View`); ticks,
phases, stalls, detours, schedules and the status of the world become stuttering.
`History` knows a world, the one world that is kept and the past it may come from; an
edit, a save and a start are its steps. `Saves` maps the file to it (`Durable`): opening,
writing and renaming by several handlers stutter or keep a whole world of the past.
Only the deployment with a file implements it; with the database the rows lag behind
one by one, so that what a restart finds need never have been.

**Browser.** `store` is what the socket, the answers and the editor write; every write
(`Set`) wakes the canvas, which may ask for a map (`MapWanted`), and one that replaces the
agents' record (`Sync`) may swap pictures (`Swapped`). Of the agents one is kept: how it
looks and where it is, its status included. `editor` holds the draft, what cancelling goes
back to (`Base`: layout, the whole record of the agents, whether the world runs) and the
notice that a snapshot came since; `puts` are the saves under way, as many at once as the
user starts; `fetch` is the map request; `cache` is the map and revision last fetched,
`drawn` the map on the screen, which follows only when its tiles are there. `sprite` is the
agent's visual: the key it was told to wear, what it shows, the swaps under way, and per
look the promise in the texture cache: none, being composed, made, or null. A picture is
null if a piece is missing, if the manifest is not there yet, or for the empty appearance;
then the key stays and the sheet every agent has is put up, once it is loaded (`LoadSheet`).
Only a sheet that fails to load sets the key back (`SheetFails`). When the manifest arrives
(`ManifestArrives`) the cache is dropped and every key is tried again. Several waiters share
one promise. What `Stream` shows of the channel is one operator here (`Sent`): in order, and
a client that falls behind gets a fresh snapshot. The variables `heard` and `stray` are
history: what the socket last told of, and whether the editor has put an older state into
the store since the last snapshot.

**AgentData and Gateway.** JSON values are functions and texts sequences of the pieces
they read as, so that the validators, the parser and the patch can be translated case by
case: values that are no object, keys that are unknown, texts without a colon, with two,
with an unknown provider, without a model. `data` is what the resident world holds; a start
takes it from the seed, the file (through the defensive load) or, unchecked, the row.
`call` is one call from resolution to its answer, with the attempts so far (`tries`) and what
is on the wire; users patch `data` while it is under way. The environment is read at start.

## 3. The runs

| run | module | asks | bounds | result |
|---|---|---|---|---|
| `pathfind` | MCPathfind | is the answer of A* a shortest route or rightly none, are closed cells final, does it end | 4 x 3 room, all patterns of at most 3 walls, 3 starts, all goals, with no, one and two agents in the way | holds, 93 thousand states |
| `world_edits` | MCWorld | the safety of the world under edits; does it implement `Office` | 3 agents with three names, 3 maps, 5 layouts, a day of 12 ticks, 2 map revisions | holds, 49 thousand states |
| `world_day` | MCWorld | is everyone seated in the end but for the cases the code has no answer to, and is who makes no progress reported again and again | 2 agents due in the same tick, with a name to spare, one door or two at opposite ends, 4 layouts (chairs in a row, one behind the other, across a corridor one tile wide, across a room), a day of 2 ticks, 2 map revisions | holds, 171 thousand states |
| `world_standoff` | MCWorld | are conflicts between walkers resolved | the two sent against each other in a room with space to pass | violated, see section 6 |
| `world_doorway` | MCWorld | the same with a chair on a door tile | | violated, see section 6 |
| `saves` | MCSaves | what a restart can bring back; does the file implement `History` | 2 handlers, 3 edits per life of the process, both deployments | holds, 467 thousand states |
| `saves_race`, `saves_names` | MCSaves | is every answered edit durable | 2 handlers with a file; one handler and names that pass on | violated, see section 6 |
| `stream` | Stream | does a client show the world once nothing is under way, and does it get there | 1 client, another editor, channel of 2 events, socket room of 1, 2 edits whose answers may overlap, 1 fault | holds, 1.97 million states |
| `stream_late` | Stream | do all clients freeze together | the client edits itself | violated, see section 6 |
| `browser` | MCBrowser | what is left of a draft, which map and which looks are shown once things settle | 6 scenes; 3 maps, 2 layouts, 3 looks, 2 places, 2 messages on their way, 2 or 3 edits, 2 saves at once, 1 fault | holds, 922 thousand states |
| `gateway` | MCGateway | where calls go, how often and with what; what a start accepts | 3 environments, 6 profiles, 3 appearances, 2 prompts, both sources | holds, 104 thousand states |

**Why these bounds are enough.** In `world_edits` three agents are the least of which one
boxes another in while a third walks; the rooms have a passage one tile wide, a seat no path
reaches, doors on opposite walls and desks to walk round. Its three agents have three names,
so the only renames left change nothing; `world_day` has a name to spare and exercises
renames, the roster order they leave behind included. In `world_day` both agents are due in
the same tick, as manager and contractor are (commute.rs:43-44): through one door they come one
after the other, through doors at opposite ends they come towards each other. Four layouts
make the ways two walkers meet differ: chairs in a row on one way, a chair that closes
the way to the other, a corridor one tile wide that both must cross (each walls the other
in, and both are reported), and a room where they pass each other. Two maps and two
revisions let a map be replaced in the middle of either. Two agents show no ring of three
or more that wait for one another: what `EveryoneArrives` says of larger crowds is not
checked. The day is scaled so that arrivals, the reroute threshold and the report
threshold all fall within it and, in `world_edits`, midnight comes while agents still wait
outside; in `world_day` it comes every other tick.
`DayCap` wraps the day counter and `MaxMapRev` bounds edits that change the map (layouts
and names are edited without bound). Two handlers are enough for every race on the
temporary file, three edits for two of them to be overtaken by a third. A channel of
two events is overrun by a tick in which an agent moves when one event is waiting;
one fault is enough to break the socket or the server at every point. Clients share
nothing but the channel, each with a receiver of its own, so one client and
everything others can do to the world stand for any number.

In `browser` a fault is a restart, a failed map request, or a picture or sheet that cannot
be loaded. Two edits and one restart are the least that let an edit fall into a request
under way, into a draft, and a revision be used twice; the third map is needed to tell the
map before, the one fetched and the one after apart, the third look to tell the empty
appearance and two others apart. The draft, the map and the looks share only the store, so
the run takes them in five *scenes*, in each of which something rests: others replace maps
under a canvas that waits for its first one (141 thousand states); the agent changes its
looks, with and without the manifest (101); somebody drafts and saves, two saves at once,
while others put layouts (723); somebody drafts and saves while the agent moves (394); the
server is restarted meanwhile (127). The theorems of section 4 hold for any scene, also the
one in which all of it may happen together. In `gateway` the profiles have one value per
branch of validator and parser, the environments one per branch of `from_env` and `new` that
the properties tell apart; calls share nothing, so one at a time stands for any number.

**Properties of World.** `TypeOK`; `NoSharedTile`; `OccupiedExact` (the set the tick
consults is exact); `PathsLeadHome`; `DerivedIsCurrent` (the grid is that of map and layout,
chairs are the layout's and nobody's twice, who sits does so on its own, and who is
reported unreachable still has no way: the verdict outlives no edit that could open
one); `NobodyVanishes`; `ClientInStep`
(a client that applies all events knows every status, and the tile of all who walk
or sit; a stranded agent's tile is never broadcast, which is why the property does
not claim it); `NoTeleport`; `FloorClearsOnlyByReset`; and, under fairness,
`EveryoneArrives` and `StuckIsLoud`. `EveryoneArrives` says that waiting and rerouting fail in
three ways only: an agent is walled in for good by where its colleagues stand
(`WalledIn`), shut out because they hold every door (`ShutOut`), or meets another walker face to
face again and again (`FaceToFace`). The first and the third are real: two agents that must
cross a corridor one tile wide wall each other in, which is reported; two that meet in the
open may step aside to the same side for ever, which is not (`world_standoff`, section 6).
`ConflictsResolve` is what the module comment of world.rs promises, that only those who
*sit* keep anyone from its chair. `IsAnOffice` is the refinement of `Office`.

**Properties of Saves.** `LoneSaveIsSafe`: what was stored while no other request was under
way survives a crash at any moment until the next edit replaces it. `RestoresHistory`:
however handlers interleave, a restart finds a world that once was, never parts of two;
`KeepsHistory` is the refinement of `History`, which says the same of every step and of what
a start serves. `RowsKeepUp`: the database ends up with everything but the map, unless a
write failed: then the code logs it and answers 200, and the rows stay behind until that
part is edited again. The run `saves` lets only names be taken that no other agent bears in
the seed; `saves_names` shows what happens otherwise.

**Properties of Stream.** `WatchersInStep`: a client that has not edited shows the world
as soon as nothing is under way to it, whatever raced its snapshot, lagged, broke or
restarted. `OwnEditsShow`: a client that alone edits ends with the world's plan although
each snapshot reaches it twice and its requests overlap. It excuses the case the store
cannot tell, having no revision: an answer that comes after a younger one, or of which the
younger one was lost, leaves its older plan behind, until the next snapshot comes over the
socket (`overtaken`). `WatchersCatchUp`: a watcher does get there.

**Properties of Browser.** `DraftsStayPrivate`: at any moment, whatever is under way and
however drafts, saves and snapshots crossed, a plan shown without an open draft is one the
server has had. `EditorLeavesNoTrace`: once the editor is closed and nothing is under way
the store shows the world, agents and their places included, as if there had been no draft.
It excuses what the code does not prevent, until the next snapshot (`stray`): a draft
cancelled over a snapshot, a pause or a move of an agent puts back what was there before
them (LayoutEditorPanel.tsx:449-458), and a save may be answered with an older world than
the socket has told of. What is left is what could go wrong beside that: a base kept for the
next draft, a cancellation over nothing that loses something, an answer that is not older
but leaves something older. `CacheIsOneMap`: the map kept for a revision is the map of that
revision. `MapCatchesUp`: left running, the canvas comes to show the current map however
requests overlapped with edits or failed, unless the server has restarted and come to use
the cached revision for another map (`Alias`). Of a paused world it says nothing: there a
revision ignored while a request was under way is asked for only with the next message.
`LooksSettle`: once no change of textures is under way, an agent wears the picture of its
key, or the sheet if there is none of it, any picture that can be made has been tried, and
the key is that of its looks unless the sheet failed to load (`retry`, which the next change
of the agents takes up); unless changes overlapped (`overlap`), of which the older may be
put up last.

**Properties of AgentData and Gateway.** `OnlyValidServed`: whoever edited the save file, the
world serves only what the API would accept. `SavedDataReturns`: what it serves comes back
unchanged from the next save and load. `CallsGoWhereTold`: a profile the API accepted names
the provider that is called, with whatever is patched meanwhile. The model it names is what
the call is resolved to, and no more: it is never sent (section 6). `MockIsSealed` and
`L0StaysLocal`: the mode and the pinned tier win over any profile, valid or not.
`RetriesFollowPolicy` and `EveryCallEnds`: attempts and waiting are bounded by the tier, none
follows a success. `HealthIsHonest`: `/healthz` and the calls judge keys alike.
`NothingSaidIsLost`: every provider's body carries every system text and turn in order.

**Fairness.** `World`: the tick loop never ends and never blocks (`sim.rs:122-149`), a tick
begun is finished; so the loop's phases turn and each loop works off its agents. Nothing is
assumed of users: the liveness properties speak of worlds that are left running.
`PathfindRun`: the loop is sequential code. `Stream`: the session task runs whenever it can,
the reconnect timer always fires, the browser handles what has arrived. Users and network
owe nothing: `WatchersCatchUp` assumes only that pauses, which are broadcast even in a
paused world, stop some time; edits and faults are bounded by constants. `Browser`: the tick
loop goes on, the socket delivers, a map request is answered or fails, its answer is handled
and its tiles are drawn; nothing is assumed of users, of the editor's saves or of pictures
and sheets. `Gateway`: an attempt ends, since each request carries the tier's timeout
(`.timeout(timeout)` in every provider). No fairness is assumed of `Saves`, whose properties
are safety.

Every property of a passing run has a mutant in `PROJECT.json`: a plausible bug in one
mapped definition (marked "Mutant" in the modules, used nowhere else) under which TLC
finds the property violated.

## 4. What is proved

Every safety invariant and action property of a passing run, and both refinements, are
theorems: TLC shows them on a small instance, TLAPS for **every** value of the constants
(any number of agents, handlers, clients; any maps, layouts, schedules, profiles,
environments, prompts, channel capacities, numbers of edits and faults).

| module | theorem | states |
|---|---|---|
| `WorldProofs` | `IInvHolds` | the inductive invariant of `World` |
| | `TypeCorrect`, `NobodySharesATile`, `OccupancyIsExact`, `EveryPathLeadsHome`, `NobodyEverVanishes`, `DerivedStateIsCurrent` | `[]` of `TypeOK`, `NoSharedTile`, `OccupiedExact`, `PathsLeadHome`, `NobodyVanishes`, `DerivedIsCurrent` |
| | `AgentsOnlyWalk` | `NoTeleport` |
| `OfficeProofs` | `WorldIsAnOffice` | `IsAnOffice`: `World` implements `Office` |
| | `FloorClearsTogether`, `ClientStaysInStep` | `FloorClearsOnlyByReset`, `[]ClientInStep` |
| `SavesProofs` | `SInvHolds`, `RememberedHolds`, `AllDistinctHolds` | the inductive invariants of `Saves` |
| | `TypeCorrect`, `RestartFindsHistory` | `[]` of `TypeOK`, `RestoresHistory` |
| | `SavesKeepHistory` | `KeepsHistory`: the file implements `History` |
| | `LoneSaveReturns`, `RowsHoldTheWorld` | `[]` of `LoneSaveIsSafe`, `RowsKeepUp`, each under a hypothesis, below |
| `StreamProofs` | `TypeCorrect`, `WatchersStayInStep`, `OwnEditsReturn` | `[]` of `TypeOK`, `WatchersInStep`, `OwnEditsShow` |
| `BrowserProofs` | `BInvHolds` | the inductive invariant of `Browser` |
| | `TypeCorrect`, `RevisionsNameMaps`, `NoTraceStays`, `DraftsAlwaysPrivate`, `LooksAlwaysSettle` | `[]` of `TypeOK`, `CacheIsOneMap`, `EditorLeavesNoTrace`, `DraftsStayPrivate`, `LooksSettle` |
| `GatewayProofs` | `DataInv`, `GInvHolds` | the inductive invariants of `AgentData` and `Gateway` |
| | `ServedIsValid`, `SavesRoundTrip` | `[]` of `OnlyValidServed`, `SavedDataReturns` |
| | `TypeCorrect`, `MockNeverSends`, `L0NeverLeaves`, `CallsAreAimed`, `PolicyIsKept`, `HealthReportHolds`, `PromptsArriveWhole` | `[]` of `TypeOK`, `MockIsSealed`, `L0StaysLocal`, `CallsGoWhereTold`, `RetriesFollowPolicy`, `HealthIsHonest`, `NothingSaidIsLost` |
| `PathfindProofs` | `PInvHolds` | the inductive invariant of the search |
| | `ClosedStaysFinal`, `AnswersAreShortest` | `[]` of `ClosedIsFinal`, `ShortestAnswer` |
| | `AstarMeetsContract`, `RouteAssumptionHolds` | `astar` answers with routes only; it is a path finder as `World` assumes one |
| `GridProofs` | `NoRouteIsShorter`, `NoAnswerMeansNoWay` | if there is a route at all `astar` finds one, and none is shorter; where it finds none there is none |
| | `FloodFindsRoutes`, `FloodConnectedIsConnected` | the flood fill reaches the cells one can walk to; the check from the first door accepts exactly the maps with a door and a way between any two floor cells |
| | `AcceptedRoomIsWhole` | in a room the server accepts `astar` finds a way from every floor cell to every other |

`RouteAssumptionHolds` and `NoAnswerMeansNoWay` close the gap between `World`, which takes
any path finder that meets a contract, and the one the code has: `World`'s theorems hold
with `astar`, and an agent it reports unreachable is one.

**Assumptions** are named, stand in the module that declares the constants and are
evaluated by TLC in a run: `GeometryAssumption`, `ScheduleAssumption`, `RouteAssumption`
(`World`), `SeedAssumption`, `RequestAssumption` (`Saves`: the seed fits and names each agent
once, a layout's keys are distinct), `StreamAssumption`, `NothingAssumption` (`Stream`),
`BrowserAssumption`, `NoneAssumption` (`Browser`), `DataAssumption`, `FixtureAssumption`
(`AgentData`: the seed is what the API would accept), `EnvAssumption`, `MessageAssumption`
(`Gateway`), `SizeAssumption` (`PathfindRun`). All give the constants types, or say of the seed
what the shipped seed satisfies. Hypotheses of single theorems, each true in the runs:

- `SeedNamesStayOwn` (for `LoneSaveReturns`): nobody takes the name another agent has in
  the seed, unless its bearer is never renamed. Without it the load may drop a save that
  is whole, as `saves_names` shows.
- `KeysStay` (for `RowsHoldTheWorld`): a desk has the same key in every layout; see section 6.
- `NoRoute \notin Seq(Cell)` (for `NoAnswerMeansNoWay`): no route is taken for its absence,
  as `None` and `Some(path)` are told apart by their type.

**The argument for `World`.** No property is inductive alone. That two agents never share
a tile rests on the tick's set: an agent moves when the next tile is not in `occupied`. So
the set must be exact (`OccupiedExact`) throughout the tick, which in turn needs that being
let in and being on the floor are the same thing (`NobodyVanishes`) and that both entering
and moving update the set. That a move is legal needs `PathsLeadHome`, whose step cases
are: a tail of a route is a route; a detour avoids the others and is a route without them
a fortiori; a path stays a route because the grid changes only when all paths are cleared.
For the path finder to be asked within its contract, the asker must stand on a tile of the
collision grid (`Placed`), the grid must be that of map and layout (`Current`), and the
others must be a crowd the contract covers, hence not all agents. `TodoAhead` says that
whoever the move loop has yet to visit is on the floor. `IInv` is the conjunction of these;
there is one lemma per action (`...IInv`), and `StepIInv` puts them together. The refinement
then goes action by action: a move is `Office`'s walk because `PathsLeadHome` makes the next
tile a neighbour and `OccupiedExact` makes it free. `ClientKnows` extends `ClientInStep` into
the middle of a tick.

**Saves.** `SInv` is the types with `Settled` (who is idle holds no copy, whoever writes has
a file open, a process that is down has no requests). `Remembered`: every save that may come
to be loaded, in a copy, behind a descriptor or in the file, looks as a world of the past.
The temporary file an earlier process left is the exception, harmless because opening
truncates it. `AllDistinct`: in each of them every agent has a name of its own. For a lone
save `AloneSinceEdit` says of each stage what is on the disk while no other request has been
under way, and `AllApply` that each save there applies whole, in whatever order its agents
come. For the rows `RowsLag`: while no write has failed, a row differs from the world only
if a request that will write it is under way.

**Stream.** The invariant says of each part a client shows (plan, tile, clock, running): the
newest word under way about it is that of the world (`PendingFits`), and what nothing under
way sets the store has right (`StoreKnows`). Events then need not be followed one by one: a
step of the world appends a message about what it changes, a delivery takes the first
away, a lagged client is owed a snapshot, which sets everything. For a client that alone
edits (`OwnEditsShow`) the plan its store shows is the world's, or the youngest answer is still
coming, or it was overtaken: of all answers handled the youngest plan is remembered
(`answered`), so that one which is not late brings what no other has gone beyond.

**Browser.** `BInv` adds to types and revisions (`CountsFit`) that every map on its way is
that of its revision (`MapsFit`). Of the visual (`SpriteFits`): unless swaps overlapped it
shows what its key says and no swap is under way, or exactly one is, and it shows what the
key would go back to; before the manifest, and whenever the sheet is loaded, no swap waits
for it; and any picture a swap might go back to has been tried. Of the draft (`TraceFits`):
of each kind of message (snapshots, moves, pauses) the newest under way is right about the
world, and without one under way the browser has heard of it and shows it, as does the state
to go back to if nothing came since; an answer as young as the world is of it. So an answer
or a cancellation that overwrites the store does no harm, or is `stray`. `LayoutsFit`: every
layout in a message, an answer, the base and, without a draft, the store is one the server
has had.

**Gateway.** `GInv` says of the call under way that its target is what tier, profile and
mode made of it when it began (`Aimed`), that what is on the wire is the body that provider
builds of the prompt (`OnTheWire`), that attempts follow the policy (`Counted`) and that a
provider is found enabled by all attempts or by none (`Judged`), by the keys `/healthz`
read. That all texts arrive is a statement about prompts of any length: `Texts` and the
bodies are recursive functions, followed turn by turn.

**Pathfind.** The invariant of the search (`SearchFits`): labels lead back to the start over
closed cells at the costs they name; the heap holds the labels and nothing better; every
way of at most so many steps from the start crosses the heap, unless its end is closed.
With the heuristic never more than one less after a step, the cell popped has its final
cost, hence closed cells are final and the first arrival is shortest. Turns are paid for
by closed cells: a cell is closed once and pushes at most four entries, so `4 * |Floor| + 1`
turns, which is what `astar` takes, always suffice (the safety half of termination).
`GridProofs` turns this round: a finished search is a certificate, either a closed set with
no way out that lacks the goal, or a route of at most `|Floor|` steps, so `|Floor|` rings of
the flood are enough.

**Recursion and induction.** The induction theorems of the library take an operator as
parameter, which no installed prover can instantiate. The proofs use the least
counterexample instead: `UpTo` and `Least` (from the well-foundedness of the natural
numbers) speak of a *set* of good numbers, and each recursive definition is a function over
`0 .. n` whose existence is shown as an iteration.

**What proving changed.** `Stream`'s `Applied` had CASE guards that overlap, harmless to TLC and
ambiguous to the prover; they are disjoint now. `Gateway`'s `Texts` became a recursive function
and `ChatMessage` a type of its own. `DerivedIsCurrent` was sharpened to what the proof gives.
That rows can hold one name twice and the need for `KeysStay` were found by failing proofs.

**Only model-checked.** Liveness: `EveryoneArrives`, `StuckIsLoud`, `WatchersCatchUp`,
`MapCatchesUp`, `EveryCallEnds`, `Terminates`. The prover has no ENABLED and no fairness
reasoning. The five violations of section 6 are counterexamples of TLC.

## 5. What is not modelled

- Personality texts: data nothing here reads. Profiles and appearances are in `AgentData`.
- Parsing of Tiled JSON and of database columns: a map is its size and walls, a row
  the record it decodes to.
- Wall-clock pace (`tick_interval_ms`, speed): it only sets how long a tick waits.
- Deployments that write to the database but load from the file or the reverse (the
  branch is chosen by DATABASE_URL, the source by WORLD_SOURCE): a configuration.
- Error replies, toasts, tabs, the furniture manifest, drawing, furniture sprites, walking animation.
- Of the editor: furniture geometry, the local validation (a refused draft changes
  nothing), seat assignments (the server takes none), and the world settings, whose PUT of
  a map is that of any other editor. The local-only mode and the mock mode of the browser
  have no server to disagree with.
- Of the canvas: a tileset that cannot be loaded (a static file of the same origin); the
  building of an agent's first visual, so also a visual still being built when the manifest
  arrives, which keeps the sheet; the bound on composed pictures, whose eviction only makes
  one be composed again; and agents that come and go, as the roster never changes.
- Budget, pricing, metering and the JSON guard of the gateway: pure functions over
  floating-point numbers and texts that nothing calls yet.

## 6. Where the code and its documents disagree

- `world_doorway`: a chair may stand on a door tile. Its owner enters onto it, has an empty
  path, is never seated, never stalls and is never reported, against world.rs:36-42.
- `world_standoff`: world.rs:10-14 says conflicts "are resolved by wait-then-reroute". Two
  walkers who meet face to face stall for equally long and reroute in the same tick, each
  around where the other stands: both take the free row beside, face each other there, and go
  back together, for ever. Every reroute succeeds, which resets `reroute_fails`, so nobody is
  reported. The thresholds of the code (4 and 25) lead to the same dance.
- `saves_race`: persist.rs:3-6 promises that any answered edit survives a restart; two
  handlers share one temporary file and write outside the lock, so the older world can
  be renamed last or a truncated file published.
- `saves_names`: the load applies renames one at a time under a uniqueness check; after
  legal renames that pass a seed name on, the whole save is dropped.
- `stream_late`: the answer to an agent's PATCH carries a snapshot from before the save and
  is applied whenever it arrives; after a pause the client has already shown it sets the
  client running again, against ws.rs:116-126, and a paused world sends nothing to
  correct it.

Ten more were met while modelling and proving. The models have the behaviour, the
properties exempt it by name or do not speak of it, and no run is spent on it:

- OfficeCanvas.tsx:118-119 says the key is what the textures "currently reflect"; with two
  swaps under way the older picture can be put up last, and nothing swaps it again
  (`overlap` in `LooksSettle`).
- OfficeCanvas.tsx:1165-1168 refetches when the revision "outran" the cached one: it compares
  for inequality, and after a restart an equal revision can name another map (`Alias` in
  `MapCatchesUp`).
- tier.rs:3-5 says a profile overrides provider *and* model; `chat_for_tier` (lib.rs:152-165)
  passes `req` on as it came, so the resolved model is never sent.
- lib.rs:179-183 (gateway) says the mock provider is never selected in real mode; the validator
  and the parser accept `mock:...` and LLM_L2_PROVIDER=mock.
- With the database each request writes its own row in its own time, so a process that ends
  between two of them leaves rows of two moments: two agents can come back with one
  name, which `patch_agent` (world.rs:332-333) never allows. `AllDistinctHolds` speaks of
  the file only.
- The schema describes `map_tmj` as the map to use (001_init.sql:24); it is written and never
  read, and a start from the database builds its world on the map of the file system
  (sim.rs:98). `RowsKeepUp` leaves the map out.
- LayoutEditorPanel.tsx:449-458 puts back the agents' record of when the draft began: an agent
  that moved meanwhile jumps back, and in a paused world stays there (`stray` in
  `EditorLeavesNoTrace`).
- A look whose composition came to nothing is cached as null under its key: the sheet stays,
  also when the piece could be loaded later, for as long as the cache keeps it.
  `LooksSettle` calls that settled, as OfficeCanvas.tsx:831-833 does.
- Of a client's own requests the answer that comes last wins, however old (AgentPanel.tsx:318,
  LayoutEditorPanel.tsx:827; `overtaken` in `OwnEditsShow`).
- The resident world finds a desk by its id, the rows by its key (db_persist.rs): a layout that
  moves a key to another id would re-link the rows to a desk the world does not use.
  `RowsHoldTheWorld` therefore assumes that desks keep their keys.

## 7. The plan

Done, in this order: geometry, path finder, world, its proofs, durability, stream,
agent data and gateway, browser, the abstract office and history, and the proofs of all
safety properties and refinements. Left, in the order of their worth:

1. The safety half of the liveness properties, as action properties or invariants: a tick
   works off its agents and ends (`todo` shrinks), an agent that waits for another is
   rerouted or reported after so many ticks, a call has at most so many attempts left.
2. Invariants of `Office` and `History` proved there and inherited through the refinements:
   who sits is inside and on its own chair, what is kept has been.
3. Lemmas about the validators of `AgentData`: what `ValidProfile` accepts the parser reads
   without loss, and the defensive load leaves an accepted value alone.
4. Lemmas about layouts in `Grid`: what `LayoutFits` and `SeatOfDesk` guarantee of the chairs,
   and what is left that can keep an agent from its own.
