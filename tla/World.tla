------------------------------- MODULE World -------------------------------
(***************************************************************************)
(* The resident world of sim-core/src/world.rs: the office, its roster and *)
(* the tick that walks every agent from the door to its own chair.         *)
(*                                                                         *)
(* step() runs under the world lock; its two loops over the roster are     *)
(* modelled one agent per step (`phase' says which loop is running, `todo' *)
(* whom it still has to visit).  Every other operation needs the lock, so  *)
(* it waits for phase "idle".  Rejected requests change nothing and are no *)
(* action; the personality texts of an agent are data nothing here reads.  *)
(***************************************************************************)
EXTENDS Grid

CONSTANTS
  Agent,
  Maps, Layouts,        \* tile maps and layouts requests may carry
  DeskId,               \* DeskId[a]: the desk_id of agent a
  InitialName, Names,   \* names, ordered byte-wise in the code, are integers
  Specialist,           \* the agents of grade "specialist", who arrive staggered
  GradeSec,             \* GradeSec[a]: arrival time the other grades give
  FirstSpecialistSec, StaggerSec,
  StartPos,             \* stored position of agents that have not entered yet
  DaySecs, KickoffSec, SecPerTick,
  RerouteAfterTicks, StuckRerouteStreak,
  MinSize, MaxSize,     \* room dimensions PUT /world/map accepts
  Speeds,               \* requested speed multipliers
  DayCap,               \* bound: the day counter wraps here
  MaxMapRev,            \* bound on map revisions
  NoRoute,              \* what the path finder returns when there is no path
  Route(_, _, _, _)     \* Route(grid, extra, from, to), the path finder

\* The sets of tiles that some agents, but never all of them, can occupy.
TilesOf(m, layout, others) ==
  {{p[b] : b \in others} : p \in [others -> Standable(m, layout)]}

Crowds(m, layout) == UNION {TilesOf(m, layout, others) : others \in (SUBSET Agent) \ {Agent}}

ASSUME GeometryAssumption == Maps \subseteq TileMap /\ Layouts \subseteq Seq(Item)

ASSUME ScheduleAssumption ==
  /\ IsFiniteSet(Agent) /\ Specialist \subseteq Agent
  /\ Names \subseteq Int /\ InitialName \in [Agent -> Names]
  /\ StartPos \in [Agent -> Cell]
  /\ GradeSec \in [Agent -> Nat] /\ FirstSpecialistSec \in Nat /\ StaggerSec \in Nat
  /\ DaySecs \in Nat \ {0} /\ KickoffSec \in 0 .. DaySecs - 1 /\ SecPerTick \in Nat
  /\ RerouteAfterTicks \in Nat \ {0} /\ StuckRerouteStreak \in Nat \ {0}
  /\ DayCap \in Nat \ {0} /\ MaxMapRev \in Nat \ {0}

\* The contract of the path finder that the theorems rest on: whatever it
\* returns is a route.  Module Pathfind meets it (TLC evaluates this for it).
ASSUME RouteAssumption ==
  \A m \in Maps, layout \in Layouts :
    \A from \in Standable(m, layout), to \in AnchorCells(layout),
       crowd \in Crowds(m, layout) :
      LET g == CollisionGrid(m, layout)
          r == Route(g, crowd, from, to)
      IN  r # NoRoute => IsRoute(g, crowd, from, to, r)

VARIABLES
  mode,          \* world.status
  clock, simDay, speed, mapRev,
  map, layout,
  grid,          \* the cached collision grid of map and layout
  name,          \* name[a], as patched
  rosterKey,     \* the names the roster was last sorted by
  chair, spawnSec,              \* resolved when the roster was last built
  spawned, status, pos, path,   \* per agent
  stall, rerouteFails,
  phase, todo, occupied,        \* local to step()
  shown,         \* what a client holds that applied the last snapshot and every event since
  stuckNote      \* agents the running tick reported with agent_stuck

worldVars  == <<mode, clock, simDay, speed, mapRev>>
placeVars  == <<map, layout, grid>>
rosterVars == <<name, rosterKey, chair, spawnSec>>
walkVars   == <<spawned, status, pos, path, stall, rerouteFails>>
tickVars   == <<phase, todo, occupied>>
eventVars  == <<shown, stuckNote>>
vars == <<worldVars, placeVars, rosterVars, walkVars, tickVars, eventVars>>

Modes == {"paused", "running", "editing", "archived"}
Statuses == {"commuting", "walking", "seated", "stuck_unreachable"}

OnFloor == {a \in Agent : spawned[a]}

-----------------------------------------------------------------------------
(* Building the roster. *)

\* Appendix A.2: specialists arrive in the order of their names.
ArrivalSec(names) ==
  [a \in Agent |->
     IF a \in Specialist
     THEN FirstSpecialistSec
            + StaggerSec * Cardinality({b \in Specialist : names[b] < names[a]})
     ELSE GradeSec[a]]

\* What requests pass validation: maps of legal shape, layouts that fit a map,
\* and layouts in which every desk and chair resolves, no chair to two agents.
Rooms == {m \in Maps : ValidShape(m, MinSize, MaxSize)}

Fitting == {p \in Maps \X Layouts : LayoutFits(p[1], p[2])}

Resolving ==
  {l \in Layouts :
     \A a, b \in Agent : LET seat == SeatOfDesk(l, DeskId[a])
                         IN  seat # {} /\ (a # b => seat \cap SeatOfDesk(l, DeskId[b]) = {})}

ChairsOf(l) == [a \in Agent |-> CHOOSE c \in AnchorCells(l) : c \in SeatOfDesk(l, DeskId[a])]

Init ==
  /\ map \in Maps /\ DoorTiles(map) # {}
  /\ layout \in Resolving
  /\ grid = CollisionGrid(map, layout)
  /\ name = InitialName /\ rosterKey = InitialName
  /\ chair = ChairsOf(layout) /\ spawnSec = ArrivalSec(InitialName)
  /\ mode = "paused" /\ clock = KickoffSec /\ simDay = 1 % DayCap
  /\ speed = 1 /\ mapRev = 1
  /\ spawned = [a \in Agent |-> FALSE]
  /\ status = [a \in Agent |-> "commuting"]
  /\ pos = StartPos
  /\ path = [a \in Agent |-> <<>>]
  /\ stall = [a \in Agent |-> 0] /\ rerouteFails = [a \in Agent |-> 0]
  /\ phase = "idle" /\ todo = {} /\ occupied = {}
  /\ shown = [a \in Agent |-> [status |-> "commuting", pos |-> StartPos[a]]]
  /\ stuckNote = {}

-----------------------------------------------------------------------------
(* The tick: the clock, the agents due to enter, the walkers. *)

\* Mutant: the arrival time is not looked at.
DueAtOnce(now) == {a \in Agent : ~ spawned[a] /\ status[a] = "commuting"}

Due(now) == {a \in Agent : /\ ~ spawned[a] /\ status[a] = "commuting"
                           /\ spawnSec[a] <= now}

NewTime == clock + SecPerTick

\* Mutant: midnight itself does not roll over.
LateRollover == IF NewTime > DaySecs THEN NewTime - DaySecs ELSE NewTime

NewClock == NewTime % DaySecs

BeginTick ==
  /\ phase = "idle" /\ mode = "running"
  /\ clock' = NewClock
  /\ simDay' = (simDay + NewTime \div DaySecs) % DayCap
  /\ occupied' = {pos[a] : a \in OnFloor}
  /\ phase' = "spawn" /\ todo' = Due(clock')
  /\ stuckNote' = {}
  /\ UNCHANGED <<mode, speed, mapRev, placeVars, rosterVars, walkVars, shown>>

\* The loops visit the agents in roster order.
Turn(p, a) ==
  /\ phase = p /\ a \in todo
  /\ \A b \in todo : rosterKey[a] <= rosterKey[b]
  /\ todo' = todo \ {a} /\ UNCHANGED phase

FreeDoors == DoorTiles(map) \ occupied

\* Every door tile is taken: try again next tick.
WaitOutside(a) ==
  /\ Turn("spawn", a) /\ FreeDoors = {}
  /\ UNCHANGED <<worldVars, placeVars, rosterVars, walkVars, occupied, eventVars>>

\* Mutant: the entered door tile is not marked as taken.
EnterUnmarked(a, door, newStatus) ==
  /\ spawned' = [spawned EXCEPT ![a] = TRUE]
  /\ status' = [status EXCEPT ![a] = newStatus]
  /\ pos' = [pos EXCEPT ![a] = door]
  /\ UNCHANGED <<worldVars, placeVars, rosterVars, occupied, stuckNote>>

EnterAt(a, door, newStatus) ==
  /\ spawned' = [spawned EXCEPT ![a] = TRUE]
  /\ status' = [status EXCEPT ![a] = newStatus]
  /\ pos' = [pos EXCEPT ![a] = door]
  /\ occupied' = occupied \cup {door}
  /\ UNCHANGED <<worldVars, placeVars, rosterVars, stuckNote>>

\* agent_status and agent_moved.
Enter(a) ==
  /\ Turn("spawn", a)
  /\ \E door \in FreeDoors :
       LET route == Route(grid, {}, door, chair[a])
       IN  /\ IsFirst(door, FreeDoors) /\ route # NoRoute
           /\ EnterAt(a, door, "walking")
           /\ path' = [path EXCEPT ![a] = route]
           /\ stall' = [stall EXCEPT ![a] = 0]
           /\ rerouteFails' = [rerouteFails EXCEPT ![a] = 0]
           /\ shown' = [shown EXCEPT ![a] = [status |-> "walking", pos |-> door]]

\* Mutant: nobody is told of a stranded agent.
StrandedSilently(a) ==
  /\ Turn("spawn", a)
  /\ \E door \in FreeDoors :
       /\ IsFirst(door, FreeDoors) /\ Route(grid, {}, door, chair[a]) = NoRoute
       /\ EnterAt(a, door, "stuck_unreachable")
  /\ UNCHANGED <<path, stall, rerouteFails, shown>>

\* The chair cannot be reached: the agent stays on the door tile for good.
\* Only agent_status is sent, so the client does not learn where it stands.
EnterStranded(a) ==
  /\ Turn("spawn", a)
  /\ \E door \in FreeDoors :
       /\ IsFirst(door, FreeDoors) /\ Route(grid, {}, door, chair[a]) = NoRoute
       /\ EnterAt(a, door, "stuck_unreachable")
  /\ shown' = [shown EXCEPT ![a].status = "stuck_unreachable"]
  /\ UNCHANGED <<path, stall, rerouteFails>>

StartMoves ==
  /\ phase = "spawn" /\ todo = {}
  /\ phase' = "move"
  /\ todo' = {a \in OnFloor : status[a] = "walking"}
  /\ UNCHANGED <<worldVars, placeVars, rosterVars, walkVars, occupied, eventVars>>

\* A walker without a path asks for a new one before it moves.
PathNow(a) ==
  IF path[a] # <<>> THEN path[a]
  ELSE LET r == Route(grid, {}, pos[a], chair[a]) IN IF r = NoRoute THEN <<>> ELSE r

Blockade(a) == PathNow(a) # <<>> /\ Head(PathNow(a)) \in occupied

StayPut(a) ==
  /\ Turn("move", a) /\ PathNow(a) = <<>>
  /\ UNCHANGED <<worldVars, placeVars, rosterVars, walkVars, occupied, eventVars>>

Wait(a) ==
  /\ Turn("move", a) /\ Blockade(a) /\ stall[a] + 1 < RerouteAfterTicks
  /\ path' = [path EXCEPT ![a] = PathNow(a)]
  /\ stall' = [stall EXCEPT ![a] = @ + 1]
  /\ UNCHANGED <<worldVars, placeVars, rosterVars, spawned, status, pos, rerouteFails,
                 occupied, eventVars>>

\* Mutants: the detour looks at the walls only, or at no other agent.
ThroughFurniture(a) == Route(map, occupied \ {pos[a]}, pos[a], chair[a])
ThroughOthers(a) == Route(grid, {}, pos[a], chair[a])

Detour(a) == Route(grid, occupied \ {pos[a]}, pos[a], chair[a])

Reroute(a) ==
  /\ Turn("move", a) /\ Blockade(a) /\ stall[a] + 1 >= RerouteAfterTicks
  /\ Detour(a) # NoRoute
  /\ path' = [path EXCEPT ![a] = Detour(a)]
  /\ rerouteFails' = [rerouteFails EXCEPT ![a] = 0]
  /\ stall' = [stall EXCEPT ![a] = 0]
  /\ UNCHANGED <<worldVars, placeVars, rosterVars, spawned, status, pos, occupied, eventVars>>

\* Mutant: the count of failures starts again with every cycle of waiting.
FailsForgotten(a) == 1

\* Only the multiples of the streak matter: the counter is kept modulo it.
FailsNow(a) == (rerouteFails[a] + 1) % StuckRerouteStreak

\* No way round: keep the old path.
BoxedIn(a) ==
  /\ Turn("move", a) /\ Blockade(a) /\ stall[a] + 1 >= RerouteAfterTicks
  /\ Detour(a) = NoRoute
  /\ path' = [path EXCEPT ![a] = PathNow(a)]
  /\ rerouteFails' = [rerouteFails EXCEPT ![a] = FailsNow(a)]
  /\ stall' = [stall EXCEPT ![a] = 0]
  /\ stuckNote' = IF FailsNow(a) = 0 THEN stuckNote \cup {a} ELSE stuckNote
  /\ UNCHANGED <<worldVars, placeVars, rosterVars, spawned, status, pos, occupied, shown>>

\* Mutant: the tile left behind is not freed.
NothingVacated(a, next) == occupied \cup {next}

Shifted(a, next) == (occupied \ {pos[a]}) \cup {next}

Advance(a) ==
  LET next == Head(PathNow(a))
      rest == Tail(PathNow(a))
      now  == IF rest = <<>> /\ next = chair[a] THEN "seated" ELSE status[a]
  IN  /\ Turn("move", a) /\ PathNow(a) # <<>> /\ next \notin occupied
      /\ pos' = [pos EXCEPT ![a] = next]
      /\ occupied' = Shifted(a, next)
      /\ path' = [path EXCEPT ![a] = rest]
      /\ status' = [status EXCEPT ![a] = now]
      /\ stall' = [stall EXCEPT ![a] = 0]
      /\ rerouteFails' = [rerouteFails EXCEPT ![a] = 0]
      /\ shown' = [shown EXCEPT ![a] = [status |-> IF now = "seated" THEN now ELSE @.status,
                                        pos |-> next]]
      /\ UNCHANGED <<worldVars, placeVars, rosterVars, spawned, stuckNote>>

EndTick ==
  /\ phase = "move" /\ todo = {}
  /\ phase' = "idle" /\ occupied' = {}
  /\ UNCHANGED <<worldVars, placeVars, rosterVars, walkVars, todo, eventVars>>

TickStep ==
  \/ BeginTick \/ StartMoves \/ EndTick
  \/ \E a \in Agent : \/ WaitOutside(a) \/ Enter(a) \/ EnterStranded(a)
                      \/ StayPut(a) \/ Wait(a) \/ Reroute(a) \/ BoxedIn(a) \/ Advance(a)

-----------------------------------------------------------------------------
(* Time control. *)

Pause ==
  /\ phase = "idle" /\ mode = "running" /\ mode' = "paused"
  /\ UNCHANGED <<clock, simDay, speed, mapRev, placeVars, rosterVars, walkVars, tickVars, eventVars>>

Resume ==
  /\ phase = "idle" /\ mode = "paused" /\ mode' = "running"
  /\ UNCHANGED <<clock, simDay, speed, mapRev, placeVars, rosterVars, walkVars, tickVars, eventVars>>

SetSpeed(s) ==
  /\ phase = "idle" /\ s \in {1, 2, 5} /\ speed' = s
  /\ UNCHANGED <<mode, clock, simDay, mapRev, placeVars, rosterVars, walkVars, tickVars, eventVars>>

-----------------------------------------------------------------------------
(* Editing.  Each successful edit broadcasts a full snapshot. *)

\* Mutant: the statuses survive, the hazard the code's comment describes.
ResetKeepsStatus ==
  /\ mode' = "paused" /\ clock' = KickoffSec
  /\ spawned' = [a \in Agent |-> FALSE]
  /\ path' = [a \in Agent |-> <<>>]
  /\ stall' = [a \in Agent |-> 0] /\ rerouteFails' = [a \in Agent |-> 0]
  /\ shown' = [a \in Agent |-> [status |-> status[a], pos |-> pos[a]]]
  /\ UNCHANGED <<status, pos, simDay, speed, tickVars, stuckNote>>

\* Mutant: the day restarts in a world that keeps running.
ResetKeepsRunning ==
  /\ clock' = KickoffSec
  /\ status' = [a \in Agent |-> "commuting"]
  /\ spawned' = [a \in Agent |-> FALSE]
  /\ path' = [a \in Agent |-> <<>>]
  /\ stall' = [a \in Agent |-> 0] /\ rerouteFails' = [a \in Agent |-> 0]
  /\ shown' = [a \in Agent |-> [status |-> "commuting", pos |-> pos[a]]]
  /\ UNCHANGED <<mode, pos, simDay, speed, tickVars, stuckNote>>

\* Mutant: who sits is left sitting.
ResetSparesSeated ==
  /\ mode' = "paused" /\ clock' = KickoffSec
  /\ status' = [a \in Agent |-> IF status[a] = "seated" THEN "seated" ELSE "commuting"]
  /\ spawned' = [a \in Agent |-> status[a] = "seated"]
  /\ path' = [a \in Agent |-> <<>>]
  /\ stall' = [a \in Agent |-> 0] /\ rerouteFails' = [a \in Agent |-> 0]
  /\ shown' = [a \in Agent |-> [status |-> status'[a], pos |-> pos[a]]]
  /\ UNCHANGED <<pos, simDay, speed, tickVars, stuckNote>>

ResetToDayStart ==
  /\ mode' = "paused" /\ clock' = KickoffSec
  /\ status' = [a \in Agent |-> "commuting"]
  /\ spawned' = [a \in Agent |-> FALSE]
  /\ path' = [a \in Agent |-> <<>>]
  /\ stall' = [a \in Agent |-> 0] /\ rerouteFails' = [a \in Agent |-> 0]
  /\ shown' = [a \in Agent |-> [status |-> "commuting", pos |-> pos[a]]]
  /\ UNCHANGED <<pos, simDay, speed, tickVars, stuckNote>>

RebuildRoster(l) ==
  /\ rosterKey' = name
  /\ chair' = ChairsOf(l)
  /\ spawnSec' = ArrivalSec(name)
  /\ UNCHANGED name

ReplaceMap(m) ==
  /\ phase = "idle" /\ mapRev < MaxMapRev
  /\ m \in Rooms /\ <<m, layout>> \in Fitting
  /\ map' = m /\ grid' = CollisionGrid(m, layout) /\ mapRev' = mapRev + 1
  /\ ResetToDayStart
  /\ UNCHANGED <<layout, rosterVars>>

\* Mutant: the collision grid is not rebuilt.
LayoutWithoutGrid(l) ==
  /\ phase = "idle"
  /\ <<map, l>> \in Fitting /\ l \in Resolving
  /\ layout' = l
  /\ RebuildRoster(l)
  /\ ResetToDayStart
  /\ UNCHANGED <<map, grid, mapRev>>

ReplaceLayout(l) ==
  /\ phase = "idle"
  /\ <<map, l>> \in Fitting /\ l \in Resolving
  /\ layout' = l /\ grid' = CollisionGrid(map, l)
  /\ RebuildRoster(l)
  /\ ResetToDayStart
  /\ UNCHANGED <<map, mapRev>>

ReplaceMapAndLayout(m, l) ==
  /\ phase = "idle" /\ mapRev < MaxMapRev
  /\ m \in Rooms /\ <<m, l>> \in Fitting /\ l \in Resolving
  /\ map' = m /\ layout' = l /\ grid' = CollisionGrid(m, l) /\ mapRev' = mapRev + 1
  /\ RebuildRoster(l)
  /\ ResetToDayStart

\* Names stay unique; neither the roster's order nor the schedule follows.
PatchAgent(a, n) ==
  /\ phase = "idle"
  /\ \A b \in Agent \ {a} : name[b] # n
  /\ name' = [name EXCEPT ![a] = n]
  /\ shown' = [b \in Agent |-> [status |-> status[b], pos |-> pos[b]]]
  /\ UNCHANGED <<worldVars, placeVars, rosterKey, chair, spawnSec, walkVars, tickVars, stuckNote>>

UserStep ==
  \/ Pause \/ Resume
  \/ \E s \in Speeds : SetSpeed(s)
  \/ \E m \in Maps : ReplaceMap(m)
  \/ \E l \in Layouts : ReplaceLayout(l)
  \/ \E m \in Maps, l \in Layouts : ReplaceMapAndLayout(m, l)
  \/ \E a \in Agent, n \in Names : PatchAgent(a, n)

Next == TickStep \/ UserStep

Spec == Init /\ [][Next]_vars

\* The loop task (sim.rs:122-149) sleeps and steps for ever and a tick begun
\* always ends: the loop's phase turns, and it works off its agents.  Users owe
\* nothing.
PhaseTurns ==
  /\ IF phase = "idle" THEN mode = "running" ELSE todo = {}
  /\ phase' = [idle |-> "spawn", spawn |-> "move", move |-> "idle"][phase]

TurnTaken == phase # "idle" /\ \E a \in todo : todo' = todo \ {a}

FairSpec == Spec /\ WF_phase(PhaseTurns) /\ WF_todo(TurnTaken)

-----------------------------------------------------------------------------
(* What must hold. *)

TypeOK ==
  /\ mode \in Modes /\ clock \in 0 .. DaySecs - 1 /\ simDay \in 0 .. DayCap - 1
  /\ speed \in {1, 2, 5} /\ mapRev \in 1 .. MaxMapRev
  /\ map \in Maps /\ layout \in Layouts
  /\ name \in [Agent -> Names] /\ rosterKey \in [Agent -> Names]
  /\ chair \in [Agent -> Cell] /\ spawnSec \in [Agent -> Nat]
  /\ spawned \in [Agent -> BOOLEAN] /\ status \in [Agent -> Statuses]
  /\ pos \in [Agent -> Cell] /\ path \in [Agent -> Seq(Cell)]
  /\ stall \in [Agent -> 0 .. RerouteAfterTicks - 1]
  /\ rerouteFails \in [Agent -> 0 .. StuckRerouteStreak - 1]
  /\ phase \in {"idle", "spawn", "move"} /\ todo \in SUBSET Agent
  /\ occupied \in SUBSET Cell /\ stuckNote \in SUBSET Agent
  /\ shown \in [Agent -> [status : Statuses, pos : Cell]]

\* No two agents on the floor ever share a tile (world.rs:494-497), although
\* only the set kept during the tick stands between them.
NoSharedTile == \A a, b \in OnFloor : pos[a] = pos[b] => a = b

\* That set never drifts from the positions it stands for.
OccupiedExact == phase # "idle" => occupied = {pos[a] : a \in OnFloor}

\* A walker's path leads over free tiles of the current grid from where it
\* stands to its chair, whatever was edited, entered or rerouted before.
PathsLeadHome ==
  \A a \in Agent : status[a] = "walking" => IsRoute(grid, {}, pos[a], chair[a], path[a])

\* The derived state is that of the current map and layout: the grid the path
\* finder reads, the chairs, one for each agent, the seat of everyone sitting, and
\* the verdict on those reported unreachable, which no edit may leave behind.
DerivedIsCurrent ==
  /\ grid = CollisionGrid(map, layout)
  /\ chair = ChairsOf(layout) /\ \A a, b \in Agent : chair[a] = chair[b] => a = b
  /\ \A a \in Agent : status[a] = "seated" => pos[a] = chair[a] /\ ~ Blocked(grid, pos[a])
  /\ \A a \in Agent :
       status[a] = "stuck_unreachable" => Route(grid, {}, pos[a], chair[a]) = NoRoute

\* Nobody is lost: an agent not on the floor is one the tick will let in, and
\* everyone on the floor walks, sits or is reported unreachable.
NobodyVanishes == \A a \in Agent : spawned[a] <=> status[a] # "commuting"

\* A client that applies every event holds the status of all agents, and the
\* tile of those that walk or sit.
ClientInStep ==
  phase = "idle" =>
    \A a \in Agent : /\ shown[a].status = status[a]
                     /\ status[a] \in {"walking", "seated"} => shown[a].pos = pos[a]

\* On the floor agents move only by walking to a neighbour tile; they appear
\* on a free door tile, not before their hour.
LegalMoves ==
  \A a \in Agent :
    /\ spawned[a] /\ pos'[a] # pos[a] =>
         mode = "running" /\ status[a] = "walking" /\ pos'[a] \in Neighbors(pos[a])
    /\ ~ spawned[a] /\ spawned'[a] =>
         /\ pos'[a] \in DoorTiles(map) /\ spawnSec[a] <= clock
         /\ \A b \in OnFloor : pos[b] # pos'[a]

NoTeleport == [][LegalMoves]_vars

\* Who left the door stays in the office until an edit restarts the day, which
\* empties the floor for everyone, pauses the world and sets the clock back.
SentOutTogether ==
  (\E a \in Agent : spawned[a] /\ (~ spawned'[a] \/ (status[a] = "seated" /\ status'[a] # "seated")))
    => mode' = "paused" /\ clock' = KickoffSec /\ \A a \in Agent : ~ spawned'[a]

FloorClearsOnlyByReset == [][SentOutTogether]_vars

\* What visitors see of it is an office as Office describes it, whatever ticks and
\* edits do: ways are walked tile by tile, nobody is run into, who sits stays, and the
\* furniture moves only when everyone is out.
View == INSTANCE Office WITH place  <- [a \in OnFloor |-> pos[a]],
                             seated <- {a \in Agent : status[a] = "seated"},
                             home   <- chair,
                             floor  <- Floor(grid),
                             Beside <- LAMBDA c, d : d \in Neighbors(c)

IsAnOffice == View!Spec

\* Those who sit have closed the last way to a's chair.
CutOff(a) ==
  /\ status[a] = "walking"
  /\ Route(grid, {pos[b] : b \in {c \in Agent : status[c] = "seated"}}, pos[a], chair[a]) = NoRoute

\* Module comment of world.rs (10-14): conflicts "are resolved by wait-then-reroute".
\* Left running, the world seats everybody whose chair can still be reached: whoever
\* walks for ever is cut off by agents that sit, not by others that walk.
ConflictsResolve ==
  <>[](mode = "running") => <>[](\A a \in Agent : status[a] = "seated" \/ CutOff(a))

\* The others on the floor close the last way to a's chair.
WalledIn(a) ==
  /\ status[a] = "walking"
  /\ Route(grid, {pos[b] : b \in OnFloor \ {a}}, pos[a], chair[a]) = NoRoute

\* Every door is held by a colleague: a cannot enter.
ShutOut(a) == ~ spawned[a] /\ DoorTiles(map) \subseteq {pos[b] : b \in OnFloor}

\* Another walker stands where a goes next, and goes where a stands.
FaceToFace(a) ==
  \E b \in Agent \ {a} :
    /\ status[a] = "walking" /\ status[b] = "walking" /\ path[a] # <<>> /\ path[b] # <<>>
    /\ Head(path[a]) = pos[b] /\ Head(path[b]) = pos[a]

\* Waiting and rerouting fail in no other way: left running, the world seats everyone
\* but who cannot reach its chair at all, who is walled in or shut out for good by where
\* its colleagues stand, and who meets another walker face to face again and again.
EveryoneArrives ==
  <>[](mode = "running") =>
    \A a \in Agent :
      \/ <>[](status[a] \in {"seated", "stuck_unreachable"} \/ WalledIn(a) \/ ShutOut(a))
      \/ []<>FaceToFace(a)

\* Left running, a walker that makes no more progress is reported again and again
\* (world.rs:36-42: not "silently retrying forever").
StuckIsLoud ==
  \A a \in Agent :
    <>[](mode = "running" /\ status[a] = "walking") /\ <>[][pos'[a] = pos[a]]_pos
      => []<>(a \in stuckNote)
=============================================================================
