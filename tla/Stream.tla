------------------------------- MODULE Stream -------------------------------
(***************************************************************************)
(* How the resident world reaches the browsers.  The tick loop (sim.rs)    *)
(* and the handlers (world_api.rs, agents_api.rs, ws.rs) send events on a  *)
(* broadcast channel while they hold the world lock; one session per       *)
(* socket forwards them (ws.rs); the client applies them to its store      *)
(* (client.ts, store.ts).  The answer to an editing request carries a      *)
(* snapshot too and takes a way of its own; a client may have several such *)
(* requests under way (no panel waits for another one's).                  *)
(*                                                                         *)
(* Of the world's content the model keeps the number of the edit that made *)
(* it (plan), the tile of one agent (place) and the clock, in ticks.       *)
(***************************************************************************)
EXTENDS Integers, Sequences

CONSTANTS
  Client,
  Editor,       \* who sends editing requests: clients, or others without a socket
  Tile,
  Home,         \* where the seed or the row of the agent places it
  Capacity,     \* EVENT_CHANNEL_CAPACITY
  SocketRoom,   \* messages a socket takes before the session blocks
  MaxTicks,     \* bound on the clock of one day
  MaxEdits,     \* bound on the edits
  MaxFaults,    \* bound on lost sockets and server restarts
  Nothing       \* no message, no snapshot yet

ASSUME StreamAssumption ==
  /\ Home \in Tile
  /\ {Capacity, SocketRoom} \subseteq Nat \ {0}
  /\ {MaxTicks, MaxEdits, MaxFaults} \subseteq Nat

VARIABLES
  world,    \* [mode, plan, place, clock]
  link,     \* link[c]: the life of the client's socket, see Links
  queue,    \* queue[c]: what the channel holds for the session
  inbox,    \* inbox[c]: what the session has sent and the client not yet handled
  store,    \* store[c]: the client's store, Nothing before its first snapshot
  replies,  \* replies[c]: the worlds in the answers on their way to a client that edits
  edited,   \* history: who has sent an editing request
  answered, \* history: the plan of the youngest answer the client handled or lost
  overtaken, \* history: an answer came after a younger one, or never, and no snapshot since
  faults

vars == <<world, link, queue, inbox, store, replies, edited, answered, overtaken, faults>>
own == <<replies, edited, answered, overtaken>>

\* "closed": the reconnect timer runs; "subscribed": the session is on the
\* channel and waits for the world lock; "greeting": it has its snapshot and
\* awaits the sending; "open": it forwards; "ending": the server is through.
Links == {"closed", "subscribed", "greeting", "open", "ending"}

Worlds == [mode : {"paused", "running"}, plan : 0 .. MaxEdits, place : Tile, clock : 0 .. MaxTicks]

Stores == [running : BOOLEAN, plan : 0 .. MaxEdits, place : Tile, clock : 0 .. MaxTicks]

ASSUME NothingAssumption == Nothing \notin Stores

Snapshot(w)  == [type |-> "world_snapshot", world |-> w]
Moved(tile)  == [type |-> "agent_moved", place |-> tile]
Tick(clock)  == [type |-> "tick", clock |-> clock]
WorldPaused  == [type |-> "world_paused"]

\* What recv reports once the channel has overwritten an unread event.
Lagged == <<[type |-> "lagged"]>>

Messages ==
  {Snapshot(w) : w \in Worlds} \cup {Moved(t) : t \in Tile} \cup
  {Tick(n) : n \in 0 .. MaxTicks} \cup {WorldPaused}

Init ==
  /\ world = [mode |-> "paused", plan |-> 0, place |-> Home, clock |-> 0]
  /\ link = [c \in Client |-> "closed"]
  /\ queue = [c \in Client |-> <<>>] /\ inbox = [c \in Client |-> <<>>]
  /\ store = [c \in Client |-> Nothing] /\ replies = [c \in Client |-> {}]
  /\ edited = {} /\ answered = [c \in Client |-> 0]
  /\ overtaken = [c \in Client |-> FALSE] /\ faults = 0

-----------------------------------------------------------------------------
(* The world and its broadcasts, each one hold of the world lock. *)

\* Mutant: a session subscribes only once its snapshot is out.
SubscribedLate == {c \in Client : link[c] = "open"}

Subscribers == {c \in Client : link[c] \in {"subscribed", "greeting", "open"}}

\* Mutant: the channel is not bounded.
Unbounded(q, events) == q \o events

Enqueued(q, events) ==
  IF q = Lagged \/ Len(q) + Len(events) > Capacity THEN Lagged ELSE q \o events

Broadcast(events) ==
  queue' = [c \in Client |-> IF c \in Subscribers THEN Enqueued(queue[c], events) ELSE queue[c]]

\* A tick of a running world moves the agent or not; the tick event comes last.
Step ==
  /\ world.mode = "running" /\ world.clock < MaxTicks
  /\ \E tile \in Tile :
       /\ world' = [world EXCEPT !.place = tile, !.clock = @ + 1]
       /\ Broadcast((IF tile = world.place THEN <<>> ELSE <<Moved(tile)>>)
                    \o <<Tick(world'.clock)>>)
  /\ UNCHANGED <<link, inbox, store, own, faults>>

\* Controls come over these or other sockets.  Pausing is broadcast, resuming
\* shows in the next tick.
Pause ==
  /\ world' = [world EXCEPT !.mode = "paused"]
  /\ Broadcast(<<WorldPaused>>)
  /\ UNCHANGED <<link, inbox, store, own, faults>>

Resume ==
  /\ world.mode = "paused"
  /\ world' = [world EXCEPT !.mode = "running"]
  /\ UNCHANGED <<link, queue, inbox, store, own, faults>>

Asks(c, answer) ==
  /\ replies' = [x \in Client |-> IF x = c THEN replies[x] \cup {answer} ELSE replies[x]]
  /\ edited' = edited \cup {c}
  /\ UNCHANGED <<answered, overtaken>>

\* Mutant: the answer's snapshot is the world before the edit.
AnswersTooEarly(c, w) ==
  /\ world.plan < MaxEdits /\ world' = w
  /\ Broadcast(<<Snapshot(w)>>)
  /\ Asks(c, world)
  /\ UNCHANGED <<link, inbox, store, faults>>

\* A map or layout starts the day anew, paused; an agent's data changes nothing
\* else.  The answer leaves after the save, whenever that is, and overtakes others.
Request(c, w) ==
  /\ world.plan < MaxEdits /\ world' = w
  /\ Broadcast(<<Snapshot(w)>>)
  /\ Asks(c, w)
  /\ UNCHANGED <<link, inbox, store, faults>>

PutPlan(c) == Request(c, [world EXCEPT !.plan = @ + 1, !.mode = "paused", !.clock = 0])

PatchAgent(c) == Request(c, [world EXCEPT !.plan = @ + 1])

-----------------------------------------------------------------------------
(* The session of a socket. *)

\* The retry timer fires, the socket opens, the session subscribes.
Connect(c) ==
  /\ link[c] = "closed"
  /\ link' = [link EXCEPT ![c] = "subscribed"]
  /\ queue' = [queue EXCEPT ![c] = <<>>]
  /\ UNCHANGED <<world, inbox, store, own, faults>>

\* The snapshot is taken once the session gets the world lock.
Greet(c) ==
  /\ link[c] = "subscribed"
  /\ link' = [link EXCEPT ![c] = "greeting"]
  /\ inbox' = [inbox EXCEPT ![c] = <<Snapshot(world)>>]
  /\ UNCHANGED <<world, queue, store, own, faults>>

\* The sending of the snapshot has returned: the session enters its loop.
EnterLoop(c) ==
  /\ link[c] = "greeting"
  /\ link' = [link EXCEPT ![c] = "open"]
  /\ UNCHANGED <<world, queue, inbox, store, own, faults>>

Forward(c) ==
  /\ link[c] = "open" /\ queue[c] # <<>> /\ queue[c] # Lagged
  /\ Len(inbox[c]) < SocketRoom
  /\ queue' = [queue EXCEPT ![c] = Tail(@)]
  /\ inbox' = [inbox EXCEPT ![c] = Append(@, Head(queue[c]))]
  /\ UNCHANGED <<world, link, store, own, faults>>

\* Mutant: a session that lagged goes on with what comes next.
LagIgnored(c) ==
  /\ link[c] = "open" /\ queue[c] = Lagged
  /\ queue' = [queue EXCEPT ![c] = <<>>]
  /\ UNCHANGED <<world, link, inbox, store, own, faults>>

\* A session that lagged hangs up; the client handles what was sent before.
HangUp(c) ==
  /\ link[c] = "open" /\ queue[c] = Lagged
  /\ link' = [link EXCEPT ![c] = "ending"]
  /\ queue' = [queue EXCEPT ![c] = <<>>]
  /\ UNCHANGED <<world, inbox, store, own, faults>>

\* onclose, after the last message: back to waiting for the timer.
Close(c) ==
  /\ link[c] = "ending" /\ inbox[c] = <<>>
  /\ link' = [link EXCEPT ![c] = "closed"]
  /\ UNCHANGED <<world, queue, inbox, store, own, faults>>

-----------------------------------------------------------------------------
(* The client's store. *)

FromWorld(w) ==
  [running |-> w.mode = "running", plan |-> w.plan, place |-> w.place, clock |-> w.clock]

\* Before its first snapshot a client ignores everything else.
Applied(s, msg) ==
  IF msg.type = "world_snapshot" THEN FromWorld(msg.world)
  ELSE IF s = Nothing THEN Nothing
  ELSE CASE msg.type = "agent_moved"  -> [s EXCEPT !.place = msg.place]
         [] msg.type = "tick"         -> [s EXCEPT !.clock = msg.clock, !.running = TRUE]
         [] msg.type = "world_paused" -> [s EXCEPT !.running = FALSE]

Deliver(c) ==
  /\ inbox[c] # <<>>
  /\ store' = [store EXCEPT ![c] = Applied(@, Head(inbox[c]))]
  /\ inbox' = [inbox EXCEPT ![c] = Tail(@)]
  /\ overtaken' = [overtaken EXCEPT ![c] = @ /\ Head(inbox[c]).type # "world_snapshot"]
  /\ UNCHANGED <<world, link, queue, replies, edited, answered, faults>>

\* The answer to an older request.
Late(c, w) == w.plan < answered[c]

Handled(c, w) ==
  /\ replies' = [replies EXCEPT ![c] = @ \ {w}]
  /\ answered' = [answered EXCEPT ![c] = IF Late(c, w) THEN @ ELSE w.plan]

\* The editor applies the snapshot in the answer, whatever it has seen since.
ReceiveReply(c) ==
  /\ \E w \in replies[c] :
       /\ Handled(c, w)
       /\ store' = [store EXCEPT ![c] = Applied(@, Snapshot(w))]
       /\ overtaken' = [overtaken EXCEPT ![c] = Late(c, w)]
  /\ UNCHANGED <<world, link, queue, inbox, edited, faults>>

-----------------------------------------------------------------------------
(* Faults. *)

\* The socket breaks, with all that is under way on it.
Break(c) ==
  /\ link[c] # "closed" /\ faults < MaxFaults /\ faults' = faults + 1
  /\ link' = [link EXCEPT ![c] = "closed"]
  /\ queue' = [queue EXCEPT ![c] = <<>>] /\ inbox' = [inbox EXCEPT ![c] = <<>>]
  /\ UNCHANGED <<world, store, own>>

\* The answer is lost: the editor shows an error and applies nothing.
LoseReply(c) ==
  /\ faults < MaxFaults /\ faults' = faults + 1
  /\ \E w \in replies[c] : Handled(c, w)
  /\ overtaken' = [overtaken EXCEPT ![c] = TRUE]
  /\ UNCHANGED <<world, link, queue, inbox, store, edited>>

\* A server started again loads some plan of the past; sockets and answers of
\* the old one are gone, what the sockets had received is still handled.
Restart ==
  /\ faults < MaxFaults /\ faults' = faults + 1
  /\ \E plan \in 0 .. world.plan :
       world' = [mode |-> "paused", plan |-> plan, place |-> Home, clock |-> 0]
  /\ link' = [c \in Client |-> IF link[c] = "closed" THEN "closed" ELSE "ending"]
  /\ queue' = [c \in Client |-> <<>>] /\ replies' = [c \in Client |-> {}]
  /\ answered' = [c \in Client |-> 0]
  /\ UNCHANGED <<inbox, store, edited, overtaken>>

SessionStep(c) ==
  Connect(c) \/ Greet(c) \/ EnterLoop(c) \/ Forward(c) \/ HangUp(c) \/ Close(c)

Next ==
  \/ Step \/ Pause \/ Resume \/ Restart
  \/ \E c \in Client : SessionStep(c) \/ Deliver(c) \/ ReceiveReply(c) \/ Break(c) \/ LoseReply(c)
  \/ \E c \in Editor : PutPlan(c) \/ PatchAgent(c)

Spec == Init /\ [][Next]_vars

\* The session task runs whenever it can, the browser handles what has arrived,
\* and the reconnect timer always fires.  Users and the network owe nothing.
FairSpec ==
  /\ Spec
  /\ \A c \in Client : WF_vars(SessionStep(c)) /\ WF_vars(Deliver(c)) /\ WF_vars(ReceiveReply(c))

-----------------------------------------------------------------------------
(* What must hold. *)

TypeOK ==
  /\ world \in Worlds /\ link \in [Client -> Links]
  /\ queue \in [Client -> Seq(Messages) \cup {Lagged}] /\ inbox \in [Client -> Seq(Messages)]
  /\ \A c \in Client : Len(queue[c]) <= Capacity /\ Len(inbox[c]) <= SocketRoom
  /\ store \in [Client -> Stores \cup {Nothing}]
  /\ replies \in [Client -> SUBSET Worlds] /\ edited \subseteq Editor
  /\ answered \in [Client -> 0 .. MaxEdits] /\ overtaken \in [Client -> BOOLEAN]
  /\ faults \in 0 .. MaxFaults

\* Nothing is under way to the client.
Drained(c) == link[c] = "open" /\ queue[c] = <<>> /\ inbox[c] = <<>> /\ replies[c] = {}

\* Apart from a resume, which shows with the next tick, the store is the world.
Shows(s, w) ==
  /\ s # Nothing /\ s = [FromWorld(w) EXCEPT !.running = s.running]
  /\ s.running => w.mode = "running"

\* The events that raced a snapshot are harmless replays, a lagging session
\* leaves no gap (ws.rs:11-13, 42-44): a client that never edited shows the
\* world as soon as nothing is under way to it.
WatchersInStep == \A c \in Client \ edited : Drained(c) => Shows(store[c], world)

\* Whatever breaks, a watcher comes back, and once nobody presses pause any more
\* it ends up showing the world.
WatchersCatchUp ==
  <>[][~ Pause]_vars =>
    \A c \in Client : [](c \notin edited) => <>[]Shows(store[c], world)

\* A client that alone edits applies each snapshot twice, from the answer and
\* from the socket, in either order (AgentPanel.tsx:311-318): the plan it ends up
\* with is the world's, unless one of its own answers came after a younger one or
\* was lost, and then only until the next snapshot.
OwnEditsShow ==
  \A c \in Client :
    Drained(c) /\ edited = {c} /\ ~ overtaken[c] =>
      store[c] # Nothing /\ store[c].plan = world.plan

\* Every client freezes together and none flips back to running
\* (ws.rs:116-126).
FreezeTogether ==
  \A c \in Client : Drained(c) /\ store[c] # Nothing /\ world.mode = "paused" => ~ store[c].running
=============================================================================
