---------------------------- MODULE StreamProofs ----------------------------
(***************************************************************************)
(* Theorems about Stream, for any number of clients and editors, any       *)
(* capacity of channel and sockets, and any number of faults.              *)
(***************************************************************************)
EXTENDS Stream, TLAPS

-----------------------------------------------------------------------------
(* What messages on their way will make of a store. *)

\* Whose arrival sets which part of a store.
PlanSetters  == {"world_snapshot"}
PlaceSetters == {"world_snapshot", "agent_moved"}
ClockSetters == {"world_snapshot", "tick"}
RunSetters   == {"world_snapshot", "tick", "world_paused"}

PlaceIn(m) == IF m.type = "world_snapshot" THEN m.world.place ELSE m.place
ClockIn(m) == IF m.type = "world_snapshot" THEN m.world.clock ELSE m.clock
Runs(m) == m.type = "tick" \/ (m.type = "world_snapshot" /\ m.world.mode = "running")

Without(q, types) == \A i \in 1 .. Len(q) : q[i].type \notin types

\* The i-th message is the last to set what those types set.
Newest(q, i, types) == q[i].type \in types /\ \A j \in i + 1 .. Len(q) : q[j].type \notin types

\* Who shows the world w shows it still once it has applied q: of each part the
\* newest word is that of w.
Fits(q, w) ==
  \A i \in 1 .. Len(q) :
    /\ Newest(q, i, PlanSetters)  => q[i].world.plan = w.plan
    /\ Newest(q, i, PlaceSetters) => PlaceIn(q[i]) = w.place
    /\ Newest(q, i, ClockSetters) => ClockIn(q[i]) = w.clock
    /\ Newest(q, i, RunSetters)   => (Runs(q[i]) => w.mode = "running")

\* What q leaves alone the store has right already, the plan up to some excused.
PlanKnown(s, q, w, excused) ==
  Without(q, PlanSetters) => s # Nothing /\ (s.plan = w.plan \/ s.plan \in excused)

Known(s, q, w) ==
  /\ PlanKnown(s, q, w, {})
  /\ Without(q, PlaceSetters) => s.place = w.place
  /\ Without(q, ClockSetters) => s.clock = w.clock
  /\ Without(q, RunSetters)   => (s.running => w.mode = "running")

\* All that is on its way to the client over its socket.
Pending(c) == inbox[c] \o queue[c]

FitsFor(c) ==
  /\ link[c] \in {"closed", "subscribed"} => inbox[c] = <<>>
  /\ link[c] \in {"subscribed", "greeting", "open"} /\ queue[c] # Lagged => Fits(Pending(c), world)

PendingFits == \A c \in Client : FitsFor(c)

\* An answer on its way brings the plan of the world.
Coming(c) == \E w \in replies[c] : w.plan = world.plan

\* The plans a store may show meanwhile.
Excused(c) == IF overtaken[c] \/ Coming(c) THEN 0 .. MaxEdits ELSE {}

\* A watcher has right what nothing under way sets; of the only editor that is
\* said of the plan, unless an answer was overtaken or one with the plan comes.
KnowsFor(c) ==
  link[c] \in {"greeting", "open"} /\ queue[c] # Lagged =>
    /\ c \notin edited => Known(store[c], Pending(c), world)
    /\ edited = {c} => PlanKnown(store[c], Pending(c), world, Excused(c))

StoreKnows == \A c \in Client : KnowsFor(c)

\* Answers are for who has edited, and none is younger than the world; as long as
\* some are on their way to the only editor, the youngest is, or was handled.
ReplyFor(c) ==
  /\ replies[c] # {} \/ answered[c] # 0 => c \in edited
  /\ edited = {c} =>
       /\ answered[c] <= world.plan /\ \A w \in replies[c] : w.plan <= world.plan
       /\ replies[c] # {} => Coming(c) \/ answered[c] = world.plan

ReplyFits == \A c \in Client : ReplyFor(c)

StInv == TypeOK /\ PendingFits /\ StoreKnows /\ ReplyFits

-----------------------------------------------------------------------------
(* Messages and stores. *)

Types == {"world_snapshot", "agent_moved", "tick", "world_paused"}

\* The four kinds of messages.
LEMMA MessageKinds ==
  ASSUME NEW m \in Messages
  PROVE  /\ m.type \in Types
         /\ m.type = "world_snapshot" => m.world \in Worlds
         /\ m.type = "agent_moved" => m.place \in Tile
         /\ m.type = "tick" => m.clock \in 0 .. MaxTicks
<1>1. CASE \E w \in Worlds : m = Snapshot(w)
  BY <1>1 DEF Snapshot, Types
<1>2. CASE \E t \in Tile : m = Moved(t)
  BY <1>2 DEF Moved, Types
<1>3. CASE \E n \in 0 .. MaxTicks : m = Tick(n)
  BY <1>3 DEF Tick, Types
<1>4. CASE m = WorldPaused
  BY <1>4 DEF WorldPaused, Types
<1> QED
  BY <1>1, <1>2, <1>3, <1>4 DEF Messages

\* What a broadcast sends is a message, and says what it was made of.
LEMMA MessageTypes ==
  /\ \A w \in Worlds : /\ Snapshot(w) \in Messages /\ Snapshot(w).type = "world_snapshot"
                       /\ Snapshot(w).world = w
  /\ \A t \in Tile : /\ Moved(t) \in Messages /\ Moved(t).type = "agent_moved"
                     /\ Moved(t).place = t
  /\ \A n \in 0 .. MaxTicks : /\ Tick(n) \in Messages /\ Tick(n).type = "tick"
                              /\ Tick(n).clock = n
  /\ WorldPaused \in Messages /\ WorldPaused.type = "world_paused"
BY DEF Messages, Snapshot, Moved, Tick, WorldPaused

\* A message sets in a store what its type sets, to what it says, and leaves the
\* rest; before the first snapshot it sets nothing.
LEMMA AppliedSets ==
  ASSUME NEW m \in Messages, NEW s \in Stores \cup {Nothing}, s # Nothing \/ m.type = "world_snapshot"
  PROVE  LET t == Applied(s, m)
         IN  /\ t \in Stores
             /\ t.plan = IF m.type \in PlanSetters THEN m.world.plan ELSE s.plan
             /\ t.place = IF m.type \in PlaceSetters THEN PlaceIn(m) ELSE s.place
             /\ t.clock = IF m.type \in ClockSetters THEN ClockIn(m) ELSE s.clock
             /\ t.running <=> IF m.type \in RunSetters THEN Runs(m) ELSE s.running
<1> USE MessageKinds DEF PlanSetters, PlaceSetters, ClockSetters, RunSetters, PlaceIn, ClockIn, Runs, Types
<1>1. CASE m.type = "world_snapshot"
  <2> DEFINE b == m.world.mode = "running"
  <2>1. b \in BOOLEAN /\ (Runs(m) <=> b)
    BY <1>1
  <2>2. Applied(s, m) = [running |-> b, plan |-> m.world.plan, place |-> m.world.place,
                         clock |-> m.world.clock]
    BY <1>1 DEF Applied, FromWorld
  <2> HIDE DEF b
  <2>3. m.world \in Worlds
    BY <1>1
  <2> QED
    BY <1>1, <2>1, <2>2, <2>3 DEF Worlds, Stores
<1>2. CASE m.type = "agent_moved" /\ s \in Stores
  <2>1. Applied(s, m) = [s EXCEPT !.place = m.place]
    BY <1>2 DEF Applied
  <2> QED
    BY <1>2, <2>1 DEF Stores
<1>3. CASE m.type = "tick" /\ s \in Stores
  BY <1>3 DEF Applied, Stores
<1>4. CASE m.type = "world_paused" /\ s \in Stores
  BY <1>4 DEF Applied, Stores
<1> QED
  BY <1>1, <1>2, <1>3, <1>4

LEMMA AppliedType ==
  ASSUME NEW m \in Messages, NEW s \in Stores \cup {Nothing}
  PROVE  Applied(s, m) \in Stores \cup {Nothing}
<1>1. CASE s # Nothing \/ m.type = "world_snapshot"
  BY <1>1, AppliedSets
<1>2. CASE s = Nothing /\ m.type # "world_snapshot"
  BY <1>2 DEF Applied
<1> QED
  BY <1>1, <1>2

-----------------------------------------------------------------------------
(* Sequences of messages. *)

\* The message announces what the step from w to v has changed, as it is now.
Announces(m, w, v) ==
  /\ IF m.type \in PlanSetters  THEN m.world.plan = v.plan ELSE v.plan = w.plan
  /\ IF m.type \in PlaceSetters THEN PlaceIn(m) = v.place  ELSE v.place = w.place
  /\ IF m.type \in ClockSetters THEN ClockIn(m) = v.clock  ELSE v.clock = w.clock
  /\ IF m.type \in RunSetters   THEN Runs(m) => v.mode = "running"
                                ELSE w.mode = "running" => v.mode = "running"

\* Whatever the types: the last message is the newest word if it sets them, and
\* changes nothing if it does not.
LEMMA NewestOfAppend ==
  ASSUME NEW q \in Seq(Messages), NEW m \in Messages, NEW types
  PROVE  /\ Append(q, m) \in Seq(Messages) /\ Len(Append(q, m)) = Len(q) + 1
         /\ Append(q, m)[Len(q) + 1] = m
         /\ \A i \in 1 .. Len(q) : /\ Append(q, m)[i] = q[i]
                                   /\ Newest(Append(q, m), i, types) <=>
                                        Newest(q, i, types) /\ m.type \notin types
         /\ Newest(Append(q, m), Len(q) + 1, types) <=> m.type \in types
         /\ Without(Append(q, m), types) <=> Without(q, types) /\ m.type \notin types
<1> DEFINE r == Append(q, m)
<1>1. /\ r \in Seq(Messages) /\ Len(r) = Len(q) + 1 /\ r[Len(q) + 1] = m /\ Len(q) \in Nat
      /\ \A i \in 1 .. Len(q) : r[i] = q[i]
  OBVIOUS
<1> HIDE DEF r
<1>2. ASSUME NEW i \in 1 .. Len(q)
      PROVE  Newest(r, i, types) <=> Newest(q, i, types) /\ m.type \notin types
  <2>1. i + 1 .. Len(r) = (i + 1 .. Len(q)) \cup {Len(q) + 1}
    BY <1>1
  <2>2. \A j \in i + 1 .. Len(q) : r[j] = q[j]
    BY <1>1
  <2> QED
    BY <1>1, <2>1, <2>2 DEF Newest
<1>3. Newest(r, Len(q) + 1, types) <=> m.type \in types
  BY <1>1 DEF Newest
<1>4. Without(r, types) <=> Without(q, types) /\ m.type \notin types
  <2>1. 1 .. Len(r) = (1 .. Len(q)) \cup {Len(q) + 1}
    BY <1>1
  <2> QED
    BY <1>1, <2>1 DEF Without
<1> QED
  BY <1>1, <1>2, <1>3, <1>4 DEF r

\* The first message gone, the rest is as new as it was.
LEMMA NewestOfTail ==
  ASSUME NEW q \in Seq(Messages), q # <<>>, NEW types
  PROVE  /\ Tail(q) \in Seq(Messages) /\ Len(Tail(q)) = Len(q) - 1 /\ Len(q) \in Nat \ {0}
         /\ Head(q) \in Messages /\ Head(q) = q[1]
         /\ \A i \in 1 .. Len(Tail(q)) : /\ Tail(q)[i] = q[i + 1]
                                         /\ Newest(Tail(q), i, types) <=> Newest(q, i + 1, types)
         /\ Newest(q, 1, types) <=> q[1].type \in types /\ Without(Tail(q), types)
         /\ Without(q, types) <=> q[1].type \notin types /\ Without(Tail(q), types)
<1> DEFINE r == Tail(q)
<1>1. /\ r \in Seq(Messages) /\ Len(q) \in Nat \ {0} /\ Len(r) = Len(q) - 1
      /\ Head(q) \in Messages /\ Head(q) = q[1]
      /\ \A i \in 1 .. Len(r) : r[i] = q[i + 1]
  OBVIOUS
<1> HIDE DEF r
<1>2. \A j \in 2 .. Len(q) : q[j] = r[j - 1] /\ j - 1 \in 1 .. Len(r)
  BY <1>1
<1>3. ASSUME NEW i \in 1 .. Len(r)
      PROVE  Newest(r, i, types) <=> Newest(q, i + 1, types)
  <2>1. \A j \in i + 1 .. Len(r) : r[j] = q[j + 1] /\ j + 1 \in i + 2 .. Len(q)
    BY <1>1
  <2>2. \A j \in i + 2 .. Len(q) : q[j] = r[j - 1] /\ j - 1 \in i + 1 .. Len(r)
    BY <1>1
  <2>3. i + 1 + 1 = i + 2
    OBVIOUS
  <2> QED
    BY <1>1, <2>1, <2>2, <2>3 DEF Newest
<1>4. Without(r, types) <=> \A j \in 2 .. Len(q) : q[j].type \notin types
  <2>1. \A i \in 1 .. Len(r) : i + 1 \in 2 .. Len(q)
    BY <1>1
  <2> QED
    BY <1>1, <1>2, <2>1 DEF Without
<1>5. Newest(q, 1, types) <=> q[1].type \in types /\ Without(r, types)
  BY <1>4 DEF Newest
<1>6. Without(q, types) <=> q[1].type \notin types /\ Without(r, types)
  <2>1. 1 .. Len(q) = {1} \cup (2 .. Len(q))
    BY <1>1
  <2> QED
    BY <1>4, <2>1 DEF Without
<1> QED
  BY <1>1, <1>3, <1>5, <1>6 DEF r

\* A message that announces the change keeps what is under way fitting.
LEMMA AppendFits ==
  ASSUME NEW q \in Seq(Messages), NEW m \in Messages, NEW w, NEW v, Announces(m, w, v), Fits(q, w)
  PROVE  Append(q, m) \in Seq(Messages) /\ Fits(Append(q, m), v)
<1> DEFINE r == Append(q, m)
           n == Len(q) + 1
<1>1. /\ r \in Seq(Messages) /\ Len(r) = n /\ r[n] = m /\ n \in Nat /\ \A i \in 1 .. Len(q) : r[i] = q[i]
  BY NewestOfAppend
<1>2. \A types : /\ \A i \in 1 .. Len(q) : Newest(r, i, types) <=> Newest(q, i, types) /\ m.type \notin types
                 /\ Newest(r, n, types) <=> m.type \in types
  BY NewestOfAppend
<1>3. \A i \in 1 .. Len(r) : i \in 1 .. Len(q) \/ i = n
  BY <1>1
<1> HIDE DEF r, n
<1> QED
  BY <1>1, <1>2, <1>3 DEF Fits, Announces, r

\* And a store knows of the change what its message does not say.
LEMMA AppendKnown ==
  ASSUME NEW q \in Seq(Messages), NEW m \in Messages, NEW w, NEW v, NEW s, Announces(m, w, v)
  PROVE  /\ \A x : PlanKnown(s, q, w, x) => PlanKnown(s, Append(q, m), v, x)
         /\ Known(s, q, w) => Known(s, Append(q, m), v)
<1>1. \A types : Without(Append(q, m), types) <=> Without(q, types) /\ m.type \notin types
  BY NewestOfAppend
<1> QED
  BY <1>1 DEF Known, PlanKnown, Announces

\* Applying the first message makes a store know what that message set.
LEMMA DeliverFits ==
  ASSUME NEW q \in Seq(Messages), q # <<>>, NEW w, Fits(q, w), NEW s \in Stores \cup {Nothing}
  PROVE  /\ Fits(Tail(q), w)
         /\ \A x : PlanKnown(s, q, w, x) => PlanKnown(Applied(s, Head(q)), Tail(q), w, x)
         /\ Head(q).type = "world_snapshot" => PlanKnown(Applied(s, Head(q)), Tail(q), w, {})
         /\ Known(s, q, w) => Known(Applied(s, Head(q)), Tail(q), w)
<1> DEFINE r == Tail(q)
           m == Head(q)
           t == Applied(s, m)
<1>1. /\ r \in Seq(Messages) /\ Len(r) = Len(q) - 1 /\ Len(q) \in Nat \ {0} /\ m \in Messages
      /\ m = q[1] /\ \A i \in 1 .. Len(r) : r[i] = q[i + 1]
  BY NewestOfTail
<1>2. \A types : /\ \A i \in 1 .. Len(r) : Newest(r, i, types) <=> Newest(q, i + 1, types)
                 /\ Newest(q, 1, types) <=> m.type \in types /\ Without(r, types)
                 /\ Without(q, types) <=> m.type \notin types /\ Without(r, types)
  BY NewestOfTail
<1>3. \A i \in 1 .. Len(r) : i + 1 \in 1 .. Len(q)
  BY <1>1
<1>4. 1 \in 1 .. Len(q)
  BY <1>1
<1>5. s # Nothing \/ m.type = "world_snapshot" =>
        /\ t \in Stores
        /\ t.plan = IF m.type \in PlanSetters THEN m.world.plan ELSE s.plan
        /\ t.place = IF m.type \in PlaceSetters THEN PlaceIn(m) ELSE s.place
        /\ t.clock = IF m.type \in ClockSetters THEN ClockIn(m) ELSE s.clock
        /\ t.running <=> IF m.type \in RunSetters THEN Runs(m) ELSE s.running
  BY <1>1, AppliedSets
<1> HIDE DEF r, m, t
<1>6. Fits(r, w)
  BY <1>1, <1>2, <1>3 DEF Fits
<1>7. /\ m.type \in PlanSetters /\ Without(r, PlanSetters) => m.world.plan = w.plan
      /\ m.type \in PlaceSetters /\ Without(r, PlaceSetters) => PlaceIn(m) = w.place
      /\ m.type \in ClockSetters /\ Without(r, ClockSetters) => ClockIn(m) = w.clock
      /\ m.type \in RunSetters /\ Without(r, RunSetters) => (Runs(m) => w.mode = "running")
  BY <1>1, <1>2, <1>4 DEF Fits
<1>8. /\ Without(r, PlaceSetters) => Without(r, PlanSetters)
      /\ Without(r, ClockSetters) => Without(r, PlanSetters)
      /\ Without(r, RunSetters) => Without(r, PlanSetters)
  BY DEF Without, PlanSetters, PlaceSetters, ClockSetters, RunSetters
<1>9. m.type = "world_snapshot" => PlanKnown(t, r, w, {})
  BY <1>5, <1>7, NothingAssumption DEF PlanKnown, PlanSetters
<1>10. \A x : PlanKnown(s, q, w, x) => PlanKnown(t, r, w, x)
  <2> SUFFICES ASSUME NEW x, PlanKnown(s, q, w, x), Without(r, PlanSetters)
               PROVE  t # Nothing /\ (t.plan = w.plan \/ t.plan \in x)
    BY DEF PlanKnown
  <2>1. CASE m.type \in PlanSetters
    BY <1>9, <2>1 DEF PlanKnown, PlanSetters
  <2>2. CASE m.type \notin PlanSetters
    <3>1. s # Nothing /\ (s.plan = w.plan \/ s.plan \in x)
      BY <1>2, <2>2 DEF PlanKnown
    <3> QED
      BY <1>5, <2>2, <3>1, NothingAssumption
  <2> QED
    BY <2>1, <2>2
<1>11. Known(s, q, w) => Known(t, r, w)
  <2> SUFFICES ASSUME Known(s, q, w)
               PROVE  /\ Without(r, PlaceSetters) => t.place = w.place
                      /\ Without(r, ClockSetters) => t.clock = w.clock
                      /\ Without(r, RunSetters)   => (t.running => w.mode = "running")
    BY <1>10 DEF Known
  <2>1. Without(r, PlanSetters) => s # Nothing \/ m.type = "world_snapshot"
    BY <1>2 DEF Known, PlanKnown, PlanSetters
  <2>2. Without(r, PlaceSetters) => t.place = w.place
    BY <1>2, <1>5, <1>7, <1>8, <2>1 DEF Known
  <2>3. Without(r, ClockSetters) => t.clock = w.clock
    BY <1>2, <1>5, <1>7, <1>8, <2>1 DEF Known
  <2>4. Without(r, RunSetters) => (t.running => w.mode = "running")
    BY <1>2, <1>5, <1>7, <1>8, <2>1 DEF Known
  <2> QED
    BY <2>2, <2>3, <2>4
<1> QED
  BY <1>6, <1>9, <1>10, <1>11 DEF r, m, t

-----------------------------------------------------------------------------
(* Broadcasts. *)

\* Events that tell of the whole step from w to v: appended to whatever is under
\* way they keep it fitting, and a store knows what they leave out.
Carries(events, w, v) ==
  \A q \in Seq(Messages) : Fits(q, w) =>
    /\ q \o events \in Seq(Messages) /\ Fits(q \o events, v)
    /\ \A s : /\ \A x : PlanKnown(s, q, w, x) => PlanKnown(s, q \o events, v, x)
              /\ Known(s, q, w) => Known(s, q \o events, v)

LEMMA CarriesOne ==
  ASSUME NEW m \in Messages, NEW w, NEW v, Announces(m, w, v)
  PROVE  Carries(<<m>>, w, v)
<1> SUFFICES ASSUME NEW q \in Seq(Messages), Fits(q, w)
             PROVE  /\ q \o <<m>> \in Seq(Messages) /\ Fits(q \o <<m>>, v)
                    /\ \A s : /\ \A x : PlanKnown(s, q, w, x) => PlanKnown(s, q \o <<m>>, v, x)
                              /\ Known(s, q, w) => Known(s, q \o <<m>>, v)
  BY DEF Carries
<1>1. q \o <<m>> = Append(q, m)
  OBVIOUS
<1> QED
  BY <1>1, AppendFits, AppendKnown

LEMMA CarriesTwo ==
  ASSUME NEW m \in Messages, NEW n \in Messages, NEW w, NEW u, NEW v,
         Announces(m, w, u), Announces(n, u, v)
  PROVE  Carries(<<m>> \o <<n>>, w, v)
<1> SUFFICES ASSUME NEW q \in Seq(Messages), Fits(q, w)
             PROVE  /\ q \o (<<m>> \o <<n>>) \in Seq(Messages) /\ Fits(q \o (<<m>> \o <<n>>), v)
                    /\ \A s : /\ \A x : PlanKnown(s, q, w, x) => PlanKnown(s, q \o (<<m>> \o <<n>>), v, x)
                              /\ Known(s, q, w) => Known(s, q \o (<<m>> \o <<n>>), v)
  BY DEF Carries
<1>1. q \o (<<m>> \o <<n>>) = Append(Append(q, m), n)
  OBVIOUS
<1>2. Append(q, m) \in Seq(Messages) /\ Fits(Append(q, m), u)
  BY AppendFits
<1> QED
  BY <1>1, <1>2, AppendFits, AppendKnown

Queues == {q \in Seq(Messages) : Len(q) <= Capacity} \cup {Lagged}

\* The channel stays within its capacity: it takes all the events or lags.
LEMMA EnqueuedType ==
  ASSUME NEW q \in Queues, NEW events \in Seq(Messages)
  PROVE  /\ Enqueued(q, events) \in Queues
         /\ Enqueued(q, events) # Lagged =>
              q # Lagged /\ q \in Seq(Messages) /\ Enqueued(q, events) = q \o events
<1>1. CASE q = Lagged \/ Len(q) + Len(events) > Capacity
  BY <1>1 DEF Enqueued, Queues
<1>2. CASE q # Lagged /\ ~ (Len(q) + Len(events) > Capacity)
  <2>1. Enqueued(q, events) = q \o events /\ q \in Seq(Messages)
    BY <1>2 DEF Enqueued, Queues
  <2>2. q \o events \in Seq(Messages) /\ Len(q \o events) = Len(q) + Len(events)
    BY <2>1
  <2>3. Len(q \o events) <= Capacity
    BY <1>2, <2>1, <2>2, StreamAssumption
  <2> QED
    BY <1>2, <2>1, <2>2, <2>3 DEF Queues
<1> QED
  BY <1>1, <1>2

\* The part of TypeOK that is about the channel and the sockets.
QueuesOK ==
  /\ queue \in [Client -> Queues] /\ inbox \in [Client -> Seq(Messages)]
  /\ \A c \in Client : Len(inbox[c]) <= SocketRoom

\* And the rest of it.
RestOK ==
  /\ world \in Worlds /\ link \in [Client -> Links]
  /\ store \in [Client -> Stores \cup {Nothing}]
  /\ replies \in [Client -> SUBSET Worlds] /\ edited \subseteq Editor
  /\ answered \in [Client -> 0 .. MaxEdits] /\ overtaken \in [Client -> BOOLEAN]
  /\ faults \in 0 .. MaxFaults

LEMMA QueueTypes ==
  ASSUME NEW q
  PROVE  (q \in Seq(Messages) \cup {Lagged} /\ Len(q) <= Capacity) <=> q \in Queues
<1>1. Len(Lagged) = 1 /\ 1 <= Capacity
  BY StreamAssumption DEF Lagged
<1> QED
  BY <1>1 DEF Queues

LEMMA TypeParts ==
  /\ TypeOK <=> QueuesOK /\ RestOK
  /\ TypeOK' <=> QueuesOK' /\ RestOK'
<1>1. \A f : (f \in [Client -> Seq(Messages) \cup {Lagged}] /\ \A c \in Client : Len(f[c]) <= Capacity)
              <=> f \in [Client -> Queues]
  BY QueueTypes
<1>2. TypeOK <=> QueuesOK /\ RestOK
  BY <1>1 DEF TypeOK, QueuesOK, RestOK
<1>3. TypeOK' <=> QueuesOK' /\ RestOK'
  BY <1>1 DEF TypeOK, QueuesOK, RestOK
<1> QED
  BY <1>2, <1>3

\* Behind what a socket holds the channel's events keep their order.
LEMMA PendingGrows ==
  ASSUME NEW a \in Seq(Messages), NEW b \in Seq(Messages), NEW e \in Seq(Messages)
  PROVE  a \o b \in Seq(Messages) /\ a \o (b \o e) = (a \o b) \o e
OBVIOUS

\* A forwarded message is still under way.
LEMMA PendingMoves ==
  ASSUME NEW a \in Seq(Messages), NEW b \in Seq(Messages), b # <<>>
  PROVE  /\ Append(a, Head(b)) \o Tail(b) = a \o b
         /\ Append(a, Head(b)) \in Seq(Messages) /\ Tail(b) \in Seq(Messages)
         /\ Len(Append(a, Head(b))) = Len(a) + 1 /\ Len(b) \in Nat /\ Len(Tail(b)) = Len(b) - 1
OBVIOUS

\* A delivered one was the first.
LEMMA PendingShrinks ==
  ASSUME NEW a \in Seq(Messages), NEW b \in Seq(Messages), a # <<>>
  PROVE  /\ a \o b \in Seq(Messages) /\ a \o b # <<>>
         /\ Head(a \o b) = Head(a) /\ Tail(a \o b) = Tail(a) \o b
         /\ Tail(a) \in Seq(Messages) /\ Head(a) \in Messages
         /\ Len(a) \in Nat /\ Len(Tail(a)) = Len(a) - 1
OBVIOUS

\* A broadcast appends its events for every subscriber that has not lagged.
LEMMA BroadcastAppends ==
  ASSUME TypeOK, NEW events \in Seq(Messages), Broadcast(events), UNCHANGED <<link, inbox>>
  PROVE  /\ QueuesOK'
         /\ \A c \in Client :
              link[c] \in {"subscribed", "greeting", "open"} /\ queue'[c] # Lagged =>
                /\ queue[c] # Lagged /\ Pending(c) \in Seq(Messages)
                /\ Pending(c)' = Pending(c) \o events
<1>1. QueuesOK
  BY TypeParts
<1>2. \A c \in Client : queue'[c] = IF c \in Subscribers THEN Enqueued(queue[c], events) ELSE queue[c]
  BY DEF Broadcast
<1>3. QueuesOK'
  <2>1. \A c \in Client : queue'[c] \in Queues
    BY <1>1, <1>2, EnqueuedType DEF QueuesOK
  <2>2. queue' \in [Client -> Queues]
    BY <2>1 DEF Broadcast
  <2> QED
    BY <1>1, <2>2 DEF QueuesOK
<1>4. ASSUME NEW c \in Client, link[c] \in {"subscribed", "greeting", "open"}, queue'[c] # Lagged
      PROVE  /\ queue[c] # Lagged /\ Pending(c) \in Seq(Messages)
             /\ Pending(c)' = Pending(c) \o events
  <2>1. c \in Subscribers
    BY <1>4 DEF Subscribers
  <2>2. queue[c] # Lagged /\ queue[c] \in Seq(Messages) /\ queue'[c] = queue[c] \o events
    BY <1>1, <1>2, <1>4, <2>1, EnqueuedType DEF QueuesOK
  <2>3. inbox[c] \in Seq(Messages)
    BY <1>1 DEF QueuesOK
  <2>4. inbox[c] \o (queue[c] \o events) = (inbox[c] \o queue[c]) \o events
    BY <2>2, <2>3, PendingGrows
  <2> QED
    BY <2>2, <2>3, <2>4, PendingGrows DEF Pending
<1> QED
  BY <1>3, <1>4

\* What a broadcast tells of the step keeps all that is under way fitting, and
\* what stores know.
LEMMA BroadcastKeeps ==
  ASSUME TypeOK, PendingFits, NEW events \in Seq(Messages), Broadcast(events),
         UNCHANGED <<link, inbox, store>>, Carries(events, world, world')
  PROVE  /\ PendingFits'
         /\ \A c \in Client :
              link[c] \in {"greeting", "open"} /\ queue'[c] # Lagged =>
                /\ queue[c] # Lagged
                /\ \A x : PlanKnown(store[c], Pending(c), world, x) => PlanKnown(store'[c], Pending(c)', world', x)
                /\ Known(store[c], Pending(c), world) => Known(store'[c], Pending(c)', world')
<1>1. ASSUME NEW c \in Client, link[c] \in {"subscribed", "greeting", "open"}, queue'[c] # Lagged
      PROVE  /\ queue[c] # Lagged /\ Fits(Pending(c)', world')
             /\ \A s : /\ \A x : PlanKnown(s, Pending(c), world, x) => PlanKnown(s, Pending(c)', world', x)
                       /\ Known(s, Pending(c), world) => Known(s, Pending(c)', world')
  <2>1. /\ queue[c] # Lagged /\ Pending(c) \in Seq(Messages) /\ Pending(c)' = Pending(c) \o events
    BY <1>1, BroadcastAppends
  <2>2. Fits(Pending(c), world)
    BY <1>1, <2>1 DEF PendingFits, FitsFor
  <2> QED
    BY <2>1, <2>2 DEF Carries
<1>2. \A c \in Client : link'[c] = link[c] /\ inbox'[c] = inbox[c] /\ store'[c] = store[c]
  OBVIOUS
<1>3. PendingFits'
  BY <1>1, <1>2 DEF PendingFits, FitsFor
<1> QED
  BY <1>1, <1>2, <1>3

-----------------------------------------------------------------------------
(* Types. *)

\* A snapshot shows the world it is of, whatever is behind it.
LEMMA GreetFits ==
  ASSUME NEW q \in Seq(Messages), NEW w \in Worlds, Fits(q, w)
  PROVE  /\ <<Snapshot(w)>> \o q \in Seq(Messages) /\ Fits(<<Snapshot(w)>> \o q, w)
         /\ \A s : Known(s, <<Snapshot(w)>> \o q, w) /\ \A x : PlanKnown(s, <<Snapshot(w)>> \o q, w, x)
<1> DEFINE r == <<Snapshot(w)>> \o q
           m == Snapshot(w)
<1>1. m \in Messages /\ m.type = "world_snapshot" /\ m.world = w
  BY MessageTypes
<1>2. r \in Seq(Messages) /\ r # <<>> /\ Tail(r) = q /\ r[1] = m
  BY <1>1
<1> HIDE DEF r, m
<1>3. /\ Len(q) = Len(r) - 1 /\ Len(r) \in Nat \ {0}
      /\ \A i \in 1 .. Len(q) : q[i] = r[i + 1]
  BY <1>2, NewestOfTail, ZenonT(30)
<1>4. \A types : /\ \A i \in 1 .. Len(q) : Newest(q, i, types) <=> Newest(r, i + 1, types)
                 /\ Without(r, types) => m.type \notin types
  BY <1>2, NewestOfTail
<1>5. ASSUME NEW i \in 1 .. Len(r), i # 1
      PROVE  i - 1 \in 1 .. Len(q) /\ i = (i - 1) + 1
  BY <1>3, <1>5
<1>6. ASSUME NEW i \in 1 .. Len(r), i # 1
      PROVE  /\ r[i] = q[i - 1]
             /\ \A types : Newest(q, i - 1, types) <=> Newest(r, i, types)
  <2> DEFINE j == i - 1
  <2>1. j \in 1 .. Len(q) /\ i = j + 1
    BY <1>5, <1>6
  <2> HIDE DEF j
  <2>2. r[i] = q[j] /\ \A types : Newest(q, j, types) <=> Newest(r, i, types)
    BY <1>3, <1>4, <2>1
  <2> QED
    BY <2>2 DEF j
<1>7. Fits(r, w)
  <2> SUFFICES ASSUME NEW i \in 1 .. Len(r)
               PROVE  /\ Newest(r, i, PlanSetters)  => r[i].world.plan = w.plan
                      /\ Newest(r, i, PlaceSetters) => PlaceIn(r[i]) = w.place
                      /\ Newest(r, i, ClockSetters) => ClockIn(r[i]) = w.clock
                      /\ Newest(r, i, RunSetters)   => (Runs(r[i]) => w.mode = "running")
    BY DEF Fits
  <2>1. CASE i = 1
    BY <1>1, <1>2, <2>1 DEF PlaceIn, ClockIn, Runs
  <2>2. CASE i # 1
    BY <1>5, <1>6, <2>2 DEF Fits
  <2> QED
    BY <2>1, <2>2
<1>8. \A s : Known(s, r, w) /\ \A x : PlanKnown(s, r, w, x)
  BY <1>1, <1>4 DEF Known, PlanKnown, PlanSetters, PlaceSetters, ClockSetters, RunSetters
<1> QED
  BY <1>2, <1>7, <1>8 DEF r, m

\* Resuming makes nothing wrong that was right of the paused world.
LEMMA ResumeFits ==
  ASSUME NEW q, NEW w, NEW v, v.plan = w.plan, v.place = w.place, v.clock = w.clock,
         w.mode = "running" => v.mode = "running"
  PROVE  /\ Fits(q, w) => Fits(q, v)
         /\ \A s : /\ \A x : PlanKnown(s, q, w, x) => PlanKnown(s, q, v, x)
                   /\ Known(s, q, w) => Known(s, q, v)
BY DEF Fits, PlanKnown, Known

\* What the actions do to the world and what they broadcast of it.
LEMMA StepTells ==
  ASSUME world \in Worlds, Step
  PROVE  /\ world' \in Worlds /\ world'.plan = world.plan
         /\ \E events \in Seq(Messages) : Broadcast(events) /\ Carries(events, world, world')
<1>1. PICK tile \in Tile :
        /\ world' = [world EXCEPT !.place = tile, !.clock = @ + 1]
        /\ Broadcast((IF tile = world.place THEN <<>> ELSE <<Moved(tile)>>) \o <<Tick(world'.clock)>>)
  BY DEF Step
<1> DEFINE u == [world EXCEPT !.place = tile]
           n == world'.clock
<1>2. /\ world' \in Worlds /\ world'.plan = world.plan /\ n \in 0 .. MaxTicks
      /\ world'.mode = "running" /\ world.mode = "running"
      /\ u.place = tile /\ u.plan = world.plan /\ u.clock = world.clock /\ u.mode = world.mode
      /\ world'.place = tile
  <2>1. /\ world.plan \in 0 .. MaxEdits /\ world.place \in Tile /\ world.clock \in 0 .. MaxTicks
        /\ world = [mode |-> world.mode, plan |-> world.plan, place |-> world.place,
                    clock |-> world.clock]
    BY DEF Worlds
  <2>2. world.mode = "running" /\ world.clock + 1 \in 0 .. MaxTicks
    BY <2>1, StreamAssumption DEF Step
  <2>3. world' = [mode |-> "running", plan |-> world.plan, place |-> tile, clock |-> world.clock + 1]
    BY <1>1, <2>1, <2>2
  <2>4. u = [mode |-> "running", plan |-> world.plan, place |-> tile, clock |-> world.clock]
    BY <2>1, <2>2
  <2> QED
    BY <2>1, <2>2, <2>3, <2>4 DEF Worlds
<1> HIDE DEF u, n
<1>3. Announces(Tick(n), u, world')
  BY <1>2, MessageTypes
     DEF n, Announces, PlanSetters, PlaceSetters, ClockSetters, RunSetters, ClockIn, Runs
<1>4. CASE tile = world.place
  <2>1. Announces(Tick(n), world, world')
    BY <1>2, <1>4, MessageTypes
       DEF n, Announces, PlanSetters, PlaceSetters, ClockSetters, RunSetters, ClockIn, Runs
  <2>2. Broadcast(<<Tick(n)>>)
    <3>1. (IF tile = world.place THEN <<>> ELSE <<Moved(tile)>>) \o <<Tick(n)>> = <<Tick(n)>>
      BY <1>4
    <3> QED
      BY <1>1, <3>1 DEF n
  <2>3. <<Tick(n)>> \in Seq(Messages)
    BY <1>2, MessageTypes
  <2> QED
    BY <1>2, <2>1, <2>2, <2>3, MessageTypes, CarriesOne
<1>5. CASE tile # world.place
  <2>1. Announces(Moved(tile), world, u)
    BY <1>2, MessageTypes
       DEF Announces, PlanSetters, PlaceSetters, ClockSetters, RunSetters, PlaceIn, Runs
  <2>2. Broadcast(<<Moved(tile)>> \o <<Tick(n)>>)
    BY <1>1, <1>5 DEF n
  <2>3. <<Moved(tile)>> \o <<Tick(n)>> \in Seq(Messages)
    BY <1>2, MessageTypes
  <2> QED
    BY <1>2, <1>3, <2>1, <2>2, <2>3, MessageTypes, CarriesTwo
<1> QED
  BY <1>4, <1>5

LEMMA PauseTells ==
  ASSUME world \in Worlds, Pause
  PROVE  /\ world' \in Worlds /\ world'.plan = world.plan
         /\ \E events \in Seq(Messages) : Broadcast(events) /\ Carries(events, world, world')
<1>1. /\ world' \in Worlds /\ world'.plan = world.plan /\ world'.place = world.place
      /\ world'.clock = world.clock /\ world'.mode = "paused" /\ Broadcast(<<WorldPaused>>)
  BY DEF Pause, Worlds
<1>2. Announces(WorldPaused, world, world')
  BY <1>1, MessageTypes DEF Announces, PlanSetters, PlaceSetters, ClockSetters, RunSetters, Runs
<1>3. <<WorldPaused>> \in Seq(Messages) /\ Carries(<<WorldPaused>>, world, world')
  BY <1>2, MessageTypes, CarriesOne
<1> QED
  BY <1>1, <1>3

\* An editing request broadcasts a snapshot of the world it makes, and answers
\* with the same.
LEMMA RequestTells ==
  ASSUME world \in Worlds, NEW c \in Editor, PutPlan(c) \/ PatchAgent(c)
  PROVE  /\ world' \in Worlds /\ Request(c, world')
         /\ \E events \in Seq(Messages) : Broadcast(events) /\ Carries(events, world, world')
<1>1. Request(c, world')
  BY DEF PutPlan, PatchAgent, Request
<1>2. world' \in Worlds
  <2>1. /\ world.mode \in {"paused", "running"} /\ world.plan \in 0 .. MaxEdits
        /\ world.place \in Tile /\ world.clock \in 0 .. MaxTicks
        /\ world = [mode |-> world.mode, plan |-> world.plan, place |-> world.place,
                    clock |-> world.clock]
    BY DEF Worlds
  <2>2. 0 \in 0 .. MaxTicks /\ (world.plan < MaxEdits => world.plan + 1 \in 0 .. MaxEdits)
    BY <2>1, StreamAssumption
  <2>3. CASE PutPlan(c)
    <3>1. /\ world' = [mode |-> "paused", plan |-> world.plan + 1, place |-> world.place, clock |-> 0]
          /\ world.plan < MaxEdits
      BY <2>1, <2>3 DEF PutPlan, Request
    <3> QED
      BY <2>1, <2>2, <3>1 DEF Worlds
  <2>4. CASE PatchAgent(c)
    <3>1. /\ world' = [mode |-> world.mode, plan |-> world.plan + 1, place |-> world.place,
                       clock |-> world.clock]
          /\ world.plan < MaxEdits
      BY <2>1, <2>4 DEF PatchAgent, Request
    <3> QED
      BY <2>1, <2>2, <3>1 DEF Worlds
  <2> QED
    BY <2>3, <2>4
<1>3. Announces(Snapshot(world'), world, world')
  BY <1>2, MessageTypes
     DEF Announces, PlanSetters, PlaceSetters, ClockSetters, RunSetters, PlaceIn, ClockIn, Runs
<1>4. /\ <<Snapshot(world')>> \in Seq(Messages) /\ Broadcast(<<Snapshot(world')>>)
      /\ Carries(<<Snapshot(world')>>, world, world')
  BY <1>1, <1>2, <1>3, MessageTypes, CarriesOne DEF Request
<1> QED
  BY <1>1, <1>2, <1>4

LEMMA TypeInit == Init => TypeOK
<1> SUFFICES ASSUME Init PROVE TypeOK
  OBVIOUS
<1>1. /\ world \in Worlds /\ 0 \in 0 .. MaxFaults /\ 0 <= Capacity /\ 0 <= SocketRoom
  BY StreamAssumption DEF Init, Worlds
<1>2. <<>> \in Seq(Messages) /\ Len(<<>>) = 0
  OBVIOUS
<1>3. /\ replies \in [Client -> SUBSET Worlds] /\ overtaken \in [Client -> BOOLEAN]
      /\ answered \in [Client -> 0 .. MaxEdits]
  BY StreamAssumption DEF Init
<1>4. /\ link \in [Client -> Links] /\ store \in [Client -> Stores \cup {Nothing}]
      /\ queue \in [Client -> Seq(Messages) \cup {Lagged}] /\ inbox \in [Client -> Seq(Messages)]
      /\ \A c \in Client : Len(queue[c]) <= Capacity /\ Len(inbox[c]) <= SocketRoom
  BY <1>1, <1>2 DEF Init, Links
<1> QED
  BY <1>1, <1>3, <1>4 DEF Init, TypeOK

\* A broadcast leaves the queues typed.
LEMMA TypeTells ==
  ASSUME TypeOK, NEW events \in Seq(Messages), Broadcast(events), world' \in Worlds,
         UNCHANGED <<link, inbox, store, faults>>,
         replies' \in [Client -> SUBSET Worlds], edited' \subseteq Editor,
         UNCHANGED <<answered, overtaken>>
  PROVE  TypeOK'
<1>1. QueuesOK'
  BY BroadcastAppends
<1>2. RestOK'
  BY TypeParts DEF RestOK
<1> QED
  BY <1>1, <1>2, TypeParts

\* A client's own steps set at most its own queue and inbox.
LEMMA QueuesSet ==
  ASSUME QueuesOK, NEW c \in Client, NEW q \in Queues, NEW i \in Seq(Messages), Len(i) <= SocketRoom,
         queue' = [queue EXCEPT ![c] = q] \/ queue' = queue,
         inbox' = [inbox EXCEPT ![c] = i] \/ inbox' = inbox
  PROVE  QueuesOK'
BY DEF QueuesOK

LEMMA ClientKeepsTypes ==
  ASSUME TypeOK, NEW c \in Client,
         SessionStep(c) \/ Deliver(c) \/ ReceiveReply(c) \/ Break(c) \/ LoseReply(c)
  PROVE  TypeOK'
<1>1. QueuesOK /\ RestOK
  BY TypeParts
<1>2. /\ queue[c] \in Queues /\ inbox[c] \in Seq(Messages) /\ Len(inbox[c]) <= SocketRoom
      /\ <<>> \in Queues /\ <<>> \in Seq(Messages) /\ Len(<<>>) = 0 /\ 0 <= SocketRoom
      /\ 1 <= SocketRoom
  BY <1>1, StreamAssumption DEF QueuesOK, Queues
<1>3. CASE Connect(c)
  <2>1. QueuesOK'
    BY <1>1, <1>2, <1>3, QueuesSet DEF Connect
  <2>2. RestOK'
    BY <1>1, <1>3 DEF Connect, own, RestOK, Links
  <2> QED
    BY <2>1, <2>2, TypeParts
<1>4. CASE Greet(c)
  <2>1. <<Snapshot(world)>> \in Seq(Messages) /\ Len(<<Snapshot(world)>>) = 1
    BY <1>1, MessageTypes DEF RestOK
  <2>2. QueuesOK'
    BY <1>1, <1>2, <1>4, <2>1, QueuesSet DEF Greet
  <2>3. RestOK'
    BY <1>1, <1>4 DEF Greet, own, RestOK, Links
  <2> QED
    BY <2>2, <2>3, TypeParts
<1>5. CASE EnterLoop(c)
  <2>1. QueuesOK'
    BY <1>1, <1>5 DEF EnterLoop, QueuesOK
  <2>2. RestOK'
    BY <1>1, <1>5 DEF EnterLoop, own, RestOK, Links
  <2> QED
    BY <2>1, <2>2, TypeParts
<1>6. CASE Forward(c)
  <2>1. queue[c] \in Seq(Messages) /\ Len(queue[c]) <= Capacity /\ queue[c] # <<>>
    BY <1>2, <1>6 DEF Forward, Queues
  <2>2. /\ Tail(queue[c]) \in Queues
        /\ Append(inbox[c], Head(queue[c])) \in Seq(Messages)
        /\ Len(Append(inbox[c], Head(queue[c]))) = Len(inbox[c]) + 1
        /\ Len(inbox[c]) \in Nat
    BY <1>2, <2>1, PendingMoves, StreamAssumption DEF Queues
  <2>3. Len(Append(inbox[c], Head(queue[c]))) <= SocketRoom
    BY <1>6, <2>2, StreamAssumption DEF Forward
  <2>4. QueuesOK'
    <3>1. /\ queue' = [queue EXCEPT ![c] = Tail(queue[c])]
          /\ inbox' = [inbox EXCEPT ![c] = Append(inbox[c], Head(queue[c]))]
      BY <1>6 DEF Forward
    <3> QED
      BY <1>1, <2>2, <2>3, <3>1, QueuesSet
  <2>5. RestOK'
    BY <1>1, <1>6 DEF Forward, own, RestOK
  <2> QED
    BY <2>4, <2>5, TypeParts
<1>7. CASE HangUp(c)
  <2>1. QueuesOK'
    BY <1>1, <1>2, <1>7, QueuesSet DEF HangUp
  <2>2. RestOK'
    BY <1>1, <1>7 DEF HangUp, own, RestOK, Links
  <2> QED
    BY <2>1, <2>2, TypeParts
<1>8. CASE Close(c)
  <2>1. QueuesOK'
    BY <1>1, <1>8 DEF Close, QueuesOK
  <2>2. RestOK'
    BY <1>1, <1>8 DEF Close, own, RestOK, Links
  <2> QED
    BY <2>1, <2>2, TypeParts
<1>9. CASE Deliver(c)
  <2>1. inbox[c] # <<>> /\ inbox' = [inbox EXCEPT ![c] = Tail(inbox[c])] /\ queue' = queue
    BY <1>9 DEF Deliver
  <2>2. /\ Tail(inbox[c]) \in Seq(Messages) /\ Head(inbox[c]) \in Messages
        /\ Len(Tail(inbox[c])) = Len(inbox[c]) - 1 /\ Len(inbox[c]) \in Nat
    BY <1>2, <2>1
  <2>3. QueuesOK'
    <3>1. Len(Tail(inbox[c])) <= SocketRoom
      BY <1>2, <2>2, StreamAssumption
    <3> QED
      BY <1>1, <1>2, <2>1, <2>2, <3>1, QueuesSet
  <2>4. Applied(store[c], Head(inbox[c])) \in Stores \cup {Nothing}
    BY <1>1, <2>2, AppliedType DEF RestOK
  <2>5. overtaken' \in [Client -> BOOLEAN]
    BY <1>1, <1>9 DEF Deliver, RestOK
  <2>6. RestOK'
    BY <1>1, <1>9, <2>4, <2>5 DEF Deliver, RestOK
  <2> QED
    BY <2>3, <2>6, TypeParts
<1>10. ASSUME NEW w \in replies[c], Handled(c, w)
       PROVE  replies' \in [Client -> SUBSET Worlds] /\ answered' \in [Client -> 0 .. MaxEdits]
  <2>1. w.plan \in 0 .. MaxEdits
    BY <1>1 DEF RestOK, Worlds
  <2> QED
    BY <1>1, <1>10, <2>1 DEF Handled, RestOK
<1>11. CASE ReceiveReply(c)
  <2>1. QueuesOK'
    BY <1>1, <1>11 DEF ReceiveReply, QueuesOK
  <2>2. PICK w \in replies[c] : /\ Handled(c, w)
                                /\ store' = [store EXCEPT ![c] = Applied(store[c], Snapshot(w))]
                                /\ overtaken' = [overtaken EXCEPT ![c] = Late(c, w)]
    BY <1>11 DEF ReceiveReply
  <2>3. Applied(store[c], Snapshot(w)) \in Stores \cup {Nothing}
    BY <1>1, MessageTypes, AppliedType DEF RestOK
  <2>4. Late(c, w) \in BOOLEAN
    BY DEF Late
  <2>5. store' \in [Client -> Stores \cup {Nothing}] /\ overtaken' \in [Client -> BOOLEAN]
    BY <1>1, <2>2, <2>3, <2>4 DEF RestOK
  <2>6. RestOK'
    BY <1>1, <1>10, <1>11, <2>2, <2>5 DEF ReceiveReply, RestOK
  <2> QED
    BY <2>1, <2>6, TypeParts
<1>12. CASE LoseReply(c)
  <2>1. QueuesOK'
    BY <1>1, <1>12 DEF LoseReply, QueuesOK
  <2>2. faults' \in 0 .. MaxFaults
    BY <1>1, <1>12, StreamAssumption DEF LoseReply, RestOK
  <2>3. replies' \in [Client -> SUBSET Worlds] /\ answered' \in [Client -> 0 .. MaxEdits]
    BY <1>10, <1>12 DEF LoseReply
  <2>4. overtaken' \in [Client -> BOOLEAN]
    BY <1>1, <1>12 DEF LoseReply, RestOK
  <2>5. RestOK'
    BY <1>1, <1>12, <2>2, <2>3, <2>4 DEF LoseReply, RestOK
  <2> QED
    BY <2>1, <2>5, TypeParts
<1>13. CASE Break(c)
  <2>1. QueuesOK'
    BY <1>1, <1>2, <1>13, QueuesSet DEF Break
  <2>2. faults' \in 0 .. MaxFaults
    BY <1>1, <1>13, StreamAssumption DEF Break, own, RestOK
  <2>3. RestOK'
    BY <1>1, <1>13, <2>2 DEF Break, own, RestOK, Links
  <2> QED
    BY <2>1, <2>3, TypeParts
<1> QED
  BY <1>3, <1>4, <1>5, <1>6, <1>7, <1>8, <1>9, <1>11, <1>12, <1>13 DEF SessionStep

LEMMA TypeKept == TypeOK /\ [Next]_vars => TypeOK'
<1> SUFFICES ASSUME TypeOK, [Next]_vars PROVE TypeOK'
  OBVIOUS
<1>1. QueuesOK /\ RestOK
  BY TypeParts
<1>2. world \in Worlds
  BY <1>1 DEF RestOK
<1>3. CASE Step
  BY <1>1, <1>2, <1>3, StepTells, TypeTells DEF Step, own, RestOK
<1>4. CASE Pause
  BY <1>1, <1>2, <1>4, PauseTells, TypeTells DEF Pause, own, RestOK
<1>5. CASE Resume
  <2>1. world' \in Worlds
    BY <1>2, <1>5 DEF Resume, Worlds
  <2> QED
    BY <1>5, <2>1 DEF Resume, own, TypeOK
<1>6. CASE Restart
  <2>1. world' \in Worlds
    <3>1. PICK plan \in 0 .. world.plan :
            world' = [mode |-> "paused", plan |-> plan, place |-> Home, clock |-> 0]
      BY <1>6 DEF Restart
    <3>2. plan \in 0 .. MaxEdits /\ 0 \in 0 .. MaxTicks /\ Home \in Tile
      BY <1>2, StreamAssumption DEF Worlds
    <3> QED
      BY <3>1, <3>2 DEF Worlds
  <2>2. QueuesOK'
    <3>1. <<>> \in Queues
      BY StreamAssumption DEF Queues
    <3> QED
      BY <1>1, <1>6, <3>1 DEF Restart, QueuesOK
  <2>3. faults' \in 0 .. MaxFaults
    BY <1>1, <1>6, StreamAssumption DEF Restart, RestOK
  <2>4. 0 \in 0 .. MaxEdits
    BY StreamAssumption
  <2>5. RestOK'
    BY <1>1, <1>6, <2>1, <2>3, <2>4 DEF Restart, RestOK, Links
  <2> QED
    BY <2>2, <2>5, TypeParts
<1>7. ASSUME NEW c \in Editor, PutPlan(c) \/ PatchAgent(c) PROVE TypeOK'
  <2>1. /\ world' \in Worlds /\ Request(c, world')
        /\ \E events \in Seq(Messages) : Broadcast(events)
    BY <1>2, <1>7, RequestTells
  <2>2. /\ replies' \in [Client -> SUBSET Worlds] /\ edited' \subseteq Editor
        /\ UNCHANGED <<answered, overtaken>>
    BY <1>1, <2>1 DEF Request, Asks, RestOK
  <2> QED
    BY <2>1, <2>2, TypeTells DEF Request
<1>8. CASE UNCHANGED vars
  BY <1>8 DEF vars, TypeOK
<1> QED
  BY <1>3, <1>4, <1>5, <1>6, <1>7, <1>8, ClientKeepsTypes DEF Next

\* The world, the queues, the sockets and the stores hold what the code puts there,
\* and the channel and the sockets never more than they take.
THEOREM TypeCorrect == Spec => []TypeOK
BY TypeInit, TypeKept, PTL DEF Spec

-----------------------------------------------------------------------------
(* What is under way fits, what is not the stores know. *)

LEMMA StInit == Init => StInv
<1> SUFFICES ASSUME Init PROVE StInv
  OBVIOUS
<1>1. PendingFits /\ StoreKnows /\ ReplyFits
  BY DEF Init, PendingFits, FitsFor, StoreKnows, KnowsFor, ReplyFits, ReplyFor
<1> QED
  BY <1>1, TypeInit DEF StInv

\* A broadcast that tells of a step that is no request keeps the invariant.
LEMMA TellingKeeps ==
  ASSUME StInv, NEW events \in Seq(Messages), Broadcast(events), Carries(events, world, world'),
         world'.plan = world.plan, UNCHANGED <<link, inbox, store, own>>
  PROVE  PendingFits' /\ StoreKnows' /\ ReplyFits'
<1>1. TypeOK /\ PendingFits /\ StoreKnows /\ ReplyFits
  BY DEF StInv
<1>2. /\ PendingFits'
      /\ \A c \in Client :
           link[c] \in {"greeting", "open"} /\ queue'[c] # Lagged =>
             /\ queue[c] # Lagged
             /\ \A x : PlanKnown(store[c], Pending(c), world, x) => PlanKnown(store'[c], Pending(c)', world', x)
             /\ Known(store[c], Pending(c), world) => Known(store'[c], Pending(c)', world')
  BY <1>1, BroadcastKeeps
<1>3. /\ UNCHANGED edited
      /\ \A c \in Client : /\ replies'[c] = replies[c] /\ answered'[c] = answered[c]
                            /\ Excused(c)' = Excused(c) /\ (Coming(c)' <=> Coming(c))
  BY DEF own, Excused, Coming
<1>4. StoreKnows'
  BY <1>1, <1>2, <1>3 DEF StoreKnows, KnowsFor
<1>5. ReplyFits'
  BY <1>1, <1>3 DEF ReplyFits, ReplyFor
<1> QED
  BY <1>2, <1>4, <1>5

\* A request too: who alone has edited from now on watched so far or had edited
\* alone, and the answer is a snapshot of the new world.
LEMMA RequestKeeps ==
  ASSUME StInv, NEW e \in Editor, PutPlan(e) \/ PatchAgent(e)
  PROVE  PendingFits' /\ StoreKnows' /\ ReplyFits'
<1>1. TypeOK /\ PendingFits /\ StoreKnows /\ ReplyFits /\ world \in Worlds
  BY DEF StInv, TypeOK
<1>2. /\ Request(e, world') /\ world' \in Worlds
      /\ \E events \in Seq(Messages) : Broadcast(events) /\ Carries(events, world, world')
  BY <1>1, RequestTells
<1>3. /\ edited' = edited \cup {e} /\ UNCHANGED <<link, inbox, store>>
      /\ world.plan < MaxEdits /\ UNCHANGED <<answered, overtaken>>
      /\ \A x \in Client : replies'[x] = IF x = e THEN replies[x] \cup {world'} ELSE replies[x]
  BY <1>2 DEF Request, Asks
<1>4. /\ PendingFits'
      /\ \A c \in Client :
           link[c] \in {"greeting", "open"} /\ queue'[c] # Lagged =>
             /\ queue[c] # Lagged
             /\ \A x : PlanKnown(store[c], Pending(c), world, x) => PlanKnown(store'[c], Pending(c)', world', x)
             /\ Known(store[c], Pending(c), world) => Known(store'[c], Pending(c)', world')
  BY <1>1, <1>2, <1>3, BroadcastKeeps
<1>5. StoreKnows'
  <2> SUFFICES ASSUME NEW c \in Client, link[c] \in {"greeting", "open"}, queue'[c] # Lagged
               PROVE  /\ c \notin edited' => Known(store'[c], Pending(c)', world')
                      /\ edited' = {c} => PlanKnown(store'[c], Pending(c)', world', Excused(c)')
    BY <1>3 DEF StoreKnows, KnowsFor
  <2>1. c \notin edited' => Known(store'[c], Pending(c)', world')
    BY <1>1, <1>3, <1>4 DEF StoreKnows, KnowsFor
  <2>2. ASSUME edited' = {c} PROVE PlanKnown(store'[c], Pending(c)', world', Excused(c)')
    <3>1. c = e /\ Excused(c)' = 0 .. MaxEdits
      BY <1>3, <2>2 DEF Excused, Coming
    <3>2. PlanKnown(store[c], Pending(c), world, 0 .. MaxEdits)
      <4>1. c \notin edited \/ edited = {c}
        BY <1>3, <2>2
      <4>2. Excused(c) \subseteq 0 .. MaxEdits
        BY DEF Excused
      <4> QED
        BY <1>1, <1>4, <4>1, <4>2 DEF StoreKnows, KnowsFor, Known, PlanKnown
    <3> QED
      BY <1>4, <3>1, <3>2
  <2> QED
    BY <2>1, <2>2
<1>6. ReplyFits'
  <2>1. world'.plan = world.plan + 1 /\ world.plan \in Nat
    <3>1. /\ world.plan \in Nat
          /\ world = [mode |-> world.mode, plan |-> world.plan, place |-> world.place,
                      clock |-> world.clock]
      BY <1>1, StreamAssumption DEF Worlds
    <3>2. CASE PutPlan(e)
      <4>1. world' = [mode |-> "paused", plan |-> world.plan + 1, place |-> world.place, clock |-> 0]
        BY <3>1, <3>2 DEF PutPlan, Request
      <4> QED
        BY <3>1, <4>1
    <3>3. CASE PatchAgent(e)
      <4>1. world' = [mode |-> world.mode, plan |-> world.plan + 1, place |-> world.place,
                      clock |-> world.clock]
        BY <3>1, <3>3 DEF PatchAgent, Request
      <4> QED
        BY <3>1, <4>1
    <3> QED
      BY <3>2, <3>3
  <2> SUFFICES ASSUME NEW c \in Client PROVE ReplyFor(c)'
    BY DEF ReplyFits
  <2>2. ReplyFor(c)
    BY <1>1 DEF ReplyFits
  <2>3. answered[c] \in Int /\ \A w \in replies[c] : w.plan \in Int
    BY <1>1 DEF StInv, TypeOK, Worlds
  <2>4. CASE c = e
    <3>1. Coming(c)' /\ c \in edited'
      BY <1>3, <2>4 DEF Coming
    <3>2. CASE edited' = {c}
      <4>1. edited = {c} \/ (replies[c] = {} /\ answered[c] = 0)
        BY <1>3, <2>2, <2>4, <3>2 DEF ReplyFor
      <4>2. answered[c] <= world.plan /\ \A w \in replies[c] : w.plan <= world.plan
        BY <2>1, <2>2, <4>1 DEF ReplyFor
      <4>3. answered'[c] <= world'.plan
        BY <1>3, <2>1, <2>3, <4>2
      <4>4. ASSUME NEW w \in replies'[c] PROVE w.plan <= world'.plan
        <5>1. w \in replies[c] \/ w = world'
          BY <1>3, <2>4
        <5> QED
          BY <2>1, <2>3, <4>2, <5>1
      <4> QED
        BY <3>1, <4>3, <4>4 DEF ReplyFor
    <3> QED
      BY <3>1, <3>2 DEF ReplyFor
  <2>5. CASE c # e
    BY <1>3, <2>2, <2>5 DEF ReplyFor
  <2> QED
    BY <2>4, <2>5
<1> QED
  BY <1>4, <1>5, <1>6

\* An answer goes: no younger one is left but with the plan of the world, unless it
\* was late.
LEMMA AnswerGoes ==
  ASSUME TypeOK, NEW c \in Client, NEW w \in replies[c], Handled(c, w), ReplyFor(c),
         UNCHANGED <<world, edited>>
  PROVE  /\ ReplyFor(c)' /\ c \in edited
         /\ edited = {c} /\ ~ Late(c, w) => w.plan = world.plan \/ Coming(c)'
<1>1. /\ replies'[c] = replies[c] \ {w} /\ c \in edited
      /\ answered'[c] = IF Late(c, w) THEN answered[c] ELSE w.plan
  BY DEF TypeOK, Handled, ReplyFor
<1>2. /\ answered[c] \in Int /\ world.plan \in Int /\ w.plan \in Int
      /\ \A v \in replies[c] : v.plan \in Int
  BY DEF TypeOK, Worlds
<1>3. CASE edited = {c}
  <2>1. /\ answered[c] <= world.plan /\ w.plan <= world.plan
        /\ Coming(c) \/ answered[c] = world.plan
    BY <1>3 DEF ReplyFor
  <2>2. Coming(c) => Coming(c)' \/ w.plan = world.plan
    BY <1>1 DEF Coming
  <2>3. Coming(c)' \/ answered'[c] = world.plan
    BY <1>1, <1>2, <2>1, <2>2 DEF Late
  <2>4. answered'[c] <= world.plan /\ \A v \in replies'[c] : v.plan <= world.plan
    BY <1>1, <1>2, <1>3, <2>1 DEF ReplyFor
  <2>5. ~ Late(c, w) => w.plan = world.plan \/ Coming(c)'
    BY <1>2, <2>1, <2>2 DEF Late
  <2> QED
    BY <1>1, <2>3, <2>4, <2>5 DEF ReplyFor
<1> QED
  BY <1>1, <1>3 DEF ReplyFor

\* Of the clients a client's own step moves none but itself.
LEMMA OthersKeep ==
  ASSUME StInv, NEW c \in Client,
         SessionStep(c) \/ Deliver(c) \/ ReceiveReply(c) \/ Break(c) \/ LoseReply(c),
         FitsFor(c)', KnowsFor(c)', ReplyFor(c)'
  PROVE  PendingFits' /\ StoreKnows' /\ ReplyFits'
<1>1. /\ link \in [Client -> Links] /\ queue \in [Client -> Seq(Messages) \cup {Lagged}]
      /\ inbox \in [Client -> Seq(Messages)] /\ store \in [Client -> Stores \cup {Nothing}]
      /\ replies \in [Client -> SUBSET Worlds] /\ answered \in [Client -> 0 .. MaxEdits]
      /\ overtaken \in [Client -> BOOLEAN]
  BY DEF StInv, TypeOK
<1>2. /\ UNCHANGED <<world, edited>>
      /\ \A x \in Client \ {c} : /\ link'[x] = link[x] /\ queue'[x] = queue[x] /\ inbox'[x] = inbox[x]
                                 /\ store'[x] = store[x] /\ replies'[x] = replies[x]
                                 /\ answered'[x] = answered[x] /\ overtaken'[x] = overtaken[x]
  BY <1>1 DEF SessionStep, Connect, Greet, EnterLoop, Forward, HangUp, Close, Deliver, ReceiveReply,
              Break, LoseReply, Handled, own
<1>3. ASSUME NEW x \in Client PROVE FitsFor(x)' /\ KnowsFor(x)' /\ ReplyFor(x)'
  <2>1. CASE x = c
    BY <2>1
  <2>2. CASE x # c
    <3>1. FitsFor(x) /\ KnowsFor(x) /\ ReplyFor(x)
      BY DEF StInv, PendingFits, StoreKnows, ReplyFits
    <3> QED
      BY <1>2, <2>2, <3>1 DEF FitsFor, KnowsFor, ReplyFor, Pending, Excused, Coming
  <2> QED
    BY <2>1, <2>2
<1> QED
  BY <1>3 DEF PendingFits, StoreKnows, ReplyFits

LEMMA ClientKeeps ==
  ASSUME StInv, NEW c \in Client,
         SessionStep(c) \/ Deliver(c) \/ ReceiveReply(c) \/ Break(c) \/ LoseReply(c)
  PROVE  PendingFits' /\ StoreKnows' /\ ReplyFits'
<1>1. /\ link \in [Client -> Links] /\ queue \in [Client -> Seq(Messages) \cup {Lagged}]
      /\ inbox \in [Client -> Seq(Messages)] /\ store \in [Client -> Stores \cup {Nothing}]
      /\ replies \in [Client -> SUBSET Worlds] /\ answered \in [Client -> 0 .. MaxEdits]
      /\ overtaken \in [Client -> BOOLEAN]
      /\ world \in Worlds
  BY DEF StInv, TypeOK
<1>2. FitsFor(c) /\ KnowsFor(c) /\ ReplyFor(c)
  BY DEF StInv, PendingFits, StoreKnows, ReplyFits
<1> SUFFICES FitsFor(c)' /\ KnowsFor(c)' /\ ReplyFor(c)'
  BY OthersKeep
<1>3. /\ \A w : Fits(<<>>, w)
      /\ \A q \in Seq(Messages) : <<>> \o q = q
  BY DEF Fits
<1>0. ASSUME UNCHANGED <<world, own>>
      PROVE  UNCHANGED edited /\ Excused(c)' = Excused(c) /\ ReplyFor(c)'
  BY <1>0, <1>2 DEF own, Excused, Coming, ReplyFor
<1>4. CASE Connect(c)
  <2>1. /\ link'[c] = "subscribed" /\ link[c] = "closed" /\ queue'[c] = <<>> /\ inbox'[c] = <<>>
        /\ UNCHANGED <<world, own>>
    BY <1>1, <1>2, <1>4 DEF Connect, FitsFor
  <2> QED
    BY <1>0, <1>2, <1>3, <2>1 DEF FitsFor, KnowsFor, Pending
<1>5. CASE Greet(c)
  <2>1. /\ link'[c] = "greeting" /\ link[c] = "subscribed" /\ queue'[c] = queue[c] /\ inbox[c] = <<>>
        /\ inbox'[c] = <<Snapshot(world)>> /\ UNCHANGED <<world, store, own>>
    BY <1>1, <1>2, <1>5 DEF Greet, FitsFor
  <2>2. ASSUME queue[c] # Lagged
        PROVE  /\ Fits(Pending(c)', world)
               /\ \A s : Known(s, Pending(c)', world) /\ \A x : PlanKnown(s, Pending(c)', world, x)
    <3>1. queue[c] \in Seq(Messages) /\ Pending(c) = queue[c]
      BY <1>1, <1>3, <2>1, <2>2 DEF Pending
    <3>2. Fits(queue[c], world)
      BY <1>2, <2>1, <2>2, <3>1 DEF FitsFor
    <3>3. Pending(c)' = <<Snapshot(world)>> \o queue[c]
      BY <2>1 DEF Pending
    <3> QED
      BY <1>1, <3>1, <3>2, <3>3, GreetFits
  <2> QED
    BY <1>0, <1>2, <2>1, <2>2 DEF FitsFor, KnowsFor
<1>6. CASE EnterLoop(c)
  <2>1. /\ link'[c] = "open" /\ link[c] = "greeting"
        /\ UNCHANGED <<world, queue, inbox, store, own>>
    BY <1>1, <1>6 DEF EnterLoop
  <2> QED
    BY <1>0, <1>2, <2>1 DEF FitsFor, KnowsFor, Pending
<1>7. CASE Forward(c)
  <2>1. /\ link[c] = "open" /\ queue[c] # Lagged /\ queue[c] # <<>>
        /\ queue'[c] = Tail(queue[c]) /\ inbox'[c] = Append(inbox[c], Head(queue[c]))
        /\ UNCHANGED <<world, link, store, own>>
    BY <1>1, <1>7 DEF Forward
  <2>2. Pending(c)' = Pending(c)
    BY <1>1, <2>1, PendingMoves DEF Pending
  <2> QED
    BY <1>0, <1>2, <2>1, <2>2 DEF FitsFor, KnowsFor
<1>8. CASE HangUp(c) \/ Close(c)
  <2>1. /\ link'[c] = "ending" \/ (link'[c] = "closed" /\ inbox'[c] = <<>>)
        /\ UNCHANGED <<world, own>>
    BY <1>1, <1>8 DEF HangUp, Close
  <2> QED
    BY <1>0, <1>2, <2>1 DEF FitsFor, KnowsFor
<1>9. CASE Deliver(c)
  <2>1. /\ inbox[c] # <<>> /\ inbox'[c] = Tail(inbox[c]) /\ queue'[c] = queue[c]
        /\ store'[c] = Applied(store[c], Head(inbox[c]))
        /\ overtaken'[c] = (overtaken[c] /\ Head(inbox[c]).type # "world_snapshot")
        /\ UNCHANGED <<world, link, replies, answered, edited>>
    BY <1>1, <1>9 DEF Deliver
  <2>2. link[c] \notin {"closed", "subscribed"}
    BY <1>2, <2>1 DEF FitsFor
  <2>3. ASSUME link[c] \in {"greeting", "open"}, queue[c] # Lagged
        PROVE  /\ Fits(Pending(c)', world)
               /\ \A x : PlanKnown(store[c], Pending(c), world, x) => PlanKnown(store'[c], Pending(c)', world, x)
               /\ Head(inbox[c]).type = "world_snapshot" => PlanKnown(store'[c], Pending(c)', world, {})
               /\ Known(store[c], Pending(c), world) => Known(store'[c], Pending(c)', world)
    <3>1. inbox[c] \in Seq(Messages) /\ queue[c] \in Seq(Messages)
      BY <1>1, <2>3
    <3>2. /\ Pending(c) \in Seq(Messages) /\ Pending(c) # <<>>
          /\ Head(Pending(c)) = Head(inbox[c]) /\ Tail(Pending(c)) = Pending(c)'
      BY <2>1, <3>1, PendingShrinks, ZenonT(30) DEF Pending
    <3>3. Fits(Pending(c), world)
      BY <1>2, <2>3 DEF FitsFor
    <3> QED
      BY <1>1, <2>1, <3>2, <3>3, DeliverFits
  <2>4. ReplyFor(c)' /\ (Coming(c)' <=> Coming(c))
    BY <1>2, <2>1 DEF ReplyFor, Coming
  <2>5. CASE Head(inbox[c]).type = "world_snapshot"
    <3>1. \A s, q, x : PlanKnown(s, q, world, {}) => PlanKnown(s, q, world, x)
      BY DEF PlanKnown
    <3> QED
      BY <1>2, <2>1, <2>2, <2>3, <2>4, <2>5, <3>1 DEF FitsFor, KnowsFor
  <2>6. CASE Head(inbox[c]).type # "world_snapshot"
    <3>1. Excused(c)' = Excused(c)
      BY <2>1, <2>4, <2>6 DEF Excused
    <3> QED
      BY <1>2, <2>1, <2>2, <2>3, <2>4, <3>1 DEF FitsFor, KnowsFor
  <2> QED
    BY <2>5, <2>6
<1>10. ASSUME NEW w \in replies[c], Handled(c, w), UNCHANGED <<world, link, queue, inbox, edited>>,
              \/ /\ store'[c] = Applied(store[c], Snapshot(w)) /\ overtaken'[c] = Late(c, w)
              \/ store'[c] = store[c] /\ overtaken'[c] = TRUE
       PROVE  FitsFor(c)' /\ KnowsFor(c)' /\ ReplyFor(c)'
  <2>1. /\ ReplyFor(c)' /\ c \in edited
        /\ edited = {c} /\ ~ Late(c, w) => w.plan = world.plan \/ Coming(c)'
    BY <1>2, <1>10, AnswerGoes DEF StInv
  <2>2. FitsFor(c)' /\ Pending(c)' = Pending(c)
    BY <1>2, <1>10 DEF FitsFor, Pending
  <2>3. CASE store'[c] = Applied(store[c], Snapshot(w)) /\ overtaken'[c] = Late(c, w)
    <3>1. w \in Worlds /\ w.plan \in 0 .. MaxEdits
      BY <1>1, <1>10 DEF Worlds
    <3>2. store'[c] # Nothing /\ store'[c].plan = w.plan
      <4>1. /\ Snapshot(w) \in Messages /\ Snapshot(w).type = "world_snapshot"
            /\ Snapshot(w).world = w
        BY <3>1, MessageTypes
      <4>2. store[c] \in Stores \cup {Nothing}
        BY <1>1
      <4>3. Applied(store[c], Snapshot(w)) \in Stores /\ Applied(store[c], Snapshot(w)).plan = w.plan
        BY <4>1, <4>2, AppliedSets DEF PlanSetters
      <4> QED
        BY <2>3, <4>3, NothingAssumption
    <3>3. edited = {c} => w.plan = world.plan \/ w.plan \in Excused(c)'
      BY <2>1, <2>3, <3>1 DEF Excused
    <3> QED
      BY <1>10, <2>1, <2>2, <3>2, <3>3 DEF KnowsFor, PlanKnown
  <2>4. CASE store'[c] = store[c] /\ overtaken'[c] = TRUE
    <3>1. Excused(c)' = 0 .. MaxEdits /\ Excused(c) \subseteq 0 .. MaxEdits
      BY <2>4 DEF Excused
    <3> QED
      BY <1>2, <1>10, <2>1, <2>2, <2>4, <3>1 DEF KnowsFor, PlanKnown
  <2> QED
    BY <1>10, <2>3, <2>4
<1>11. CASE ReceiveReply(c)
  BY <1>1, <1>10, <1>11 DEF ReceiveReply
<1>12. CASE LoseReply(c)
  BY <1>1, <1>10, <1>12 DEF LoseReply
<1>13. CASE Break(c)
  <2>1. link'[c] = "closed" /\ inbox'[c] = <<>> /\ UNCHANGED <<world, own>>
    BY <1>1, <1>13 DEF Break
  <2> QED
    BY <1>0, <1>2, <2>1 DEF FitsFor, KnowsFor
<1> QED
  BY <1>4, <1>5, <1>6, <1>7, <1>8, <1>9, <1>11, <1>12, <1>13 DEF SessionStep

LEMMA StInvKept == StInv /\ [Next]_vars => StInv'
<1> SUFFICES ASSUME StInv, [Next]_vars PROVE PendingFits' /\ StoreKnows' /\ ReplyFits'
  BY TypeKept DEF StInv
<1>1. TypeOK /\ PendingFits /\ StoreKnows /\ ReplyFits /\ world \in Worlds
  BY DEF StInv, TypeOK
<1>2. CASE Step
  BY <1>1, <1>2, StepTells, TellingKeeps DEF Step
<1>3. CASE Pause
  BY <1>1, <1>3, PauseTells, TellingKeeps DEF Pause
<1>4. CASE Resume
  <2>1. /\ world'.plan = world.plan /\ world'.place = world.place /\ world'.clock = world.clock
        /\ world'.mode = "running" /\ UNCHANGED <<link, queue, inbox, store, own>>
    BY <1>1, <1>4 DEF Resume, Worlds
  <2>2. \A q : /\ Fits(q, world) => Fits(q, world')
               /\ \A s : /\ \A x : PlanKnown(s, q, world, x) => PlanKnown(s, q, world', x)
                         /\ Known(s, q, world) => Known(s, q, world')
    BY <2>1, ResumeFits
  <2>3. /\ UNCHANGED edited
        /\ \A c \in Client : Excused(c)' = Excused(c) /\ (ReplyFor(c) => ReplyFor(c)')
    BY <2>1 DEF own, Excused, Coming, ReplyFor
  <2> QED
    BY <1>1, <2>1, <2>2, <2>3
       DEF PendingFits, FitsFor, StoreKnows, KnowsFor, ReplyFits, Pending
<1>5. CASE Restart
  <2>1. \A c \in Client : /\ link'[c] = IF link[c] = "closed" THEN "closed" ELSE "ending"
                          /\ inbox'[c] = inbox[c] /\ replies'[c] = {} /\ answered'[c] = 0
    BY <1>5 DEF Restart
  <2>2. world'.plan \in Nat
    BY <1>1, <1>5 DEF Restart, Worlds
  <2> QED
    BY <2>2, <1>1, <2>1 DEF PendingFits, FitsFor, StoreKnows, KnowsFor, ReplyFits, ReplyFor
<1>6. ASSUME NEW c \in Editor, PutPlan(c) \/ PatchAgent(c)
      PROVE  PendingFits' /\ StoreKnows' /\ ReplyFits'
  BY <1>6, RequestKeeps
<1>7. CASE UNCHANGED vars
  BY <1>1, <1>7
     DEF vars, PendingFits, FitsFor, StoreKnows, KnowsFor, ReplyFits, ReplyFor, Pending, Excused,
         Coming
<1> QED
  BY <1>2, <1>3, <1>4, <1>5, <1>6, <1>7, ClientKeeps DEF Next

\* A client that never edited shows the world as soon as nothing is under way to
\* it: neither the events that raced its snapshot nor a lag leave a trace.
THEOREM WatchersStayInStep == Spec => []WatchersInStep
<1>1. ASSUME StInv PROVE WatchersInStep
  <2> SUFFICES ASSUME NEW c \in Client \ edited, Drained(c) PROVE Shows(store[c], world)
    BY DEF WatchersInStep
  <2>1. link[c] = "open" /\ queue[c] = <<>> /\ inbox[c] = <<>> /\ queue[c] # Lagged
    BY DEF Drained, Lagged
  <2>2. Pending(c) = <<>> /\ \A types : Without(<<>>, types)
    BY <2>1 DEF Pending, Without
  <2>3. Known(store[c], <<>>, world)
    BY <1>1, <2>1, <2>2 DEF StInv, StoreKnows, KnowsFor
  <2>4. /\ store[c] # Nothing /\ store[c].plan = world.plan /\ store[c].place = world.place
        /\ store[c].clock = world.clock /\ (store[c].running => world.mode = "running")
    BY <2>2, <2>3 DEF Known, PlanKnown
  <2>5. store[c] \in Stores
    BY <1>1, <2>4 DEF StInv, TypeOK
  <2>6. store[c] = [FromWorld(world) EXCEPT !.running = store[c].running]
    BY <2>4, <2>5 DEF Stores, FromWorld
  <2> QED
    BY <2>4, <2>6 DEF Shows
<1> QED
  BY <1>1, StInit, StInvKept, PTL DEF Spec

\* A client that alone edits ends up with the plan of the world, whichever of its
\* answers and the broadcasts comes first, unless an answer came after a younger
\* one or was lost and no snapshot has come since.
THEOREM OwnEditsReturn == Spec => []OwnEditsShow
<1>1. ASSUME StInv PROVE OwnEditsShow
  <2> SUFFICES ASSUME NEW c \in Client, Drained(c), edited = {c}, ~ overtaken[c]
               PROVE  store[c] # Nothing /\ store[c].plan = world.plan
    BY DEF OwnEditsShow
  <2>1. link[c] = "open" /\ queue[c] = <<>> /\ inbox[c] = <<>> /\ queue[c] # Lagged
    BY DEF Drained, Lagged
  <2>2. Pending(c) = <<>> /\ \A types : Without(<<>>, types)
    BY <2>1 DEF Pending, Without
  <2>3. Excused(c) = {}
    BY DEF Drained, Excused, Coming
  <2>4. PlanKnown(store[c], <<>>, world, {})
    BY <1>1, <2>1, <2>2, <2>3 DEF StInv, StoreKnows, KnowsFor
  <2> QED
    BY <2>2, <2>4 DEF PlanKnown
<1> QED
  BY <1>1, StInit, StInvKept, PTL DEF Spec
=============================================================================
