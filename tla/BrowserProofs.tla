---------------------------- MODULE BrowserProofs ----------------------------
(***************************************************************************)
(* Theorems about Browser, for any maps, layouts, looks and places, any    *)
(* room on the socket, any number of edits, saves and faults, in every     *)
(* scene: also the one in which everything may happen.                     *)
(***************************************************************************)
EXTENDS Browser, TLAPS

-----------------------------------------------------------------------------
(* The parts of the inductive invariant. *)

\* Revisions count no faster than edits, lives no faster than faults.
CountsFit == world.rev <= world.edits + 2 /\ world.life <= faults

\* A map held, or just answered, is of this life or an earlier one; of this life
\* it is the current map or of a smaller revision.
OfAMap(h, w) ==
  /\ h.life <= w.life
  /\ h.life = w.life => h.rev <= w.rev /\ (h.rev = w.rev => h.map = w.map)

MapsFit ==
  /\ cache # None => OfAMap(cache, world)
  /\ fetch.pc = "answered" => OfAMap(fetch, world)

\* What key k is to show.
WornAs(p, k) == IF p.pictures[k] = "made" THEN k ELSE Plain

\* Before the manifest, and since it was last put up, the sheet is loaded; a picture
\* that can be made has been tried, also one that a swap may have to go back to; none
\* is made for the empty appearance.
Sane(p) ==
  /\ p.manifest \/ p.sheet
  /\ p.pictures[Plain] = "null"
  /\ \A s \in p.swaps : s.waits = "picture" => s.look # Plain
  /\ p.sheet => \A s \in p.swaps : s.waits = "picture"
  /\ ~ p.sheet => \A s \in p.swaps : s.prev # None /\ p.pictures[s.prev] # "none"

Keyed(p) == p.key # None /\ (p.manifest => p.pictures[p.key] # "none")

\* Unless swaps overlapped, what is shown is what the key says, or what it goes back to
\* if the one swap under way comes to nothing.
Settles(p) ==
  ~ p.overlap =>
    \/ p.swaps = {} /\ p.shown = WornAs(p, p.key)
    \/ \E s \in p.swaps :
         /\ p.swaps = {s} /\ s.look = p.key /\ s.prev # s.look
         /\ s.waits = "sheet" => p.pictures[s.look] = "null"
         /\ s.prev # None => p.shown = WornAs(p, s.prev)

VisualFits(p) == Sane(p) /\ Keyed(p) /\ Settles(p)

SpriteFits ==
  sprite # None => VisualFits(sprite) /\ (sprite.retry \/ sprite.key = store.agent.look)

\* The messages that tell of an edit, of the agent's place, and of a world that stands still.
News  == {"world_snapshot"}
Moves == {"world_snapshot", "agent_moved"}
Stops == {"world_snapshot", "world_paused"}

Free(q, types) == \A i \in 1 .. Len(q) : q[i].type \notin types

Newest(q, i, types) == \A j \in i + 1 .. Len(q) : q[j].type \notin types

\* The place apart.
Same(s, w) == s.layout = w.layout /\ s.agent.look = w.agent.look /\ s.rev = w.rev

PlaceIn(m) == IF m.type = "world_snapshot" THEN m.world.agent.place ELSE m.place

Runs(m) == m.type = "tick" \/ (m.type = "world_snapshot" /\ m.world.running)

TellsNews(m, w) == m.type \in News => Same(m.world, w) /\ m.world.edits = w.edits

TellsMoves(m, w) == m.type \in Moves => PlaceIn(m) = w.agent.place

TellsRuns(m, w) == Runs(m) => w.running

\* The newest message under way of each kind is right.
InboxFits(q, w) ==
  \A i \in 1 .. Len(q) :
    /\ Newest(q, i, News) => TellsNews(q[i], w)
    /\ Newest(q, i, Moves) => TellsMoves(q[i], w)
    /\ Newest(q, i, Stops) => TellsRuns(q[i], w)

\* Without a message under way that tells of it the browser has heard of it.
HeardFits ==
  /\ Free(inbox, News) => heard.edits = world.edits /\ heard.agent.look = world.agent.look
  /\ Free(inbox, Moves) => heard.agent.place = world.agent.place

\* An answered save is of the world it answered for.
PutsFit ==
  \A i \in 1 .. MaxSaves : puts[i].pc = "answered" =>
    /\ puts[i].world.edits <= world.edits /\ ~ puts[i].world.running
    /\ puts[i].world.edits = world.edits => Same(puts[i].world, world)

\* And what it shows, a draft apart, and would go back to is the world.
StoreFits ==
  /\ ~ stray /\ Free(inbox, News) =>
       /\ store.agent.look = world.agent.look /\ store.rev = world.rev
       /\ ~ editor.on => store.layout = world.layout
       /\ editor.on /\ ~ editor.stale => editor.base.layout = world.layout
  /\ ~ stray /\ Free(inbox, Moves) => store.agent.place = world.agent.place
  /\ editor.on /\ ~ editor.stale /\ ~ editor.missed => editor.base.agent = store.agent

RunningFits ==
  ~ stray /\ Free(inbox, Stops) =>
    /\ store.running => world.running
    /\ editor.on /\ ~ editor.stale /\ ~ editor.missed => (editor.base.running => world.running)

TraceFits == InboxFits(inbox, world) /\ HeardFits /\ PutsFit /\ StoreFits /\ RunningFits

\* Every layout anywhere but in a draft is one the server has had.
ServedOnly(layouts) == {m \in Messages : m.type = "world_snapshot" => m.world.layout \in layouts}

LayoutsFit ==
  /\ Seed.layout \in served /\ world.layout \in served
  /\ inbox \in Seq(ServedOnly(served))
  /\ \A i \in 1 .. MaxSaves : puts[i].pc = "answered" => puts[i].world.layout \in served
  /\ IF editor.on THEN editor.base.layout \in served ELSE store.layout \in served

BInv == TypeOK /\ CountsFit /\ MapsFit /\ SpriteFits /\ TraceFits /\ LayoutsFit

-----------------------------------------------------------------------------
(* Messages under way. *)

LEMMA MessageTypes ==
  /\ \A w \in Worlds : /\ Snapshot(w) \in Messages /\ Snapshot(w).type = "world_snapshot"
                       /\ Snapshot(w).world = w
  /\ \A p \in Places : /\ Moved(p) \in Messages /\ Moved(p).type = "agent_moved"
                       /\ Moved(p).place = p
  /\ Tick \in Messages /\ Tick.type = "tick"
  /\ WorldPaused \in Messages /\ WorldPaused.type = "world_paused"
  /\ \A m \in Messages : /\ m.type \in {"world_snapshot", "agent_moved", "tick", "world_paused"}
                         /\ m.type = "world_snapshot" => m.world \in Worlds
                         /\ m.type = "agent_moved" => m.place \in Places
BY DEF Messages, Snapshot, Moved, Tick, WorldPaused

LEMMA Appended ==
  ASSUME NEW S, NEW q \in Seq(S), NEW m \in S
  PROVE  /\ Append(q, m) \in Seq(S) /\ Len(q) \in Nat /\ Len(Append(q, m)) = Len(q) + 1
         /\ Append(q, m)[Len(q) + 1] = m
         /\ \A i \in 1 .. Len(q) : Append(q, m)[i] = q[i]
OBVIOUS

\* Nothing of a kind is newer than the last message, and less is new before one more.
LEMMA OneMore ==
  ASSUME NEW S, NEW q \in Seq(S), NEW m \in S, NEW types
  PROVE  LET r == Append(q, m)
         IN  /\ Free(r, types) <=> (Free(q, types) /\ m.type \notin types)
             /\ \A i \in 1 .. Len(q) : Newest(r, i, types) <=> (Newest(q, i, types) /\ m.type \notin types)
<1> DEFINE r == Append(q, m)
           n == Len(q) + 1
<1>1. /\ Len(q) \in Nat /\ n = Len(q) + 1 /\ Len(r) = n /\ r[n] = m
      /\ \A i \in 1 .. Len(q) : r[i] = q[i]
  BY Appended
<1> HIDE DEF r, n
<1>2. 1 .. Len(r) = (1 .. Len(q)) \cup {n}
  BY <1>1
<1>3. \A i \in 1 .. Len(q) : /\ i + 1 .. Len(r) = (i + 1 .. Len(q)) \cup {n}
                             /\ i + 1 .. Len(q) \subseteq 1 .. Len(q)
  BY <1>1
<1>4. Free(r, types) <=> (Free(q, types) /\ m.type \notin types)
  BY <1>1, <1>2 DEF Free
<1>5. ASSUME NEW i \in 1 .. Len(q)
      PROVE  Newest(r, i, types) <=> (Newest(q, i, types) /\ m.type \notin types)
  <2>1. \A j \in i + 1 .. Len(q) : r[j] = q[j]
    BY <1>1, <1>3
  <2> QED
    BY <1>1, <1>3, <2>1 DEF Newest
<1> QED
  BY <1>4, <1>5 DEF r

\* One more message that tells what the world has become, when the others may go on
\* telling what they tell.
LEMMA Telling ==
  ASSUME NEW S, NEW q \in Seq(S), NEW m \in S, NEW w, NEW v,
         TellsNews(m, v), TellsMoves(m, v), TellsRuns(m, v),
         m.type \in News \/ (InboxFits(q, w) /\ Same(v, w) /\ v.edits = w.edits),
         m.type \in Moves \/ (InboxFits(q, w) /\ v.agent.place = w.agent.place),
         m.type \in Stops \/ (InboxFits(q, w) /\ (w.running => v.running))
  PROVE  InboxFits(Append(q, m), v)
<1> DEFINE r == Append(q, m)
           n == Len(q) + 1
<1>1. /\ Len(q) \in Nat /\ n = Len(q) + 1 /\ Len(r) = n /\ r[n] = m
      /\ \A i \in 1 .. Len(q) : r[i] = q[i]
  BY Appended
<1>2. \A i \in 1 .. Len(q) :
        /\ Newest(r, i, News) <=> (Newest(q, i, News) /\ m.type \notin News)
        /\ Newest(r, i, Moves) <=> (Newest(q, i, Moves) /\ m.type \notin Moves)
        /\ Newest(r, i, Stops) <=> (Newest(q, i, Stops) /\ m.type \notin Stops)
  BY OneMore
<1> HIDE DEF r, n
<1>3. \A i \in 1 .. Len(r) : i = n \/ i \in 1 .. Len(q)
  BY <1>1
<1> SUFFICES ASSUME NEW i \in 1 .. Len(r)
             PROVE  /\ Newest(r, i, News) => TellsNews(r[i], v)
                    /\ Newest(r, i, Moves) => TellsMoves(r[i], v)
                    /\ Newest(r, i, Stops) => TellsRuns(r[i], v)
  BY DEF InboxFits, r
<1>4. CASE i = n
  BY <1>1, <1>4
<1>5. CASE i \in 1 .. Len(q)
  <2>1. Newest(r, i, News) => TellsNews(r[i], v)
    BY <1>1, <1>2, <1>5 DEF InboxFits, TellsNews, Same
  <2>2. Newest(r, i, Moves) => TellsMoves(r[i], v)
    BY <1>1, <1>2, <1>5 DEF InboxFits, TellsMoves
  <2>3. Newest(r, i, Stops) => TellsRuns(r[i], v)
    BY <1>1, <1>2, <1>5 DEF InboxFits, TellsRuns
  <2> QED
    BY <2>1, <2>2, <2>3
<1> QED
  BY <1>3, <1>4, <1>5

\* While a snapshot of it comes last nothing else has to be right.
Fresh(q, w) ==
  /\ InboxFits(q, w)
  /\ ~ Free(q, News) /\ ~ Free(q, Moves) /\ ~ Free(q, Stops)

LEMMA SnapshotSent ==
  ASSUME NEW q \in Seq(Messages), NEW w \in Worlds
  PROVE  Fresh(Append(q, Snapshot(w)), w)
<1>1. Snapshot(w) \in Messages /\ Snapshot(w).type = "world_snapshot" /\ Snapshot(w).world = w
  BY MessageTypes
<1>2. /\ TellsNews(Snapshot(w), w) /\ TellsMoves(Snapshot(w), w) /\ TellsRuns(Snapshot(w), w)
      /\ Snapshot(w).type \in News /\ Snapshot(w).type \in Moves /\ Snapshot(w).type \in Stops
  BY <1>1 DEF TellsNews, TellsMoves, TellsRuns, Same, PlaceIn, Runs, News, Moves, Stops
<1>3. InboxFits(Append(q, Snapshot(w)), w)
  BY <1>1, <1>2, Telling
<1>4. /\ ~ Free(Append(q, Snapshot(w)), News) /\ ~ Free(Append(q, Snapshot(w)), Moves)
      /\ ~ Free(Append(q, Snapshot(w)), Stops)
  BY <1>1, <1>2, OneMore
<1> QED
  BY <1>3, <1>4 DEF Fresh

\* A tick tells that the world runs and hides nothing that was under way.
LEMMA TickSent ==
  ASSUME NEW q \in Seq(Messages), NEW w, InboxFits(q, w), w.running
  PROVE  LET r == Append(q, Tick)
         IN  /\ r \in Seq(Messages) /\ InboxFits(r, w)
             /\ Free(r, News) => Free(q, News)
             /\ Free(r, Moves) => Free(q, Moves)
             /\ Free(r, Stops) => Free(q, Stops)
<1>1. Tick \in Messages /\ Tick.type = "tick"
  BY MessageTypes
<1>2. TellsNews(Tick, w) /\ TellsMoves(Tick, w) /\ TellsRuns(Tick, w)
  BY <1>1 DEF TellsNews, TellsMoves, TellsRuns, News, Moves
<1> QED
  BY <1>1, <1>2, Telling, OneMore, Appended DEF Same

\* A move changes where the agent is and tells of it.
LEMMA MoveSent ==
  ASSUME NEW q \in Seq(Messages), NEW w, InboxFits(q, w), NEW p \in Places, NEW v,
         Same(v, w), v.edits = w.edits, v.agent.place = p, v.running = w.running
  PROVE  LET r == Append(q, Moved(p))
         IN  /\ r \in Seq(Messages) /\ InboxFits(r, v)
             /\ Free(r, News) => Free(q, News)
             /\ ~ Free(r, Moves)
             /\ Free(r, Stops) => Free(q, Stops)
<1>1. Moved(p) \in Messages /\ Moved(p).type = "agent_moved" /\ Moved(p).place = p
  BY MessageTypes
<1>2. TellsNews(Moved(p), v) /\ TellsMoves(Moved(p), v) /\ TellsRuns(Moved(p), v)
  BY <1>1 DEF TellsNews, TellsMoves, TellsRuns, News, PlaceIn, Runs
<1>3. Moved(p).type \in Moves
  BY <1>1 DEF Moves
<1> QED
  BY <1>1, <1>2, <1>3, Telling, OneMore, Appended

LEMMA PauseSent ==
  ASSUME NEW q \in Seq(Messages), NEW w, InboxFits(q, w), NEW v,
         Same(v, w), v.edits = w.edits, v.agent.place = w.agent.place
  PROVE  LET r == Append(q, WorldPaused)
         IN  /\ r \in Seq(Messages) /\ InboxFits(r, v)
             /\ Free(r, News) => Free(q, News)
             /\ Free(r, Moves) => Free(q, Moves)
             /\ ~ Free(r, Stops)
<1>1. WorldPaused \in Messages /\ WorldPaused.type = "world_paused"
  BY MessageTypes
<1>2. TellsNews(WorldPaused, v) /\ TellsMoves(WorldPaused, v) /\ TellsRuns(WorldPaused, v)
  BY <1>1 DEF TellsNews, TellsMoves, TellsRuns, News, Moves, Runs
<1>3. WorldPaused.type \in Stops
  BY <1>1 DEF Stops
<1> QED
  BY <1>1, <1>2, <1>3, Telling, OneMore, Appended

\* Resuming fits whatever is under way.
LEMMA ResumeFits ==
  ASSUME NEW q, NEW w, InboxFits(q, w), NEW v, Same(v, w), v.edits = w.edits,
         v.agent.place = w.agent.place, v.running
  PROVE  InboxFits(q, v)
BY DEF InboxFits, Same, TellsNews, TellsMoves, TellsRuns

\* The first message handled: what is left fits, and where nothing of its kind is left
\* it was the newest.
LEMMA FirstHandled ==
  ASSUME NEW q \in Seq(Messages), q # <<>>, NEW w, InboxFits(q, w)
  PROVE  LET m == Head(q)
             r == Tail(q)
         IN  /\ m \in Messages /\ r \in Seq(Messages) /\ Len(q) \in Nat /\ Len(r) = Len(q) - 1
             /\ InboxFits(r, w)
             /\ Free(r, News) => TellsNews(m, w) /\ (m.type \notin News => Free(q, News))
             /\ Free(r, Moves) => TellsMoves(m, w) /\ (m.type \notin Moves => Free(q, Moves))
             /\ Free(r, Stops) => TellsRuns(m, w) /\ (m.type \notin Stops => Free(q, Stops))
<1> DEFINE m == Head(q)
           r == Tail(q)
<1>1. /\ m \in Messages /\ r \in Seq(Messages) /\ Len(q) \in Nat \ {0} /\ Len(r) = Len(q) - 1 /\ m = q[1]
      /\ \A i \in 1 .. Len(r) : r[i] = q[i + 1]
  OBVIOUS
<1> HIDE DEF m, r
<1>2. \A i \in 1 + 1 .. Len(q) : i - 1 \in 1 .. Len(r) /\ q[i] = r[i - 1]
  BY <1>1
<1>3. 1 \in 1 .. Len(q) /\ \A i \in 1 .. Len(q) : i = 1 \/ i \in 1 + 1 .. Len(q)
  BY <1>1
<1>4. ASSUME NEW types
      PROVE  /\ Free(r, types) => Newest(q, 1, types) /\ (m.type \notin types => Free(q, types))
             /\ \A i \in 1 .. Len(r) : Newest(r, i, types) => Newest(q, i + 1, types)
  <2>1. Free(r, types) => Newest(q, 1, types)
    BY <1>2 DEF Free, Newest
  <2>2. Newest(q, 1, types) /\ m.type \notin types => Free(q, types)
    BY <1>1, <1>3 DEF Free, Newest
  <2>3. ASSUME NEW i \in 1 .. Len(r), Newest(r, i, types) PROVE Newest(q, i + 1, types)
    <3> DEFINE k == i + 1
    <3>1. \A j \in k + 1 .. Len(q) : j - 1 \in i + 1 .. Len(r) /\ q[j] = r[j - 1]
      BY <1>1, <1>2
    <3> HIDE DEF k
    <3>2. Newest(q, k, types)
      BY <2>3, <3>1 DEF Newest
    <3> QED
      BY <3>2 DEF k
  <2> QED
    BY <2>1, <2>2, <2>3
<1>5. \A i \in 1 .. Len(r) : i + 1 \in 1 .. Len(q) /\ r[i] = q[i + 1]
  BY <1>1
<1>6. InboxFits(r, w)
  BY <1>4, <1>5 DEF InboxFits
<1>7. /\ Newest(q, 1, News) => TellsNews(m, w)
      /\ Newest(q, 1, Moves) => TellsMoves(m, w)
      /\ Newest(q, 1, Stops) => TellsRuns(m, w)
  BY <1>1, <1>3 DEF InboxFits
<1> QED
  BY <1>1, <1>4, <1>6, <1>7 DEF m, r

-----------------------------------------------------------------------------
(* What the operators do. *)

\* Any send keeps the order and the room, or makes room for a snapshot.
LEMMA Sending ==
  ASSUME world' \in Worlds, NEW queue \in Seq(Messages), inbox' = Sent(queue),
         NEW S, queue \in Seq(S), Snapshot(world') \in S
  PROVE  /\ inbox' \in Seq(Messages) /\ inbox' \in Seq(S) /\ Len(inbox') <= Room
         /\ inbox' = queue \/ Fresh(inbox', world')
<1>1. Room \in Nat \ {0} /\ Len(queue) \in Nat /\ Snapshot(world') \in Messages
  BY BrowserAssumption, MessageTypes
<1>2. CASE Len(queue) <= Room
  <2>1. inbox' = queue
    BY <1>2 DEF Sent
  <2> QED
    BY <1>2, <2>1
<1>3. CASE ~ (Len(queue) <= Room)
  <2> DEFINE q == SubSeq(queue, 1, Room - 1)
  <2>1. inbox' = Append(q, Snapshot(world'))
    BY <1>3 DEF Sent
  <2>2. q \in Seq(Messages) /\ q \in Seq(S) /\ Len(q) = Room - 1
    BY <1>1, <1>3
  <2> HIDE DEF q
  <2>3. /\ inbox' \in Seq(Messages) /\ Len(inbox') = Len(q) + 1
    BY <1>1, <2>1, <2>2, Appended
  <2>4. inbox' \in Seq(S)
    BY <2>1, <2>2, Appended
  <2>5. Fresh(inbox', world')
    BY <2>1, <2>2, SnapshotSent
  <2> QED
    BY <1>1, <2>2, <2>3, <2>4, <2>5
<1> QED
  BY <1>2, <1>3

\* A visual whose overlap is looked at again still fits, if it was sane and keyed.
LEMMA Settling ==
  ASSUME NEW p \in Sprites, Sane(p), Keyed(p), ~ p.overlap => Settles(p)
  PROVE  LET r == Settled(p)
         IN  /\ r \in Sprites /\ VisualFits(r) /\ r.key = p.key /\ r.retry = p.retry
<1> DEFINE b == p.overlap /\ ~ (p.swaps = {} /\ p.shown = Worn(p))
           r == Settled(p)
<1>1. b \in BOOLEAN /\ (~ b => ~ p.overlap \/ (p.swaps = {} /\ p.shown = WornAs(p, p.key)))
  BY DEF Sprites, Worn, WornAs
<1>2. r = [p EXCEPT !.overlap = b]
  BY DEF Settled, Sprites
<1> HIDE DEF b, r
<1>3. /\ r \in Sprites /\ r.key = p.key /\ r.retry = p.retry /\ r.overlap = b /\ r.swaps = p.swaps
      /\ r.shown = p.shown /\ r.pictures = p.pictures /\ r.sheet = p.sheet /\ r.manifest = p.manifest
  BY <1>1, <1>2 DEF Sprites
<1>4. Sane(r) /\ Keyed(r)
  BY <1>3 DEF Sane, Keyed
<1>5. Settles(r)
  <2>1. CASE p.overlap
    BY <1>1, <1>3, <2>1 DEF Settles, WornAs
  <2>2. CASE ~ p.overlap
    BY <1>3, <2>2 DEF Settles, WornAs
  <2> QED
    BY <2>1, <2>2
<1> QED
  BY <1>3, <1>4, <1>5 DEF VisualFits, r

\* A change of looks leaves a visual that fits.
LEMMA Swapping ==
  ASSUME NEW p \in Sprites, NEW look \in Looks, look # p.key, Sane(p), p.sheet \/ Keyed(p),
         p.swaps = {} /\ ~ p.overlap /\ p.key # None => p.shown = WornAs(p, p.key)
  PROVE  LET r == Swapped(p, look)
         IN  r \in Sprites /\ VisualFits(r) /\ r.key = look
<1> DEFINE picture == Composed(p, look)
           ready == picture = "made" \/ (picture = "null" /\ p.sheet)
           swap == [look |-> look, prev |-> p.key,
                    waits |-> IF picture = "making" THEN "picture" ELSE "sheet"]
           pictures == [p.pictures EXCEPT ![look] = picture]
           shown == IF ~ ready THEN p.shown ELSE IF picture = "made" THEN look ELSE Plain
           swaps == IF ready THEN p.swaps ELSE p.swaps \cup {swap}
           over == p.overlap \/ p.swaps # {}
           q == [p EXCEPT !.key = look, !.pictures = pictures, !.retry = FALSE,
                          !.shown = shown, !.swaps = swaps, !.overlap = over]
<1>1. Swapped(p, look) = Settled(q)
  BY DEF Swapped, Sprites
<1>2. /\ p.key \in Keys /\ p.shown \in Looks /\ p.swaps \in SUBSET Swaps /\ p.overlap \in BOOLEAN
      /\ p.sheet \in BOOLEAN /\ p.manifest \in BOOLEAN
      /\ p.pictures \in [Looks -> {"none", "making", "made", "null"}]
      /\ Plain \in Looks /\ look # None /\ look \in Keys
  BY BrowserAssumption, NoneAssumption DEF Sprites, Keys
<1>3. /\ picture \in {"making", "made", "null"}
      /\ p.pictures[look] # "none" => picture = p.pictures[look]
  BY <1>2 DEF Composed
<1>4. /\ swap \in Swaps /\ swap.look = look /\ swap.prev = p.key
      /\ swap.waits = IF picture = "making" THEN "picture" ELSE "sheet"
  BY <1>2 DEF Swaps
<1>5. ready \in BOOLEAN /\ over \in BOOLEAN
  BY <1>2
<1> HIDE DEF picture, swap
<1>6. /\ pictures \in [Looks -> {"none", "making", "made", "null"}] /\ pictures[look] = picture
      /\ \A k \in Looks : k # look => pictures[k] = p.pictures[k]
  BY <1>2, <1>3
<1>7. shown \in Looks /\ swaps \in SUBSET Swaps
  BY <1>2, <1>4
<1>8. /\ q \in Sprites /\ q.key = look /\ q.pictures = pictures /\ q.shown = shown /\ q.swaps = swaps
      /\ q.overlap = over /\ q.sheet = p.sheet /\ q.manifest = p.manifest
  BY <1>2, <1>5, <1>6, <1>7 DEF Sprites
<1>9. Keyed(q)
  BY <1>2, <1>3, <1>6, <1>8 DEF Keyed
<1>10. Sane(q)
  <2>1. pictures[Plain] = "null"
    BY <1>2, <1>3, <1>6 DEF Sane
  <2>2. ASSUME p.sheet, NEW s \in swaps PROVE s.waits = "picture"
    <3>1. CASE s \in p.swaps
      BY <2>2, <3>1 DEF Sane
    <3>2. CASE s = swap /\ ~ ready
      BY <1>3, <1>4, <2>2, <3>2
    <3> QED
      BY <2>2, <3>1, <3>2
  <2>3. ASSUME ~ p.sheet, NEW s \in swaps PROVE s.prev # None /\ pictures[s.prev] # "none"
    <3>1. p.manifest /\ p.key # None /\ p.pictures[p.key] # "none" /\ p.key \in Looks
      BY <1>2, <2>3 DEF Sane, Keyed, Keys
    <3>2. \A k \in Looks : p.pictures[k] # "none" => pictures[k] # "none"
      BY <1>3, <1>6
    <3>3. CASE s \in p.swaps
      <4>1. s.prev # None /\ p.pictures[s.prev] # "none"
        BY <2>3, <3>3 DEF Sane
      <4>2. s.prev \in Looks
        BY <1>2, <3>3, <4>1 DEF Swaps, Keys
      <4> QED
        BY <3>2, <4>1, <4>2
    <3>4. CASE s = swap
      BY <1>4, <3>1, <3>2, <3>4
    <3> QED
      BY <2>3, <3>3, <3>4
  <2>4. p.manifest \/ p.sheet
    BY DEF Sane
  <2>5. ASSUME NEW s \in swaps, s.waits = "picture" PROVE s.look # Plain
    <3>1. CASE s \in p.swaps
      BY <2>5, <3>1 DEF Sane
    <3>2. CASE s = swap
      <4>1. picture = "making"
        BY <1>4, <2>5, <3>2
      <4>2. look # Plain
        BY <1>2, <1>3, <4>1 DEF Sane
      <4> QED
        BY <1>4, <3>2, <4>2
    <3> QED
      BY <3>1, <3>2
  <2> HIDE DEF swaps, ready, pictures, shown, over, q
  <2> QED
    BY <1>8, <2>1, <2>2, <2>3, <2>4, <2>5 DEF Sane
<1>11. ASSUME ~ q.overlap PROVE Settles(q)
  <2>1. ~ p.overlap /\ p.swaps = {}
    BY <1>8, <1>11
  <2>2. CASE ready
    <3>1. swaps = {} /\ shown = IF pictures[look] = "made" THEN look ELSE Plain
      BY <1>6, <2>1, <2>2
    <3> HIDE DEF swaps, ready, pictures, shown, over, q
    <3> QED
      BY <1>8, <3>1 DEF Settles, WornAs
  <2>3. CASE ~ ready
    <3>1. swaps = {swap} /\ shown = p.shown
      BY <2>1, <2>3
    <3>2. swap.waits = "sheet" => pictures[look] = "null"
      BY <1>3, <1>4, <1>6, <2>3
    <3>3. p.key # None => p.key \in Looks /\ pictures[p.key] = p.pictures[p.key]
      BY <1>2, <1>6 DEF Keys
    <3>4. p.key # None => shown = IF pictures[p.key] = "made" THEN p.key ELSE Plain
      BY <2>1, <3>1, <3>3 DEF WornAs
    <3> HIDE DEF swaps, ready, pictures, shown, over, q
    <3> QED
      BY <1>4, <1>8, <3>1, <3>2, <3>4 DEF Settles, WornAs
  <2> QED
    BY <2>2, <2>3
<1> HIDE DEF q
<1> QED
  BY <1>1, <1>8, <1>9, <1>10, <1>11, Settling

\* The first visual.
LEMMA FreshSprite ==
  ASSUME NEW look \in Looks, NEW manifest \in BOOLEAN, NEW made \in BOOLEAN,
         made => manifest /\ look # Plain
  PROVE  LET p == NewSprite(look, manifest, made)
         IN  p \in Sprites /\ VisualFits(p) /\ p.key = look
<1> DEFINE picture == IF made THEN "made" ELSE "null"
           pictures == [NoPictures EXCEPT ![look] = picture]
           p == NewSprite(look, manifest, made)
<1>1. Plain \in Looks /\ look # None /\ look \in Keys
  BY BrowserAssumption, NoneAssumption DEF Keys
<1>2. NoPictures \in [Looks -> {"none", "making", "made", "null"}] /\ NoPictures[Plain] = "null"
  BY <1>1 DEF NoPictures
<1>3. /\ pictures \in [Looks -> {"none", "making", "made", "null"}] /\ pictures[look] = picture
      /\ pictures[Plain] = "null"
  BY <1>1, <1>2
<1>4. /\ p = [key |-> look, shown |-> IF made THEN look ELSE Plain, pictures |-> pictures,
              sheet |-> ~ made, manifest |-> manifest, swaps |-> {}, overlap |-> FALSE,
              retry |-> FALSE]
  BY DEF NewSprite
<1> HIDE DEF pictures, p
<1>5. /\ p \in Sprites /\ p.key = look /\ p.pictures = pictures /\ p.sheet = ~ made
      /\ p.shown = (IF made THEN look ELSE Plain) /\ p.manifest = manifest /\ p.swaps = {}
  BY <1>1, <1>3, <1>4 DEF Sprites
<1>6. Sane(p) /\ Keyed(p) /\ Settles(p)
  BY <1>1, <1>3, <1>5 DEF Sane, Keyed, Settles, WornAs
<1> QED
  BY <1>5, <1>6 DEF VisualFits, p

\* Every change of the store asks for a map at most.
LEMMA Setting ==
  ASSUME fetch \in Fetches, NEW s, Set(s)
  PROVE  /\ store' = s /\ fetch' \in Fetches
         /\ fetch'.pc = "answered" => fetch' = fetch
<1>1. store' = s /\ (fetch' = [pc |-> "asked"] \/ fetch' = fetch)
  BY DEF Set
<1>2. [pc |-> "asked"] \in Fetches
  BY DEF Fetches
<1> QED
  BY <1>1, <1>2

\* A new record of the agents brings the visual to its looks.
LEMMA Synced ==
  ASSUME sprite \in Sprites \cup {None}, SpriteFits, store' \in Stores, Sync
  PROVE  sprite' \in Sprites \cup {None} /\ SpriteFits'
<1> DEFINE look == store'.agent.look
<1>1. look \in Looks /\ sprite' = IF sprite = None THEN None ELSE Swapped(sprite, look)
  BY DEF Stores, Agents, Sync
<1>2. CASE sprite = None
  BY <1>1, <1>2 DEF SpriteFits
<1>3. CASE sprite # None /\ look = sprite.key
  <2>1. sprite' = sprite
    BY <1>1, <1>3 DEF Swapped
  <2> QED
    BY <1>3, <2>1 DEF SpriteFits
<1>4. CASE sprite # None /\ look # sprite.key
  <2>1. sprite \in Sprites /\ Sane(sprite) /\ Keyed(sprite) /\ Settles(sprite)
    BY <1>4 DEF SpriteFits, VisualFits
  <2>2. sprite.swaps = {} /\ ~ sprite.overlap => sprite.shown = WornAs(sprite, sprite.key)
    BY <2>1 DEF Settles
  <2>3. Swapped(sprite, look) \in Sprites /\ VisualFits(Swapped(sprite, look))
        /\ Swapped(sprite, look).key = look
    BY <1>1, <1>4, <2>1, <2>2, Swapping
  <2>4. sprite' = Swapped(sprite, look)
    BY <1>1, <1>4
  <2> QED
    BY <2>3, <2>4 DEF SpriteFits
<1> QED
  BY <1>2, <1>3, <1>4

-----------------------------------------------------------------------------
(* What the actions that change the world do to it. *)

\* What is of the right type as long as nobody changes it.
LEMMA Given ==
  ASSUME TypeOK
  PROVE  /\ scene \in AllScenes /\ world \in Worlds /\ served \subseteq Layouts
         /\ inbox \in Seq(Messages) /\ Len(inbox) <= Room /\ store \in Stores
         /\ editor \in Editors /\ (editor.on <=> editor.draft # None) /\ (editor.on <=> editor.base # None)
         /\ puts \in [1 .. MaxSaves -> Puts] /\ fetch \in Fetches /\ cache \in Held \cup {None}
         /\ drawn \in Maps \cup {None} /\ subscribed \in BOOLEAN /\ sprite \in Sprites \cup {None}
         /\ faults \in 0 .. MaxFaults /\ faults \in Nat /\ faults >= faults
         /\ heard \in [edits : 0 .. MaxEdits, agent : Agents] /\ stray \in BOOLEAN
         /\ MaxFaults \in Nat /\ MaxEdits \in Nat
BY BrowserAssumption DEF TypeOK

LEMMA AgentTypes ==
  ASSUME NEW a \in Agents, NEW look \in Looks, NEW place \in Places
  PROVE  LET b == [a EXCEPT !.look = look]
             c == [a EXCEPT !.place = place]
         IN  /\ a.look \in Looks /\ a.place \in Places
             /\ b \in Agents /\ b.look = look /\ b.place = a.place
             /\ c \in Agents /\ c.place = place /\ c.look = a.look
BY DEF Agents

\* A reset: the working day begins again, nothing else changes.
LEMMA Resetting ==
  ASSUME NEW w \in Worlds
  PROVE  LET r == Reset(w)
         IN  /\ r \in Worlds /\ r.map = w.map /\ r.layout = w.layout /\ r.rev = w.rev
             /\ r.edits = w.edits /\ r.life = w.life /\ r.running = FALSE
<1> DEFINE a == [w.agent EXCEPT !.place = Seed.agent.place]
<1>1. w.agent \in Agents /\ Seed.agent \in Agents
  BY BrowserAssumption DEF Worlds
<1>2. a \in Agents
  BY <1>1, AgentTypes DEF Agents
<1>3. Reset(w) = [w EXCEPT !.running = FALSE, !.agent = a]
  BY DEF Reset, Worlds
<1> HIDE DEF a
<1> QED
  BY <1>2, <1>3 DEF Worlds

\* What every action of the server does to world and inbox.
Told ==
  /\ inbox' \in Seq(Messages) /\ Len(inbox') <= Room
  /\ InboxFits(inbox', world')

\* An edit: one more, sent as a snapshot.
LEMMA Editing ==
  ASSUME TypeOK, CountsFit, LayoutsFit, NEW w, Edited(w), w \in Worlds, w.edits = world.edits,
         w.life = world.life, w.rev <= world.edits + 3
  PROVE  /\ world' \in Worlds /\ world'.edits = world.edits + 1 /\ world'.life = world.life
         /\ Same(world', w) /\ world'.map = w.map /\ world'.running = w.running
         /\ world'.rev <= world'.edits + 2
         /\ Told /\ Fresh(inbox', world')
         /\ served' \subseteq Layouts /\ served \subseteq served' /\ world'.layout \in served'
         /\ inbox' \in Seq(ServedOnly(served'))
<1>1. /\ world.edits < scene.edits /\ world' = [w EXCEPT !.edits = @ + 1]
      /\ served' = served \cup {w.layout}
      /\ inbox' = Sent(Append(inbox, Snapshot(world')))
  BY DEF Edited
<1>2. /\ world.edits \in 0 .. MaxEdits /\ MaxEdits \in Nat /\ inbox \in Seq(Messages)
      /\ w.rev \in Nat /\ scene.edits \in 0 .. MaxEdits
  BY Given DEF AllScenes, Worlds, Revs
<1>3. /\ world' \in Worlds /\ world'.edits = world.edits + 1 /\ world'.life = world.life
      /\ Same(world', w) /\ world'.map = w.map /\ world'.running = w.running
      /\ world'.layout = w.layout
  BY <1>1, <1>2, SMTT(30) DEF Worlds, Same
<1>4. world'.rev <= world'.edits + 2
  BY <1>2, <1>3 DEF Same
<1>5. /\ Snapshot(world') \in Messages /\ Snapshot(world').world = world'
  BY <1>3, MessageTypes
<1>6. /\ served' \subseteq Layouts /\ served \subseteq served' /\ world'.layout \in served'
  BY <1>1, <1>3, Given DEF Worlds
<1>7. inbox \in Seq(ServedOnly(served')) /\ Snapshot(world') \in ServedOnly(served')
  <2>1. ServedOnly(served) \subseteq ServedOnly(served')
    BY <1>6 DEF ServedOnly
  <2> QED
    BY <1>5, <1>6, <2>1 DEF ServedOnly, LayoutsFit
<1> DEFINE queue == Append(inbox, Snapshot(world'))
<1>8. queue \in Seq(Messages) /\ queue \in Seq(ServedOnly(served')) /\ Fresh(queue, world')
  BY <1>2, <1>3, <1>5, <1>7, Appended, SnapshotSent
<1>9. inbox' = Sent(queue)
  BY <1>1
<1> HIDE DEF queue
<1>10. /\ inbox' \in Seq(Messages) /\ inbox' \in Seq(ServedOnly(served')) /\ Len(inbox') <= Room
       /\ inbox' = queue \/ Fresh(inbox', world')
  BY <1>3, <1>7, <1>8, <1>9, Sending
<1>11. Fresh(inbox', world')
  BY <1>8, <1>10
<1> QED
  BY <1>3, <1>4, <1>6, <1>10, <1>11 DEF Told, Fresh

\* Others edit the map, counting the revision up, or the layout, or a look.
LEMMA OthersEditing ==
  ASSUME TypeOK, CountsFit, LayoutsFit, OthersEdit
  PROVE  /\ world' \in Worlds /\ world'.edits = world.edits + 1 /\ world'.life = world.life
         /\ (world'.rev = world.rev + 1 \/ (world'.rev = world.rev /\ world'.map = world.map))
         /\ world'.rev <= world'.edits + 2
         /\ Told /\ Fresh(inbox', world')
         /\ served' \subseteq Layouts /\ served \subseteq served' /\ world'.layout \in served'
         /\ inbox' \in Seq(ServedOnly(served'))
<1>1. /\ world \in Worlds /\ world.edits \in 0 .. MaxEdits /\ world.rev \in Revs /\ MaxEdits \in Nat
      /\ world.rev <= world.edits + 2 /\ scene \in AllScenes
  BY Given DEF CountsFit, Worlds
<1>2. CASE \E m \in scene.maps : Edited(Reset([world EXCEPT !.map = m, !.rev = @ + 1]))
  <2>1. PICK m \in scene.maps : Edited(Reset([world EXCEPT !.map = m, !.rev = @ + 1]))
    BY <1>2
  <2> DEFINE u == [world EXCEPT !.map = m, !.rev = @ + 1]
             w == Reset(u)
  <2>2. world.edits < MaxEdits /\ m \in Maps
    BY <1>1, <2>1 DEF Edited, AllScenes
  <2>3. world.rev + 1 \in Revs /\ world.rev + 1 <= world.edits + 3
    BY <1>1, <2>2 DEF Revs
  <2>4. u \in Worlds /\ u.edits = world.edits /\ u.life = world.life /\ u.rev = world.rev + 1
    BY <1>1, <2>2, <2>3 DEF Worlds
  <2> HIDE DEF u
  <2>5. w \in Worlds /\ w.edits = world.edits /\ w.life = world.life /\ w.rev = world.rev + 1
    BY <2>4, Resetting
  <2>6. Edited(w)
    BY <2>1 DEF u
  <2> HIDE DEF w
  <2> QED
    BY <2>3, <2>5, <2>6, Editing DEF Same
<1>3. CASE \E l \in scene.layouts : Edited(Reset([world EXCEPT !.layout = l]))
  <2>1. PICK l \in scene.layouts : Edited(Reset([world EXCEPT !.layout = l]))
    BY <1>3
  <2> DEFINE u == [world EXCEPT !.layout = l]
             w == Reset(u)
  <2>2. l \in Layouts
    BY <1>1, <2>1 DEF AllScenes
  <2>3. u \in Worlds /\ u.edits = world.edits /\ u.life = world.life /\ u.rev = world.rev /\ u.map = world.map
    BY <1>1, <2>2 DEF Worlds
  <2> HIDE DEF u
  <2>4. w \in Worlds /\ w.edits = world.edits /\ w.life = world.life /\ w.rev = world.rev /\ w.map = world.map
    BY <2>3, Resetting
  <2>5. Edited(w)
    BY <2>1 DEF u
  <2> HIDE DEF w
  <2>6. w.rev <= world.edits + 3
    BY <1>1, <2>4 DEF Revs
  <2> QED
    BY <2>4, <2>5, <2>6, Editing DEF Same
<1>4. CASE \E k \in scene.looks : Edited([world EXCEPT !.agent.look = k])
  <2>1. PICK k \in scene.looks : Edited([world EXCEPT !.agent.look = k])
    BY <1>4
  <2> DEFINE a == [world.agent EXCEPT !.look = k]
             w == [world EXCEPT !.agent = a]
  <2>2. a \in Agents
    BY <1>1, <2>1 DEF AllScenes, Worlds, Agents
  <2>3. Edited(w)
    BY <1>1, <2>1 DEF Worlds
  <2> HIDE DEF a
  <2>4. w \in Worlds /\ w.edits = world.edits /\ w.life = world.life /\ w.rev = world.rev /\ w.map = world.map
    BY <1>1, <2>2 DEF Worlds
  <2> HIDE DEF w
  <2>5. w.rev <= world.edits + 3
    BY <1>1, <2>4 DEF Revs
  <2> QED
    BY <2>3, <2>4, <2>5, Editing DEF Same
<1> QED
  BY <1>2, <1>3, <1>4 DEF OthersEdit

\* A save accepted: the layout asked for, before the working day.
LEMMA PutServing ==
  ASSUME TypeOK, CountsFit, LayoutsFit, NEW i \in 1 .. MaxSaves, ServePut(i)
  PROVE  /\ world' \in Worlds /\ world'.edits = world.edits + 1 /\ world'.life = world.life
         /\ world'.rev = world.rev /\ world'.map = world.map /\ ~ world'.running
         /\ world'.rev <= world'.edits + 2
         /\ Told /\ Fresh(inbox', world')
         /\ served' \subseteq Layouts /\ served \subseteq served' /\ world'.layout \in served'
         /\ inbox' \in Seq(ServedOnly(served'))
         /\ puts' \in [1 .. MaxSaves -> Puts] /\ puts'[i].pc = "answered" /\ puts'[i].world = world'
         /\ \A j \in 1 .. MaxSaves : j # i => puts'[j] = puts[j]
<1>1. /\ world \in Worlds /\ world.edits \in 0 .. MaxEdits /\ world.rev \in Revs /\ MaxEdits \in Nat
      /\ world.rev <= world.edits + 2 /\ puts \in [1 .. MaxSaves -> Puts]
  BY Given DEF CountsFit, Worlds
<1>2. puts[i] \in Puts /\ puts[i].pc = "asked"
  BY <1>1 DEF ServePut
<1>3. puts[i].layout \in Layouts
  BY <1>2 DEF Puts
<1> DEFINE u == [world EXCEPT !.layout = puts[i].layout]
           w == Reset(u)
<1>4. Edited(w) /\ puts' = [puts EXCEPT ![i] = [pc |-> "answered", world |-> world']]
  BY DEF ServePut
<1>5. /\ u \in Worlds /\ u.edits = world.edits /\ u.life = world.life /\ u.rev = world.rev
      /\ u.map = world.map
  BY <1>1, <1>3 DEF Worlds
<1> HIDE DEF u
<1>6. /\ w \in Worlds /\ w.edits = world.edits /\ w.life = world.life /\ w.rev = world.rev
      /\ w.map = world.map /\ w.running = FALSE
  BY <1>5, Resetting
<1> HIDE DEF w
<1>7. w.rev <= world.edits + 3
  BY <1>1, <1>6 DEF Revs
<1>8. /\ world' \in Worlds /\ world'.edits = world.edits + 1 /\ world'.life = world.life
      /\ Same(world', w) /\ world'.map = w.map /\ world'.running = w.running
      /\ world'.rev <= world'.edits + 2
      /\ Told /\ Fresh(inbox', world')
      /\ served' \subseteq Layouts /\ served \subseteq served' /\ world'.layout \in served'
      /\ inbox' \in Seq(ServedOnly(served'))
  BY <1>4, <1>6, <1>7, Editing
<1> DEFINE answer == [pc |-> "answered", world |-> world']
<1>9. answer \in Puts /\ answer.pc = "answered" /\ answer.world = world'
  BY <1>8 DEF Puts
<1>10. puts' = [puts EXCEPT ![i] = answer]
  BY <1>4
<1> HIDE DEF answer
<1>11. /\ puts' \in [1 .. MaxSaves -> Puts] /\ puts'[i] = answer
       /\ \A j \in 1 .. MaxSaves : j # i => puts'[j] = puts[j]
  BY <1>1, <1>9, <1>10
<1> QED
  BY <1>6, <1>8, <1>9, <1>11 DEF Same

\* A restart: the next life, revisions counted from the beginning.
LEMMA Restarting ==
  ASSUME TypeOK, CountsFit, LayoutsFit, Restart
  PROVE  /\ world' \in Worlds /\ world'.edits = world.edits /\ world'.life = world.life + 1
         /\ world'.rev <= world'.edits + 2 /\ faults' \in 0 .. MaxFaults /\ world'.life <= faults'
         /\ Told /\ Fresh(inbox', world')
         /\ world'.layout \in served /\ inbox' \in Seq(ServedOnly(served))
         /\ puts' \in [1 .. MaxSaves -> Puts]
         /\ \A j \in 1 .. MaxSaves : puts'[j].pc # "answered"
<1>1. /\ world \in Worlds /\ world.edits \in 0 .. MaxEdits /\ MaxEdits \in Nat
      /\ world.life \in 0 .. MaxFaults /\ world.life <= faults /\ faults \in 0 .. MaxFaults
      /\ MaxFaults \in Nat /\ faults < scene.faults /\ faults' = faults + 1
      /\ scene.faults \in 0 .. MaxFaults
      /\ world.map \in Maps /\ world.layout \in Layouts /\ world.agent \in Agents
      /\ Seed \in [map : Maps, layout : Layouts, agent : Agents]
  BY Given, BrowserAssumption DEF CountsFit, Worlds, Restart, Fault, AllScenes
<1>2. PICK saved \in {Seed, [map |-> world.map, layout |-> world.layout, agent |-> world.agent]} :
        world' = [map |-> saved.map, layout |-> saved.layout,
                  agent |-> [look |-> saved.agent.look, place |-> Seed.agent.place],
                  running |-> FALSE, rev |-> IF saved.map = Seed.map THEN 1 ELSE 2,
                  edits |-> world.edits, life |-> world.life + 1]
  BY DEF Restart
<1> DEFINE n == IF saved.map = Seed.map THEN 1 ELSE 2
           a == [look |-> saved.agent.look, place |-> Seed.agent.place]
<1>3. n \in Revs /\ n <= 2
  BY <1>1 DEF Revs
<1>4. saved.map \in Maps /\ saved.layout \in Layouts /\ saved.agent \in Agents
  BY <1>1
<1>5. a \in Agents /\ saved.layout \in served
  BY <1>1, <1>4 DEF Agents, LayoutsFit
<1>6. world' = [map |-> saved.map, layout |-> saved.layout, agent |-> a, running |-> FALSE,
                rev |-> n, edits |-> world.edits, life |-> world.life + 1]
  BY <1>2
<1> HIDE DEF n, a
<1>7. /\ world' \in Worlds /\ world'.edits = world.edits /\ world'.life = world.life + 1
      /\ world'.rev = n /\ world'.layout \in served
  BY <1>1, <1>3, <1>4, <1>5, <1>6 DEF Worlds
<1>8. n <= world.edits + 2 /\ faults' \in 0 .. MaxFaults /\ world.life + 1 <= faults'
  BY <1>1, <1>3 DEF Revs
<1>9. Snapshot(world') \in Messages /\ Snapshot(world') \in ServedOnly(served)
  BY <1>7, MessageTypes DEF ServedOnly
<1> DEFINE queue == Append(inbox, Snapshot(world'))
<1>10. queue \in Seq(Messages) /\ queue \in Seq(ServedOnly(served)) /\ Fresh(queue, world')
  BY <1>7, <1>9, Given, Appended, SnapshotSent DEF LayoutsFit
<1>11. inbox' = Sent(queue)
  BY DEF Restart
<1> HIDE DEF queue
<1>12. /\ inbox' \in Seq(Messages) /\ inbox' \in Seq(ServedOnly(served)) /\ Len(inbox') <= Room
       /\ inbox' = queue \/ Fresh(inbox', world')
  BY <1>7, <1>9, <1>10, <1>11, Sending
<1>13. /\ puts' \in [1 .. MaxSaves -> Puts]
       /\ \A j \in 1 .. MaxSaves : puts'[j].pc # "answered"
  <2>1. Idle \in Puts /\ [pc |-> "failed"] \in Puts /\ Idle.pc = "idle"
    BY DEF Idle, Puts
  <2>2. puts' = [j \in 1 .. MaxSaves |-> IF puts[j] = Idle THEN Idle ELSE [pc |-> "failed"]]
    BY DEF Restart
  <2> QED
    BY <2>1, <2>2
<1> QED
  BY <1>7, <1>8, <1>10, <1>12, <1>13 DEF Told, Fresh

\* What was free of news stays so, or there are fresh ones.
Quietly ==
  \/ Fresh(inbox', world')
  \/ /\ Free(inbox', News) => Free(inbox, News)
     /\ Free(inbox', Moves) => Free(inbox, Moves) /\ world'.agent.place = world.agent.place
     /\ Free(inbox', Stops) => Free(inbox, Stops)

\* Ticks, with or without a move, tell of it in the order it happens, or a snapshot does.
LEMMA Ticking ==
  ASSUME TypeOK, LayoutsFit, InboxFits(inbox, world), SendTick
  PROVE  /\ world' \in Worlds /\ Same(world', world) /\ world'.map = world.map
         /\ world'.edits = world.edits /\ world'.life = world.life /\ world'.running = world.running
         /\ Told /\ Quietly /\ inbox' \in Seq(ServedOnly(served)) /\ world'.layout \in served
<1>1. PICK p \in scene.places \cup {world.agent.place} :
        /\ world' = [world EXCEPT !.agent.place = p]
        /\ inbox' = Sent(IF p = world.agent.place THEN Append(inbox, Tick)
                         ELSE Append(Append(inbox, Moved(p)), Tick))
  BY DEF SendTick
<1>2. /\ world \in Worlds /\ world.agent \in Agents /\ inbox \in Seq(Messages)
      /\ world.running /\ p \in Places
  BY <1>1, Given DEF SendTick, Worlds, AllScenes, Agents
<1> DEFINE a == [world.agent EXCEPT !.place = p]
<1>3. a \in Agents /\ a.place = p /\ a.look = world.agent.look
  BY <1>2 DEF Agents
<1>4. world' = [world EXCEPT !.agent = a]
  BY <1>1, <1>2 DEF Worlds
<1> HIDE DEF a
<1>5. /\ world' \in Worlds /\ Same(world', world) /\ world'.map = world.map
      /\ world'.edits = world.edits /\ world'.life = world.life /\ world'.running = world.running
      /\ world'.agent.place = p /\ world'.layout \in served
  BY <1>2, <1>3, <1>4 DEF Worlds, Same, LayoutsFit
<1> DEFINE S == ServedOnly(served)
<1>6. /\ Tick \in S /\ Moved(p) \in S /\ Snapshot(world') \in S /\ inbox \in Seq(S)
      /\ Moved(p) \in Messages /\ Tick \in Messages
  BY <1>2, <1>5, MessageTypes DEF ServedOnly, LayoutsFit
<1> HIDE DEF S
<1>7. CASE p = world.agent.place
  <2> DEFINE queue == Append(inbox, Tick)
  <2>1. queue \in Seq(S) /\ queue \in Seq(Messages)
    BY <1>2, <1>6, Appended
  <2>2. InboxFits(inbox, world')
    BY <1>2, <1>5, <1>7, ResumeFits
  <2>3. /\ InboxFits(queue, world')
        /\ Free(queue, News) => Free(inbox, News)
        /\ Free(queue, Moves) => Free(inbox, Moves)
        /\ Free(queue, Stops) => Free(inbox, Stops)
    BY <1>2, <1>5, <2>2, TickSent
  <2>4. inbox' = Sent(queue)
    BY <1>1, <1>7
  <2> HIDE DEF queue
  <2>5. /\ inbox' \in Seq(Messages) /\ inbox' \in Seq(S) /\ Len(inbox') <= Room
        /\ inbox' = queue \/ Fresh(inbox', world')
    BY <1>5, <1>6, <2>1, <2>4, Sending
  <2> QED
    BY <1>5, <1>7, <2>3, <2>5 DEF Told, Quietly, Fresh, S
<1>8. CASE p # world.agent.place
  <2> DEFINE one == Append(inbox, Moved(p))
             queue == Append(one, Tick)
  <2>1. one \in Seq(S) /\ one \in Seq(Messages)
    BY <1>2, <1>6, Appended
  <2>2. /\ InboxFits(one, world')
        /\ Free(one, News) => Free(inbox, News)
        /\ ~ Free(one, Moves)
        /\ Free(one, Stops) => Free(inbox, Stops)
    BY <1>2, <1>5, MoveSent
  <2>3. inbox' = Sent(queue)
    BY <1>1, <1>8
  <2> HIDE DEF one
  <2>4. queue \in Seq(S) /\ queue \in Seq(Messages)
    BY <1>6, <2>1, Appended
  <2>5. /\ InboxFits(queue, world')
        /\ Free(queue, News) => Free(one, News)
        /\ Free(queue, Moves) => Free(one, Moves)
        /\ Free(queue, Stops) => Free(one, Stops)
    BY <1>2, <1>5, <2>1, <2>2, TickSent
  <2> HIDE DEF queue
  <2>6. /\ inbox' \in Seq(Messages) /\ inbox' \in Seq(S) /\ Len(inbox') <= Room
        /\ inbox' = queue \/ Fresh(inbox', world')
    BY <1>5, <1>6, <2>3, <2>4, Sending
  <2> QED
    BY <1>5, <2>2, <2>5, <2>6 DEF Told, Quietly, Fresh, S
<1> QED
  BY <1>7, <1>8

LEMMA Pausing ==
  ASSUME TypeOK, LayoutsFit, InboxFits(inbox, world), Pause
  PROVE  /\ world' \in Worlds /\ Same(world', world) /\ world'.map = world.map
         /\ world'.edits = world.edits /\ world'.life = world.life /\ world'.running = FALSE
         /\ Told /\ Quietly /\ ~ Free(inbox', Stops)
         /\ inbox' \in Seq(ServedOnly(served)) /\ world'.layout \in served
<1>1. /\ world \in Worlds /\ inbox \in Seq(Messages) /\ world' = [world EXCEPT !.running = FALSE]
  BY Given DEF Pause
<1>2. /\ world' \in Worlds /\ Same(world', world) /\ world'.map = world.map
      /\ world'.edits = world.edits /\ world'.life = world.life /\ world'.running = FALSE
      /\ world'.agent.place = world.agent.place /\ world'.layout \in served
  BY <1>1 DEF Worlds, Same, LayoutsFit
<1> DEFINE S == ServedOnly(served)
           queue == Append(inbox, WorldPaused)
<1>3. WorldPaused \in S /\ Snapshot(world') \in S /\ inbox \in Seq(S) /\ WorldPaused \in Messages
  BY <1>2, MessageTypes DEF ServedOnly, LayoutsFit
<1> HIDE DEF S
<1>4. queue \in Seq(S) /\ queue \in Seq(Messages)
  BY <1>1, <1>3, Appended
<1>5. /\ InboxFits(queue, world')
      /\ Free(queue, News) => Free(inbox, News)
      /\ Free(queue, Moves) => Free(inbox, Moves)
      /\ ~ Free(queue, Stops)
  BY <1>1, <1>2, PauseSent
<1>6. inbox' = Sent(queue)
  BY DEF Pause
<1> HIDE DEF queue
<1>7. /\ inbox' \in Seq(Messages) /\ inbox' \in Seq(S) /\ Len(inbox') <= Room
      /\ inbox' = queue \/ Fresh(inbox', world')
  BY <1>2, <1>3, <1>4, <1>6, Sending
<1> QED
  BY <1>2, <1>5, <1>7 DEF Told, Quietly, Fresh, S

LEMMA Resuming ==
  ASSUME TypeOK, LayoutsFit, InboxFits(inbox, world), Resume
  PROVE  /\ world' \in Worlds /\ Same(world', world) /\ world'.map = world.map
         /\ world'.edits = world.edits /\ world'.life = world.life /\ world'.running = TRUE
         /\ Told /\ Quietly /\ inbox' \in Seq(ServedOnly(served)) /\ world'.layout \in served
<1>1. /\ world \in Worlds /\ inbox \in Seq(Messages) /\ Len(inbox) <= Room
      /\ world' = [world EXCEPT !.running = TRUE] /\ inbox' = inbox
  BY Given DEF Resume
<1>2. /\ world' \in Worlds /\ Same(world', world) /\ world'.map = world.map
      /\ world'.edits = world.edits /\ world'.life = world.life /\ world'.running = TRUE
      /\ world'.agent.place = world.agent.place /\ world'.layout \in served
  BY <1>1 DEF Worlds, Same, LayoutsFit
<1>3. InboxFits(inbox, world')
  BY <1>2, ResumeFits
<1> QED
  BY <1>1, <1>2, <1>3 DEF Told, Quietly, LayoutsFit


-----------------------------------------------------------------------------
(* What becomes of the visual. *)

LEMMA Visual ==
  ASSUME TypeOK, SpriteFits, sprite # None
  PROVE  /\ sprite \in Sprites /\ Sane(sprite) /\ Keyed(sprite) /\ Settles(sprite)
         /\ sprite.key \in Looks /\ sprite.swaps \in SUBSET Swaps /\ Plain \in Looks
         /\ sprite.sheet \in BOOLEAN /\ sprite.manifest \in BOOLEAN /\ sprite.overlap \in BOOLEAN
         /\ sprite.pictures \in [Looks -> {"none", "making", "made", "null"}]
         /\ sprite.retry \/ sprite.key = store.agent.look
<1>1. sprite \in Sprites /\ VisualFits(sprite) /\ (sprite.retry \/ sprite.key = store.agent.look)
  BY Given DEF SpriteFits
<1> QED
  BY <1>1, BrowserAssumption DEF VisualFits, Keyed, Sprites, Keys

\* A picture was tried: what came of it, what is shown, and the swaps that go on waiting.
Tried(look, picture, shown, swaps) ==
  [sprite EXCEPT !.pictures[look] = picture, !.shown = shown, !.swaps = swaps]

LEMMA PictureTried ==
  ASSUME TypeOK, SpriteFits, sprite # None, NEW look \in Looks, look # Plain,
         NEW picture \in {"made", "null"}, NEW shown \in Looks, NEW swaps \in SUBSET Swaps,
         \A s \in swaps : \E t \in sprite.swaps : s.look = t.look /\ s.prev = t.prev,
         \A s \in swaps : s.waits = "picture" => s \in sprite.swaps,
         sprite.sheet => \A s \in swaps : s.waits = "picture"
  PROVE  LET q == Tried(look, picture, shown, swaps)
         IN  /\ q \in Sprites /\ Sane(q) /\ Keyed(q)
             /\ q.key = sprite.key /\ q.retry = sprite.retry /\ q.overlap = sprite.overlap
             /\ q.shown = shown /\ q.swaps = swaps /\ q.pictures[look] = picture
             /\ \A k \in Looks : k # look => q.pictures[k] = sprite.pictures[k]
<1> DEFINE pictures == [sprite.pictures EXCEPT ![look] = picture]
           q == [sprite EXCEPT !.pictures = pictures, !.shown = shown, !.swaps = swaps]
<1>1. Tried(look, picture, shown, swaps) = q
  BY Visual DEF Sprites, Tried
<1>2. /\ pictures \in [Looks -> {"none", "making", "made", "null"}] /\ pictures[look] = picture
      /\ \A k \in Looks : k # look => pictures[k] = sprite.pictures[k]
  BY Visual
<1> HIDE DEF pictures
<1>3. /\ q \in Sprites /\ q.key = sprite.key /\ q.retry = sprite.retry /\ q.overlap = sprite.overlap
      /\ q.shown = shown /\ q.swaps = swaps /\ q.pictures = pictures
      /\ q.sheet = sprite.sheet /\ q.manifest = sprite.manifest
  BY <1>2, Visual DEF Sprites
<1> HIDE DEF q
<1>4. \A k \in Looks : sprite.pictures[k] # "none" => pictures[k] # "none"
  BY <1>2
<1>5. Keyed(q)
  BY <1>3, <1>4, Visual DEF Keyed
<1>6. ASSUME ~ sprite.sheet, NEW s \in swaps PROVE s.prev # None /\ pictures[s.prev] # "none"
  <2>1. PICK t \in sprite.swaps : s.prev = t.prev
    OBVIOUS
  <2>2. t.prev # None /\ sprite.pictures[t.prev] # "none" /\ t.prev \in Keys
    BY <1>6, Visual DEF Sane, Swaps
  <2> QED
    BY <1>4, <2>1, <2>2 DEF Keys
<1>7. pictures[Plain] = "null" /\ (sprite.manifest \/ sprite.sheet)
  BY <1>2, Visual DEF Sane
<1>8. \A s \in swaps : s.waits = "picture" => s.look # Plain
  BY Visual DEF Sane
<1>9. Sane(q)
  BY <1>3, <1>6, <1>7, <1>8 DEF Sane
<1> QED
  BY <1>1, <1>2, <1>3, <1>5, <1>9

\* What an image that came or failed makes of the visual.
LEMMA Fitting ==
  ASSUME TypeOK, SpriteFits, sprite # None, NEW q \in Sprites, Sane(q), Keyed(q),
         ~ q.overlap => Settles(q), q.key = sprite.key, q.retry = sprite.retry,
         UNCHANGED store, sprite' = Settled(q)
  PROVE  sprite' \in Sprites \cup {None} /\ SpriteFits'
<1>1. sprite' \in Sprites /\ VisualFits(sprite') /\ sprite'.key = q.key /\ sprite'.retry = q.retry
  BY Settling
<1> QED
  BY <1>1, Visual DEF SpriteFits

LEMMA PictureDone ==
  ASSUME TypeOK, SpriteFits, NEW look \in Looks, FinishPicture(look)
  PROVE  sprite' \in Sprites \cup {None} /\ SpriteFits'
<1> DEFINE rest == sprite.swaps \ PictureOf(look)
           q == Tried(look, "made", look, rest)
<1>1. /\ sprite # None /\ PictureOf(look) # {} /\ sprite' = Settled(q) /\ UNCHANGED store
  <2>1. [sprite EXCEPT !.pictures[look] = "made", !.shown = look, !.swaps = @ \ PictureOf(look)] = q
    BY DEF Tried, FinishPicture, Sprites
  <2> QED
    BY <2>1 DEF FinishPicture
<1>2. \A s \in PictureOf(look) : s \in sprite.swaps /\ s.look = look /\ s.waits = "picture"
  BY DEF PictureOf, Waiting
<1>3. look # Plain /\ rest \in SUBSET Swaps /\ \A s \in rest : s \in sprite.swaps
  BY <1>1, <1>2, Visual DEF Sane
<1>4. sprite.sheet => \A s \in rest : s.waits = "picture"
  BY <1>1, Visual DEF Sane
<1>5. sprite.swaps = {} => FALSE
  BY <1>1, <1>2
<1>6. \A s : sprite.swaps = {s} => s.look = look /\ rest = {}
  BY <1>1, <1>2
<1> HIDE DEF rest
<1>7. /\ q \in Sprites /\ Sane(q) /\ Keyed(q)
      /\ q.key = sprite.key /\ q.retry = sprite.retry /\ q.overlap = sprite.overlap
      /\ q.shown = look /\ q.swaps = rest /\ q.pictures[look] = "made"
  BY <1>1, <1>3, <1>4, PictureTried
<1> HIDE DEF q
<1>8. ASSUME ~ q.overlap PROVE Settles(q)
  <2>1. PICK s \in sprite.swaps : sprite.swaps = {s} /\ s.look = sprite.key
    BY <1>1, <1>5, <1>7, <1>8, Visual DEF Settles
  <2>2. rest = {} /\ sprite.key = look
    BY <1>6, <2>1
  <2> QED
    BY <1>7, <2>2 DEF Settles, WornAs
<1> QED
  BY <1>1, <1>7, <1>8, Fitting

\* A picture that cannot be made: the sheet takes its place, now or once it is loaded.
LEMMA PictureGone ==
  ASSUME TypeOK, SpriteFits, NEW look \in Looks, PictureFails(look)
  PROVE  sprite' \in Sprites \cup {None} /\ SpriteFits'
<1> DEFINE rest == sprite.swaps \ PictureOf(look)
           none == [sprite EXCEPT !.pictures[look] = "null", !.swaps = rest]
           later == {[p EXCEPT !.waits = "sheet"] : p \in PictureOf(look)}
<1>1. /\ sprite # None /\ PictureOf(look) # {} /\ UNCHANGED store
      /\ sprite' = IF sprite.sheet THEN Settled([none EXCEPT !.shown = Plain])
                   ELSE [none EXCEPT !.swaps = rest \cup later]
  <2>1. /\ sprite # None /\ PictureOf(look) # {} /\ UNCHANGED store
        /\ sprite' = IF sprite.sheet THEN Settled([none EXCEPT !.shown = Plain])
                     ELSE [none EXCEPT !.swaps = @ \cup later]
    BY DEF PictureFails
  <2>2. none.swaps = rest
    BY <2>1, Visual DEF Sprites
  <2> HIDE DEF rest, later
  <2>3. [none EXCEPT !.swaps = @ \cup later] = [none EXCEPT !.swaps = rest \cup later]
    BY <2>2
  <2> HIDE DEF none
  <2> QED
    BY <2>1, <2>3
<1>2. \A s \in PictureOf(look) : s \in sprite.swaps /\ s.look = look /\ s.waits = "picture"
  BY DEF PictureOf, Waiting
<1>3. look # Plain /\ rest \in SUBSET Swaps /\ \A s \in rest : s \in sprite.swaps
  BY <1>1, <1>2, Visual DEF Sane
<1>4. sprite.swaps = {} => FALSE
  BY <1>1, <1>2
<1>5. \A s : sprite.swaps = {s} => s.look = look /\ rest = {} /\ PictureOf(look) = {s}
  BY <1>1, <1>2
<1>6. CASE sprite.sheet
  <2> DEFINE q == Tried(look, "null", Plain, rest)
  <2>1. [none EXCEPT !.shown = Plain] = q
    BY <1>1, Visual DEF Sprites, Tried
  <2>2. \A s \in rest : s.waits = "picture"
    BY <1>1, <1>6, Visual DEF Sane
  <2>3. sprite' = Settled(q) /\ Plain \in Looks
    BY <1>1, <1>6, <2>1, BrowserAssumption
  <2> HIDE DEF rest
  <2>4. /\ q \in Sprites /\ Sane(q) /\ Keyed(q)
        /\ q.key = sprite.key /\ q.retry = sprite.retry /\ q.overlap = sprite.overlap
        /\ q.shown = Plain /\ q.swaps = rest /\ q.pictures[look] = "null"
    BY <1>1, <1>3, <2>2, <2>3, PictureTried
  <2> HIDE DEF q
  <2>5. ASSUME ~ q.overlap PROVE Settles(q)
    <3>1. PICK s \in sprite.swaps : sprite.swaps = {s} /\ s.look = sprite.key
      BY <1>1, <1>4, <2>4, <2>5, Visual DEF Settles
    <3>2. rest = {} /\ sprite.key = look
      BY <1>5, <3>1
    <3> QED
      BY <2>4, <3>2 DEF Settles, WornAs
  <2> QED
    BY <1>1, <2>3, <2>4, <2>5, Fitting
<1>7. CASE ~ sprite.sheet
  <2> DEFINE shown == sprite.shown
             swaps == rest \cup later
             q == Tried(look, "null", shown, swaps)
  <2>1. [none EXCEPT !.swaps = swaps] = q
    BY <1>1, Visual DEF Sprites, Tried
  <2>2. \A s \in PictureOf(look) :
          LET t == [s EXCEPT !.waits = "sheet"]
          IN  t \in Swaps /\ t.look = s.look /\ t.prev = s.prev /\ t.waits = "sheet"
    BY <1>1, <1>2, Visual DEF Swaps
  <2>3. \A s \in later : /\ s \in Swaps /\ s.waits = "sheet"
                         /\ \E t \in sprite.swaps : s.look = t.look /\ s.prev = t.prev
    <3> SUFFICES ASSUME NEW s \in PictureOf(look)
                 PROVE  LET t == [s EXCEPT !.waits = "sheet"]
                        IN  /\ t \in Swaps /\ t.waits = "sheet"
                            /\ \E u \in sprite.swaps : t.look = u.look /\ t.prev = u.prev
      OBVIOUS
    <3> DEFINE t == [s EXCEPT !.waits = "sheet"]
    <3>1. t \in Swaps /\ t.look = s.look /\ t.prev = s.prev /\ t.waits = "sheet"
      BY <2>2
    <3> HIDE DEF t
    <3>2. t \in Swaps /\ t.waits = "sheet" /\ \E u \in sprite.swaps : t.look = u.look /\ t.prev = u.prev
      BY <1>2, <3>1
    <3> QED
      BY <3>2 DEF t
  <2>4. /\ swaps \in SUBSET Swaps /\ shown \in Looks
        /\ \A s \in swaps : \E t \in sprite.swaps : s.look = t.look /\ s.prev = t.prev
        /\ \A s \in swaps : s.waits = "picture" => s \in sprite.swaps
    BY <1>1, <1>3, <2>3, Visual DEF Sprites
  <2>5. sprite' = q
    BY <1>1, <1>7, <2>1
  <2> HIDE DEF shown, swaps, rest
  <2>6. /\ q \in Sprites /\ Sane(q) /\ Keyed(q)
        /\ q.key = sprite.key /\ q.retry = sprite.retry /\ q.overlap = sprite.overlap
        /\ q.shown = shown /\ q.swaps = swaps /\ q.pictures[look] = "null"
        /\ \A k \in Looks : k # look => q.pictures[k] = sprite.pictures[k]
    BY <1>1, <1>3, <1>7, <2>4, PictureTried
  <2> HIDE DEF q, later
  <2>7. Settles(q)
    <3> SUFFICES ASSUME ~ q.overlap PROVE Settles(q)
      BY DEF Settles
    <3>1. PICK s \in sprite.swaps :
            /\ sprite.swaps = {s} /\ s.look = sprite.key /\ s.prev # s.look
            /\ s.prev # None => sprite.shown = WornAs(sprite, s.prev)
      BY <1>1, <1>4, <2>6, Visual DEF Settles
    <3> DEFINE t == [s EXCEPT !.waits = "sheet"]
    <3>2. rest = {} /\ sprite.key = look /\ PictureOf(look) = {s}
      BY <1>5, <3>1
    <3>3. swaps = {t} /\ t.look = look /\ t.prev = s.prev /\ t.waits = "sheet"
      BY <2>2, <3>1, <3>2 DEF swaps, later
    <3>4. s.prev # None => s.prev \in Looks /\ s.prev # look
      BY <1>1, <3>1, <3>2, Visual DEF Swaps, Keys
    <3> HIDE DEF t
    <3>5. t.prev # None => q.shown = WornAs(q, t.prev)
      BY <2>6, <3>1, <3>3, <3>4 DEF WornAs, shown
    <3> QED
      BY <2>6, <3>1, <3>2, <3>3, <3>5 DEF Settles
  <2> QED
    BY <1>1, <2>5, <2>6, <2>7, Visual DEF SpriteFits, VisualFits
<1> QED
  BY <1>6, <1>7

LEMMA SheetLoaded ==
  ASSUME TypeOK, SpriteFits, LoadSheet
  PROVE  sprite' \in Sprites \cup {None} /\ SpriteFits'
<1> DEFINE rest == sprite.swaps \ Waiting("sheet")
           q == [sprite EXCEPT !.sheet = TRUE, !.shown = Plain, !.swaps = rest]
<1>1. sprite # None /\ Waiting("sheet") # {} /\ sprite' = Settled(q) /\ UNCHANGED store
  BY DEF LoadSheet
<1>2. /\ \A s \in Waiting("sheet") : s \in sprite.swaps /\ s.waits = "sheet"
      /\ \A s \in sprite.swaps : s.waits \in {"picture", "sheet"}
      /\ \A s \in rest : s \in sprite.swaps /\ s.waits = "picture"
  BY <1>1, Visual DEF Waiting, Swaps
<1>3. \A s : sprite.swaps = {s} => s.waits = "sheet" /\ rest = {}
  BY <1>1, <1>2
<1>4. sprite.swaps # {} /\ rest \in SUBSET Swaps
  BY <1>1, <1>2, Visual
<1> HIDE DEF rest
<1>5. /\ q \in Sprites /\ q.key = sprite.key /\ q.shown = Plain /\ q.pictures = sprite.pictures
      /\ q.sheet = TRUE /\ q.manifest = sprite.manifest /\ q.swaps = rest
      /\ q.overlap = sprite.overlap /\ q.retry = sprite.retry
  BY <1>1, <1>4, Visual DEF Sprites
<1> HIDE DEF q
<1>6. Sane(q) /\ Keyed(q)
  BY <1>1, <1>2, <1>5, Visual DEF Sane, Keyed
<1>7. ASSUME ~ q.overlap PROVE Settles(q)
  <2>1. PICK s \in sprite.swaps :
          /\ sprite.swaps = {s} /\ s.look = sprite.key
          /\ s.waits = "sheet" => sprite.pictures[s.look] = "null"
    BY <1>1, <1>4, <1>5, <1>7, Visual DEF Settles
  <2>2. rest = {} /\ sprite.pictures[sprite.key] = "null"
    BY <1>3, <2>1
  <2> QED
    BY <1>5, <2>2 DEF Settles, WornAs
<1> QED
  BY <1>1, <1>5, <1>6, <1>7, Fitting

\* A sheet that fails gives the key back.
LEMMA SheetGone ==
  ASSUME TypeOK, SpriteFits, SheetFails
  PROVE  sprite' \in Sprites \cup {None} /\ SpriteFits'
<1> DEFINE rest == sprite.swaps \ Waiting("sheet")
<1>1. sprite # None
  BY DEF SheetFails
<1>2. PICK p \in Waiting("sheet") :
        sprite' = [sprite EXCEPT !.key = p.prev, !.swaps = rest, !.retry = TRUE]
  BY DEF SheetFails
<1>3. p \in sprite.swaps /\ p.waits = "sheet" /\ rest \in SUBSET Swaps /\ \A s \in rest : s \in sprite.swaps
  BY <1>1, <1>2, Visual DEF Waiting
<1>4. /\ ~ sprite.sheet /\ sprite.manifest /\ p.prev # None /\ sprite.pictures[p.prev] # "none"
      /\ p.prev \in Keys
  BY <1>1, <1>3, Visual DEF Sane, Swaps
<1>5. sprite.swaps = {p} => rest = {}
  BY <1>2
<1> HIDE DEF rest
<1>6. /\ sprite' \in Sprites /\ sprite'.key = p.prev /\ sprite'.shown = sprite.shown
      /\ sprite'.pictures = sprite.pictures /\ sprite'.sheet = sprite.sheet
      /\ sprite'.manifest = sprite.manifest /\ sprite'.swaps = rest
      /\ sprite'.overlap = sprite.overlap /\ sprite'.retry = TRUE
  BY <1>1, <1>2, <1>3, <1>4, Visual DEF Sprites
<1>7. Sane(sprite') /\ Keyed(sprite')
  BY <1>1, <1>3, <1>4, <1>6, Visual DEF Sane, Keyed
<1>8. Settles(sprite')
  <2> SUFFICES ASSUME ~ sprite.overlap PROVE Settles(sprite')
    BY <1>6 DEF Settles
  <2>1. PICK s \in sprite.swaps :
          sprite.swaps = {s} /\ (s.prev # None => sprite.shown = WornAs(sprite, s.prev))
    BY <1>1, <1>3, Visual DEF Settles
  <2>2. s = p /\ rest = {}
    BY <1>3, <1>5, <2>1
  <2> QED
    BY <1>4, <1>6, <2>1, <2>2 DEF Settles, WornAs
<1> QED
  BY <1>6, <1>7, <1>8 DEF SpriteFits, VisualFits

\* The manifest: all that was tried in vain without it is tried again.
LEMMA ManifestCame ==
  ASSUME TypeOK, SpriteFits, ManifestArrives
  PROVE  sprite' \in Sprites \cup {None} /\ SpriteFits'
<1> DEFINE q == [sprite EXCEPT !.manifest = TRUE, !.pictures = NoPictures, !.key = None]
<1>1. /\ sprite # None /\ ~ sprite.manifest /\ UNCHANGED store
      /\ sprite' = Swapped(q, store.agent.look)
  BY DEF ManifestArrives
<1>2. NoPictures \in [Looks -> {"none", "making", "made", "null"}] /\ NoPictures[Plain] = "null"
  BY BrowserAssumption DEF NoPictures
<1>3. /\ q \in Sprites /\ q.manifest = TRUE /\ q.pictures = NoPictures /\ q.key = None
      /\ q.sheet = sprite.sheet /\ q.swaps = sprite.swaps
  BY <1>1, <1>2, Visual DEF Sprites, Keys
<1>4. store.agent.look \in Looks /\ store.agent.look # None
  BY Given, NoneAssumption DEF Stores, Agents
<1> HIDE DEF q
<1>5. sprite.sheet /\ Sane(q)
  BY <1>1, <1>2, <1>3, Visual DEF Sane
<1>6. sprite' \in Sprites /\ VisualFits(sprite') /\ sprite'.key = store.agent.look
  BY <1>1, <1>3, <1>4, <1>5, Swapping
<1> QED
  BY <1>1, <1>6 DEF SpriteFits

-----------------------------------------------------------------------------
(* Types, and counters that fit them. *)

LEMMA ShownType ==
  \A w \in Worlds : /\ Shown(w) \in Stores /\ Shown(w).layout = w.layout /\ Shown(w).agent = w.agent
                    /\ Shown(w).running = w.running /\ Shown(w).rev = w.rev
BY DEF Shown, Worlds, Stores

\* What is true of the first world, whatever the agent looks like.
LEMMA FirstWorld ==
  ASSUME Init
  PROVE  /\ scene \in AllScenes /\ world \in Worlds /\ world.map = Seed.map /\ world.layout = Seed.layout
         /\ world.rev = 1 /\ world.edits = 0 /\ world.life = 0 /\ world.running = FALSE
         /\ store = Shown(world) /\ heard = [edits |-> 0, agent |-> world.agent]
         /\ sprite \in Sprites \cup {None} /\ SpriteFits
<1>1. /\ Seed.map \in Maps /\ Seed.layout \in Layouts /\ Seed.agent \in Agents
      /\ Seed.agent.look \in Looks /\ Seed.agent.place \in Places
      /\ MaxEdits \in Nat /\ MaxFaults \in Nat /\ scene \in AllScenes
  BY BrowserAssumption DEF Init, Agents
<1>2. 1 \in Revs /\ 0 \in 0 .. MaxEdits /\ 0 \in 0 .. MaxFaults
  BY <1>1 DEF Revs
<1>3. PICK look \in scene.looks \cup {Seed.agent.look} :
        /\ world = [map |-> Seed.map, layout |-> Seed.layout,
                    agent |-> [look |-> look, place |-> Seed.agent.place],
                    running |-> FALSE, rev |-> 1, edits |-> 0, life |-> 0]
        /\ IF scene.canvas = "peopled"
           THEN \/ \E m \in BOOLEAN : sprite = NewSprite(look, m, FALSE)
                \/ look # Plain /\ sprite = NewSprite(look, TRUE, TRUE)
           ELSE sprite = None
  BY DEF Init
<1>4. look \in Looks
  BY <1>1 DEF AllScenes
<1> DEFINE a == [look |-> look, place |-> Seed.agent.place]
<1>5. a \in Agents /\ a.look = look
  BY <1>1, <1>4 DEF Agents
<1>6. world = [map |-> Seed.map, layout |-> Seed.layout, agent |-> a, running |-> FALSE,
               rev |-> 1, edits |-> 0, life |-> 0]
  BY <1>3
<1> HIDE DEF a
<1>7. /\ world \in Worlds /\ world.map = Seed.map /\ world.layout = Seed.layout
      /\ world.rev = 1 /\ world.edits = 0 /\ world.life = 0 /\ world.running = FALSE
      /\ world.agent.look = look
  BY <1>1, <1>2, <1>5, <1>6 DEF Worlds
<1>8. store = Shown(world) /\ heard = [edits |-> 0, agent |-> world.agent]
  BY DEF Init
<1>9. sprite = None \/ (sprite \in Sprites /\ VisualFits(sprite) /\ sprite.key = look)
  <2>1. ASSUME NEW m \in BOOLEAN, NEW b \in BOOLEAN, b => m /\ look # Plain, sprite = NewSprite(look, m, b)
        PROVE  sprite \in Sprites /\ VisualFits(sprite) /\ sprite.key = look
    BY <1>4, <2>1, FreshSprite
  <2> QED
    BY <1>3, <2>1
<1>10. store.agent.look = look
  BY <1>7, <1>8 DEF Shown
<1> QED
  BY <1>1, <1>7, <1>8, <1>9, <1>10 DEF SpriteFits

LEMMA TypeInit == Init => TypeOK /\ CountsFit
<1> SUFFICES ASSUME Init PROVE TypeOK /\ CountsFit
  OBVIOUS
<1>1. /\ Seed.map \in Maps /\ Seed.layout \in Layouts /\ 1 \in Revs
      /\ MaxEdits \in Nat /\ MaxFaults \in Nat /\ Room \in Nat \ {0} /\ 0 \in 0 .. MaxFaults
  BY BrowserAssumption DEF Revs
<1>2. editor \in Editors /\ (editor.on <=> editor.draft # None) /\ (editor.on <=> editor.base # None)
  BY DEF Init, NotEditing, Editors
<1>3. puts \in [1 .. MaxSaves -> Puts] /\ fetch \in Fetches
  BY DEF Init, Idle, Puts, Fetches
<1>4. cache \in Held \cup {None} /\ drawn \in Maps \cup {None} /\ subscribed \in BOOLEAN
  <2> DEFINE h == [map |-> Seed.map, rev |-> 1, life |-> 0]
  <2>1. h \in Held
    BY <1>1 DEF Held
  <2>2. /\ cache = None \/ cache = h
        /\ drawn = None \/ drawn = Seed.map
        /\ subscribed = FALSE \/ subscribed = TRUE
    BY DEF Init
  <2> QED
    BY <1>1, <2>1, <2>2
<1>5. inbox \in Seq(Messages) /\ Len(inbox) <= Room /\ served \subseteq Layouts /\ scene \in Scenes
  BY <1>1 DEF Init
<1>6. store \in Stores /\ faults = 0 /\ faults \in 0 .. MaxFaults /\ stray \in BOOLEAN
  <2>1. faults = 0 /\ stray = FALSE
    BY DEF Init
  <2>2. store \in Stores
    BY FirstWorld, ShownType
  <2> QED
    BY <1>1, <2>1, <2>2
<1>7. heard \in [edits : 0 .. MaxEdits, agent : Agents]
  BY <1>1, FirstWorld DEF Worlds
<1>8. CountsFit
  BY <1>6, FirstWorld DEF CountsFit
<1> QED
  BY <1>2, <1>3, <1>4, <1>5, <1>6, <1>7, <1>8, FirstWorld DEF TypeOK

\* What the types say of an open editor.
LEMMA OpenEditor ==
  ASSUME TypeOK
  PROVE  /\ editor.on \in BOOLEAN
         /\ editor.on => editor.draft \in Layouts /\ editor.base \in Bases
         /\ ~ editor.on => editor.base = None
BY DEF TypeOK, Editors

\* An action of the server, if it leaves the browser's side alone.
LEMMA ServerTypes ==
  ASSUME TypeOK, CountsFit, world' \in Worlds, served' \subseteq Layouts,
         world'.rev <= world'.edits + 2, world'.life <= faults',
         inbox' \in Seq(Messages), Len(inbox') <= Room, puts' \in [1 .. MaxSaves -> Puts],
         fetch' \in Fetches, faults' \in 0 .. MaxFaults,
         UNCHANGED <<scene, store, editor, cache, drawn, subscribed, sprite, heard, stray>>
  PROVE  TypeOK' /\ CountsFit'
BY DEF TypeOK, CountsFit

\* An action of the browser.
LEMMA BrowserTypes ==
  ASSUME TypeOK, CountsFit, UNCHANGED <<scene, world, served>>,
         inbox' \in Seq(Messages), Len(inbox') <= Room,
         store' \in Stores, editor' \in Editors,
         editor'.on <=> editor'.draft # None, editor'.on <=> editor'.base # None,
         puts' \in [1 .. MaxSaves -> Puts], fetch' \in Fetches, cache' \in Held \cup {None},
         drawn' \in Maps \cup {None}, subscribed' \in BOOLEAN, sprite' \in Sprites \cup {None},
         faults' \in 0 .. MaxFaults, faults' >= faults,
         heard' \in [edits : 0 .. MaxEdits, agent : Agents], stray' \in BOOLEAN
  PROVE  TypeOK' /\ CountsFit'
<1>1. world.life \in Nat /\ faults \in Nat /\ faults' \in Nat /\ world.life <= faults
  BY BrowserAssumption DEF TypeOK, CountsFit, Worlds
<1>2. CountsFit'
  BY <1>1 DEF CountsFit
<1> QED
  BY <1>2 DEF TypeOK

\* What the server's actions leave alone.
LEMMA ServerLeaves ==
  /\ OthersEdit => UNCHANGED <<scene, store, editor, puts, fetch, cache, drawn, subscribed, sprite, faults, heard, stray>>
  /\ SendTick => UNCHANGED <<scene, served, store, editor, puts, fetch, cache, drawn, subscribed, sprite, faults, heard, stray>>
  /\ Pause => UNCHANGED <<scene, served, store, editor, puts, fetch, cache, drawn, subscribed, sprite, faults, heard, stray>>
  /\ Resume => UNCHANGED <<scene, served, inbox, store, editor, puts, fetch, cache, drawn, subscribed, sprite, faults, heard, stray>>
  /\ ServeMap => UNCHANGED <<scene, world, served, inbox, store, editor, puts, cache, drawn, subscribed, sprite, faults, heard, stray>>
  /\ Restart => UNCHANGED <<scene, served, store, editor, cache, drawn, subscribed, sprite, heard, stray>>
  /\ \A i \in 1 .. MaxSaves : ServePut(i) => UNCHANGED <<scene, store, editor, fetch, cache, drawn, subscribed, sprite, faults, heard, stray>>
BY DEF OthersEdit, SendTick, Pause, Resume, ServeMap, Restart, ServePut, server, editorVars, canvasVars, history

LEMMA ServerKeepsTypes ==
  ASSUME TypeOK, CountsFit, LayoutsFit, InboxFits(inbox, world),
         \/ OthersEdit \/ SendTick \/ Pause \/ Resume \/ ServeMap \/ Restart
         \/ \E i \in 1 .. MaxSaves : ServePut(i)
  PROVE  TypeOK' /\ CountsFit'
<1>1. /\ world.rev <= world.edits + 2 /\ world.life <= faults /\ world.life \in Nat /\ faults \in Nat
  BY Given DEF CountsFit, Worlds
<1>2. CASE OthersEdit
  <2>1. world'.life <= faults'
    BY <1>1, <1>2, OthersEditing, ServerLeaves
  <2>2. inbox' \in Seq(Messages) /\ Len(inbox') <= Room
    BY <1>2, OthersEditing DEF Told
  <2> QED
    BY <1>2, <2>1, <2>2, OthersEditing, ServerLeaves, Given, ServerTypes
<1>3. CASE SendTick
  <2>1. InboxFits(inbox, world)
    OBVIOUS
  <2>2. world'.rev <= world'.edits + 2 /\ world'.life <= faults'
    BY <1>1, <1>3, Ticking, ServerLeaves DEF Same
  <2>3. inbox' \in Seq(Messages) /\ Len(inbox') <= Room /\ world' \in Worlds
    BY <1>3, Ticking DEF Told
  <2> QED
    BY <1>3, <2>2, <2>3, ServerLeaves, Given, ServerTypes
<1>4. CASE Pause
  <2>1. world'.rev <= world'.edits + 2 /\ world'.life <= faults'
    BY <1>1, <1>4, Pausing, ServerLeaves DEF Same
  <2>2. inbox' \in Seq(Messages) /\ Len(inbox') <= Room /\ world' \in Worlds
    BY <1>4, Pausing DEF Told
  <2> QED
    BY <1>4, <2>1, <2>2, ServerLeaves, Given, ServerTypes
<1>5. CASE Resume
  <2>1. world'.rev <= world'.edits + 2 /\ world'.life <= faults'
    BY <1>1, <1>5, Resuming, ServerLeaves DEF Same
  <2>2. inbox' \in Seq(Messages) /\ Len(inbox') <= Room /\ world' \in Worlds
    BY <1>5, Resuming DEF Told
  <2> QED
    BY <1>5, <2>1, <2>2, ServerLeaves, Given, ServerTypes
<1>6. CASE ServeMap
  <2>1. fetch' = [pc |-> "answered", map |-> world.map, rev |-> world.rev, life |-> world.life]
    BY <1>6 DEF ServeMap
  <2>2. fetch' \in Fetches
    BY <2>1, Given DEF Worlds, Fetches
  <2> QED
    BY <1>1, <1>6, <2>2, ServerLeaves, Given, ServerTypes
<1>7. CASE Restart
  <2>1. fetch' \in Fetches
    BY <1>7, Given DEF Restart, Fetches
  <2>2. inbox' \in Seq(Messages) /\ Len(inbox') <= Room
    BY <1>7, Restarting DEF Told
  <2> QED
    BY <1>7, <2>1, <2>2, Restarting, ServerLeaves, Given, ServerTypes
<1>8. ASSUME NEW i \in 1 .. MaxSaves, ServePut(i) PROVE TypeOK' /\ CountsFit'
  <2>1. /\ world' \in Worlds /\ world'.life = world.life /\ world'.rev <= world'.edits + 2
        /\ Told /\ served' \subseteq Layouts /\ puts' \in [1 .. MaxSaves -> Puts]
    BY <1>8, PutServing
  <2>2. UNCHANGED <<scene, store, editor, fetch, cache, drawn, subscribed, sprite, faults, heard, stray>>
    BY <1>8, ServerLeaves
  <2>3. world'.life <= faults'
    BY <1>1, <2>1, <2>2
  <2>4. inbox' \in Seq(Messages) /\ Len(inbox') <= Room
    BY <2>1 DEF Told
  <2> QED
    BY <2>1, <2>2, <2>3, <2>4, Given, ServerTypes
<1> QED
  BY <1>2, <1>3, <1>4, <1>5, <1>6, <1>7, <1>8

\* What the images leave alone.
PictureStep ==
  \/ \E look \in Looks : FinishPicture(look) \/ PictureFails(look)
  \/ LoadSheet \/ SheetFails \/ ManifestArrives

LEMMA PictureLeaves ==
  ASSUME PictureStep
  PROVE  /\ UNCHANGED <<scene, world, served, inbox, store, editor, puts, fetch, cache, drawn, subscribed, heard, stray>>
         /\ faults' = faults \/ (faults < scene.faults /\ faults' = faults + 1)
BY DEF PictureStep, FinishPicture, PictureFails, LoadSheet, SheetFails, ManifestArrives, Fault,
       server, editorVars, canvasVars, history

LEMMA PictureFits ==
  ASSUME TypeOK, SpriteFits, PictureStep
  PROVE  sprite' \in Sprites \cup {None} /\ SpriteFits'
BY PictureDone, PictureGone, SheetLoaded, SheetGone, ManifestCame DEF PictureStep

LEMMA CanvasKeepsTypes ==
  ASSUME TypeOK, CountsFit, SpriteFits, ReceiveMap \/ BuildMap \/ MapFails \/ PictureStep
  PROVE  TypeOK' /\ CountsFit'
<1>1. faults < scene.faults => faults + 1 \in 0 .. MaxFaults /\ faults + 1 >= faults
  BY Given DEF AllScenes
<1>2. CASE ReceiveMap
  <2>1. /\ UNCHANGED <<scene, world, served, inbox, store, editor, puts, drawn, subscribed, sprite, faults, heard, stray>>
        /\ fetch.pc = "answered" /\ cache' = [map |-> fetch.map, rev |-> fetch.rev, life |-> fetch.life]
        /\ fetch' = [pc |-> "building", map |-> fetch.map]
    BY <1>2 DEF ReceiveMap, server, editorVars, history
  <2>2. cache' \in Held /\ fetch' \in Fetches
    BY <2>1, Given DEF Fetches, Held
  <2> QED
    BY <2>1, <2>2, Given, BrowserTypes
<1>3. CASE BuildMap
  <2>1. /\ UNCHANGED <<scene, world, served, inbox, store, editor, puts, cache, sprite, faults, heard, stray>>
        /\ fetch.pc = "building" /\ drawn' = fetch.map /\ fetch' = Idle /\ subscribed' = TRUE
    BY <1>3 DEF BuildMap, server, editorVars, history
  <2>2. drawn' \in Maps /\ fetch' \in Fetches
    BY <2>1, Given DEF Fetches, Idle
  <2> QED
    BY <2>1, <2>2, Given, BrowserTypes
<1>4. CASE MapFails
  <2>1. /\ UNCHANGED <<scene, world, served, inbox, store, editor, puts, cache, drawn, sprite, heard, stray>>
        /\ fetch' = Idle /\ subscribed' = TRUE
        /\ faults' = faults \/ (faults < scene.faults /\ faults' = faults + 1)
    BY <1>4 DEF MapFails, Fault, server, editorVars, history
  <2>2. fetch' \in Fetches /\ faults' \in 0 .. MaxFaults /\ faults' >= faults
    BY <1>1, <2>1, Given DEF Fetches, Idle
  <2> QED
    BY <2>1, <2>2, Given, BrowserTypes
<1>5. CASE PictureStep
  <2>1. faults' \in 0 .. MaxFaults /\ faults' >= faults
    BY <1>1, <1>5, PictureLeaves, Given
  <2> QED
    BY <1>5, <2>1, PictureLeaves, PictureFits, Given, BrowserTypes
<1> QED
  BY <1>2, <1>3, <1>4, <1>5

\* Handling a message: the store becomes what it says.
LEMMA Handled ==
  ASSUME NEW s \in Stores, NEW m \in Messages
  PROVE  /\ Applied(s, m) \in Stores
         /\ m.type = "world_snapshot" => Applied(s, m) = Shown(m.world)
         /\ m.type # "world_snapshot" =>
              /\ Applied(s, m).layout = s.layout /\ Applied(s, m).agent.look = s.agent.look
              /\ Applied(s, m).rev = s.rev
         /\ m.type = "agent_moved" =>
              Applied(s, m).agent.place = m.place /\ Applied(s, m).running = s.running
         /\ m.type \in {"tick", "world_paused"} => Applied(s, m).agent = s.agent
         /\ m.type = "tick" => Applied(s, m).running = TRUE
         /\ m.type = "world_paused" => Applied(s, m).running = FALSE
<1>1. CASE m.type = "world_snapshot"
  BY <1>1, ShownType, MessageTypes DEF Applied
<1>2. CASE m.type = "tick"
  BY <1>2 DEF Applied, Stores
<1>3. CASE m.type = "world_paused"
  BY <1>3 DEF Applied, Stores
<1>4. CASE m.type = "agent_moved"
  <2> DEFINE a == [s.agent EXCEPT !.place = m.place]
  <2>1. Applied(s, m) = [s EXCEPT !.agent = a]
    BY <1>4 DEF Applied, Stores
  <2>2. a \in Agents /\ a.place = m.place /\ a.look = s.agent.look
    BY <1>4, MessageTypes, AgentTypes DEF Stores, Agents
  <2> HIDE DEF a
  <2> QED
    BY <1>4, <2>1, <2>2 DEF Stores
<1> QED
  BY <1>1, <1>2, <1>3, <1>4, MessageTypes

LEMMA DeliverKeepsTypes ==
  ASSUME TypeOK, CountsFit, SpriteFits, Deliver
  PROVE  TypeOK' /\ CountsFit'
<1> DEFINE m == Head(inbox)
           s == Applied(store, m)
<1>1. /\ inbox # <<>> /\ inbox' = Tail(inbox) /\ Set(s)
      /\ UNCHANGED <<scene, world, served, puts, cache, drawn, subscribed, faults>>
  BY DEF Deliver, DeliverSnapshot, DeliverMove, DeliverTick, DeliverPause, server, editorVars, canvasVars, history
<1>2. /\ m \in Messages /\ inbox' \in Seq(Messages) /\ Len(inbox') <= Room
  <2>1. Len(inbox') = Len(inbox) - 1 /\ Len(inbox) \in Nat /\ Room \in Nat
    BY <1>1, Given, BrowserAssumption
  <2> QED
    BY <1>1, <2>1, Given
<1>3. store' = s /\ s \in Stores /\ fetch' \in Fetches
  BY <1>1, <1>2, Given, Handled, Setting
<1>4. sprite' \in Sprites \cup {None}
  <2>1. CASE Sync
    BY <1>3, <2>1, Given, Synced
  <2>2. CASE UNCHANGED sprite
    BY <2>2, Given
  <2> QED
    BY <2>1, <2>2 DEF Deliver, DeliverSnapshot, DeliverMove, DeliverTick, DeliverPause
<1> HIDE DEF m, s
<1>5. /\ editor' \in Editors
      /\ (editor'.on <=> editor'.draft # None) /\ (editor'.on <=> editor'.base # None)
      /\ heard' \in [edits : 0 .. MaxEdits, agent : Agents] /\ stray' \in BOOLEAN
  <2>1. CASE DeliverSnapshot
    <3>1. /\ m.type = "world_snapshot" /\ heard' = [edits |-> m.world.edits, agent |-> m.world.agent]
          /\ stray' = FALSE /\ editor' = [editor EXCEPT !.stale = editor.on]
      BY <2>1 DEF DeliverSnapshot, m
    <3>2. m.world \in Worlds
      BY <1>2, <3>1, MessageTypes
    <3>3. heard' \in [edits : 0 .. MaxEdits, agent : Agents]
      BY <3>1, <3>2 DEF Worlds
    <3>4. /\ editor' \in Editors /\ editor'.on = editor.on /\ editor'.draft = editor.draft
          /\ editor'.base = editor.base
      BY <3>1, Given, OpenEditor DEF Editors
    <3> QED
      BY <3>1, <3>3, <3>4, Given
  <2>2. CASE DeliverMove
    <3> DEFINE missed == editor.missed \/ editor.on
               a == [heard.agent EXCEPT !.place = m.place]
    <3>1. /\ m.type = "agent_moved" /\ heard' = [heard EXCEPT !.agent = a] /\ stray' = stray
          /\ editor' = [editor EXCEPT !.missed = missed]
      BY <2>2, Given DEF DeliverMove, m, Editors
    <3>2. m.place \in Places /\ heard.agent \in Agents
      BY <1>2, <3>1, Given, MessageTypes
    <3>3. a \in Agents
      BY <3>2, AgentTypes DEF Agents
    <3>4. missed \in BOOLEAN
      BY OpenEditor, Given DEF Editors
    <3> HIDE DEF a, missed
    <3>5. heard' \in [edits : 0 .. MaxEdits, agent : Agents]
      BY <3>1, <3>3, Given
    <3>6. /\ editor' \in Editors /\ editor'.on = editor.on /\ editor'.draft = editor.draft
          /\ editor'.base = editor.base
      BY <3>1, <3>4, Given DEF Editors
    <3> QED
      BY <3>1, <3>5, <3>6, Given
  <2>3. CASE DeliverTick
    BY <2>3, Given DEF DeliverTick, editorVars, history
  <2>4. CASE DeliverPause
    <3> DEFINE missed == editor.missed \/ editor.on
    <3>1. UNCHANGED <<heard, stray>> /\ editor' = [editor EXCEPT !.missed = missed]
      BY <2>4, Given DEF DeliverPause, history, Editors
    <3>2. missed \in BOOLEAN
      BY OpenEditor, Given DEF Editors
    <3> HIDE DEF missed
    <3>3. /\ editor' \in Editors /\ editor'.on = editor.on /\ editor'.draft = editor.draft
          /\ editor'.base = editor.base
      BY <3>1, <3>2, Given DEF Editors
    <3> QED
      BY <3>1, <3>3, Given
  <2> QED
    BY <2>1, <2>2, <2>3, <2>4 DEF Deliver
<1> QED
  BY <1>1, <1>2, <1>3, <1>4, <1>5, Given, BrowserTypes

\* What the store becomes when a draft is published or cancelled.
LEMMA Drafting ==
  ASSUME TypeOK
  PROVE  /\ \A l \in Layouts :
              LET s == [store EXCEPT !.layout = l, !.running = FALSE]
              IN  /\ s \in Stores /\ s.layout = l /\ s.running = FALSE /\ s.agent = store.agent
                  /\ s.rev = store.rev
         /\ editor.on =>
              LET s == [store EXCEPT !.layout = editor.base.layout, !.agent = editor.base.agent,
                                     !.running = editor.base.running]
              IN  /\ s \in Stores /\ s.layout = editor.base.layout /\ s.agent = editor.base.agent
                  /\ s.running = editor.base.running /\ s.rev = store.rev
         /\ Base \in Bases /\ store.layout \in Layouts /\ Base # None /\ \A l \in Layouts : l # None
         /\ Base.layout = store.layout /\ Base.agent = store.agent /\ Base.running = store.running
<1>1. store \in Stores /\ (editor.on => editor.base \in Bases)
  BY OpenEditor, Given
<1>2. /\ Base \in Bases /\ Base # None /\ \A l \in Layouts : l # None
      /\ Base.layout = store.layout /\ Base.agent = store.agent /\ Base.running = store.running
  BY <1>1, NoneAssumption DEF Base, Bases, Stores
<1>3. \A l \in Layouts :
         LET s == [store EXCEPT !.layout = l, !.running = FALSE]
         IN  /\ s \in Stores /\ s.layout = l /\ s.running = FALSE /\ s.agent = store.agent
             /\ s.rev = store.rev
  BY <1>1 DEF Stores
<1>4. ASSUME editor.on
      PROVE  LET s == [store EXCEPT !.layout = editor.base.layout, !.agent = editor.base.agent,
                                     !.running = editor.base.running]
             IN  /\ s \in Stores /\ s.layout = editor.base.layout /\ s.agent = editor.base.agent
                 /\ s.running = editor.base.running /\ s.rev = store.rev
  BY <1>1, <1>4 DEF Stores, Bases
<1> QED
  BY <1>1, <1>2, <1>3, <1>4 DEF Stores

\* Nobody edits any more; nothing has been saved, or a save goes on.
LEMMA Done ==
  ASSUME TypeOK
  PROVE  /\ NotEditing \in Editors /\ NotEditing.on = FALSE /\ NotEditing.draft = None
         /\ NotEditing.base = None
         /\ \A i \in 1 .. MaxSaves, p \in Puts :
              LET next == [puts EXCEPT ![i] = p]
              IN  /\ next \in [1 .. MaxSaves -> Puts] /\ next[i] = p
                  /\ \A j \in 1 .. MaxSaves : j # i => next[j] = puts[j]
         /\ Idle \in Puts /\ Idle.pc = "idle"
         /\ \A i \in 1 .. MaxSaves : puts[i].pc = "answered" => puts[i].world \in Worlds
<1>1. /\ NotEditing \in Editors /\ NotEditing.on = FALSE /\ NotEditing.draft = None
      /\ NotEditing.base = None /\ Idle \in Puts /\ Idle.pc = "idle"
  BY DEF NotEditing, Editors, Idle, Puts
<1>2. puts \in [1 .. MaxSaves -> Puts]
  BY Given
<1>3. \A p \in Puts : p.pc = "answered" => p.world \in Worlds
  BY DEF Puts
<1> QED
  BY <1>1, <1>2, <1>3

LEMMA EditorKeepsTypes ==
  ASSUME TypeOK, CountsFit, SpriteFits,
         \/ EnterEdit \/ UpdateDraft \/ CancelEdit
         \/ \E i \in 1 .. MaxSaves : Save(i) \/ SaveAnswered(i) \/ SaveFails(i)
  PROVE  TypeOK' /\ CountsFit'
<1>1. CASE EnterEdit
  <2>1. /\ UNCHANGED <<scene, world, served, inbox, puts, cache, drawn, subscribed, sprite, faults, heard, stray>>
        /\ ~ editor.on
        /\ editor' = [on |-> TRUE, draft |-> store.layout, stale |-> FALSE, missed |-> FALSE,
                      base |-> IF editor.base = None THEN Base ELSE editor.base]
        /\ Set([store EXCEPT !.layout = store.layout, !.running = FALSE])
    BY <1>1 DEF EnterEdit, Publish, server, canvasVars, history
  <2>2. editor' = [on |-> TRUE, draft |-> store.layout, stale |-> FALSE, missed |-> FALSE, base |-> Base]
    BY <2>1, OpenEditor
  <2>3. /\ editor' \in Editors /\ (editor'.on <=> editor'.draft # None)
        /\ (editor'.on <=> editor'.base # None)
    BY <2>2, Drafting DEF Editors
  <2> DEFINE s == [store EXCEPT !.layout = store.layout, !.running = FALSE]
  <2>4. s \in Stores /\ Set(s)
    BY <2>1, Drafting
  <2> HIDE DEF s
  <2>5. store' \in Stores /\ fetch' \in Fetches
    BY <2>4, Setting, Given
  <2> QED
    BY <2>1, <2>3, <2>5, Given, BrowserTypes
<1>2. CASE UpdateDraft
  <2>1. PICK l \in Layouts : editor' = [editor EXCEPT !.draft = l] /\ Publish(l)
    BY <1>2 DEF UpdateDraft
  <2>2. /\ UNCHANGED <<scene, world, served, inbox, puts, cache, drawn, subscribed, sprite, faults, heard, stray>>
        /\ editor.on /\ Set([store EXCEPT !.layout = l, !.running = FALSE])
    BY <1>2, <2>1 DEF UpdateDraft, Publish, server, canvasVars, history
  <2>3. /\ editor' \in Editors /\ (editor'.on <=> editor'.draft # None)
        /\ (editor'.on <=> editor'.base # None)
    BY <2>1, <2>2, Given, Drafting DEF Editors
  <2> DEFINE s == [store EXCEPT !.layout = l, !.running = FALSE]
  <2>4. s \in Stores /\ Set(s)
    BY <2>2, Drafting
  <2> HIDE DEF s
  <2>5. store' \in Stores /\ fetch' \in Fetches
    BY <2>4, Setting, Given
  <2> QED
    BY <2>2, <2>3, <2>5, Given, BrowserTypes
<1>3. CASE CancelEdit
  <2>1. /\ UNCHANGED <<scene, world, served, inbox, puts, cache, drawn, subscribed, faults, heard>>
        /\ editor.on /\ editor' = NotEditing /\ Sync
        /\ Set([store EXCEPT !.layout = editor.base.layout, !.agent = editor.base.agent,
                             !.running = editor.base.running])
        /\ stray' = (stray \/ editor.stale \/ editor.missed)
    BY <1>3 DEF CancelEdit, server, canvasVars
  <2>2. stray' \in BOOLEAN
    BY <2>1, Given DEF Editors
  <2>3. store' \in Stores /\ fetch' \in Fetches
    <3> DEFINE s == [store EXCEPT !.layout = editor.base.layout, !.agent = editor.base.agent,
                                  !.running = editor.base.running]
    <3>1. s \in Stores /\ Set(s)
      BY <2>1, Drafting
    <3> HIDE DEF s
    <3> QED
      BY <3>1, Setting, Given
  <2>4. sprite' \in Sprites \cup {None}
    BY <2>1, <2>3, Given, Synced
  <2> QED
    BY <2>1, <2>2, <2>3, <2>4, Done, Given, BrowserTypes
<1>4. ASSUME NEW i \in 1 .. MaxSaves, Save(i) PROVE TypeOK' /\ CountsFit'
  <2> DEFINE p == [pc |-> "asked", layout |-> editor.draft]
  <2>1. /\ UNCHANGED <<scene, world, served, inbox, editor, cache, drawn, subscribed, sprite, faults, heard, stray>>
        /\ editor.on /\ puts' = [puts EXCEPT ![i] = p] /\ Set(store)
    BY <1>4 DEF Save, server, canvasVars, history
  <2>2. p \in Puts
    BY <2>1, OpenEditor DEF Puts
  <2> HIDE DEF p
  <2>3. puts' \in [1 .. MaxSaves -> Puts] /\ store' \in Stores /\ fetch' \in Fetches
    BY <2>1, <2>2, Done, Setting, Given
  <2> QED
    BY <2>1, <2>3, Given, BrowserTypes
<1>5. ASSUME NEW i \in 1 .. MaxSaves, SaveAnswered(i) PROVE TypeOK' /\ CountsFit'
  <2>1. /\ UNCHANGED <<scene, world, served, inbox, cache, drawn, subscribed, faults, heard>>
        /\ puts[i].pc = "answered" /\ Set(Shown(puts[i].world)) /\ Sync
        /\ puts' = [puts EXCEPT ![i] = Idle] /\ editor' = NotEditing
    BY <1>5 DEF SaveAnswered, server, canvasVars
  <2>2. stray' \in BOOLEAN
    BY <1>5 DEF SaveAnswered, Old
  <2>3. Shown(puts[i].world) \in Stores
    BY <2>1, Done, ShownType
  <2>4. puts' \in [1 .. MaxSaves -> Puts] /\ store' \in Stores /\ fetch' \in Fetches
    BY <2>1, <2>3, Done, Setting, Given
  <2>5. sprite' \in Sprites \cup {None}
    BY <2>1, <2>4, Given, Synced
  <2> QED
    BY <2>1, <2>2, <2>4, <2>5, Done, Given, BrowserTypes
<1>6. ASSUME NEW i \in 1 .. MaxSaves, SaveFails(i) PROVE TypeOK' /\ CountsFit'
  <2>1. /\ UNCHANGED <<scene, world, served, inbox, editor, cache, drawn, subscribed, sprite, faults, heard, stray>>
        /\ puts' = [puts EXCEPT ![i] = Idle] /\ Set(store)
    BY <1>6 DEF SaveFails, server, canvasVars, history
  <2>2. puts' \in [1 .. MaxSaves -> Puts] /\ store' \in Stores /\ fetch' \in Fetches
    BY <2>1, Done, Setting, Given
  <2> QED
    BY <2>1, <2>2, Given, BrowserTypes
<1> QED
  BY <1>1, <1>2, <1>3, <1>4, <1>5, <1>6

LEMMA TypeKept ==
  ASSUME TypeOK, CountsFit, SpriteFits, LayoutsFit, InboxFits(inbox, world), [Next]_vars
  PROVE  TypeOK' /\ CountsFit'
<1>1. CASE UNCHANGED vars
  BY <1>1 DEF vars, editorVars, canvasVars, TypeOK, CountsFit
<1> QED
  BY <1>1, ServerKeepsTypes, CanvasKeepsTypes, DeliverKeepsTypes, EditorKeepsTypes DEF Next, PictureStep

-----------------------------------------------------------------------------
(* Maps and visuals. *)

\* No map goes on from a change of the store but the one under way.
LEMMA MapsStay ==
  ASSUME MapsFit, UNCHANGED <<world, cache>>, fetch'.pc = "answered" => fetch' = fetch
  PROVE  MapsFit'
BY DEF MapsFit

\* What was held of this life is of a smaller revision once there is a new map, of
\* an earlier life after a restart.
LEMMA MapsAge ==
  ASSUME NEW h, NEW w, NEW v, OfAMap(h, w), {h.life, w.life, h.rev, w.rev} \subseteq Nat,
         \/ v.life = w.life + 1
         \/ v.life = w.life /\ v.rev = w.rev + 1
         \/ v.life = w.life /\ v.rev = w.rev /\ v.map = w.map
  PROVE  OfAMap(h, v)
<1>1. h.life \in Nat /\ w.life \in Nat /\ h.rev \in Nat /\ w.rev \in Nat
  OBVIOUS
<1>2. CASE v.life = w.life + 1
  BY <1>1, <1>2 DEF OfAMap
<1>3. CASE v.life = w.life /\ v.rev = w.rev + 1
  BY <1>1, <1>3 DEF OfAMap
<1>4. CASE v.life = w.life /\ v.rev = w.rev /\ v.map = w.map
  BY <1>4 DEF OfAMap
<1> QED
  BY <1>2, <1>3, <1>4

\* What the browser does to the store asks for a map at most.
EditorStep ==
  \/ EnterEdit \/ UpdateDraft \/ CancelEdit
  \/ \E i \in 1 .. MaxSaves : Save(i) \/ SaveAnswered(i) \/ SaveFails(i)

LEMMA StoreChanges ==
  ASSUME Deliver \/ EditorStep
  PROVE  /\ UNCHANGED <<scene, world, served, cache, drawn, subscribed, faults>>
         /\ fetch' = [pc |-> "asked"] \/ fetch' = fetch
<1>1. CASE Deliver
  <2>1. UNCHANGED <<scene, world, served, cache, drawn, subscribed, faults>>
    BY <1>1 DEF Deliver, DeliverSnapshot, DeliverMove, DeliverTick, DeliverPause, server, canvasVars, history
  <2>2. Set(Applied(store, Head(inbox)))
    BY <1>1 DEF Deliver, DeliverSnapshot, DeliverMove, DeliverTick, DeliverPause
  <2> QED
    BY <2>1, <2>2 DEF Set
<1>2. CASE EditorStep
  <2>1. UNCHANGED <<scene, world, served, cache, drawn, subscribed, faults>>
    BY <1>2 DEF EditorStep, EnterEdit, UpdateDraft, CancelEdit, Save, SaveFails, SaveAnswered, server, canvasVars, history
  <2>2. \E s : Set(s)
    BY <1>2 DEF EditorStep, EnterEdit, UpdateDraft, CancelEdit, Save, SaveFails, SaveAnswered, Publish
  <2> QED
    BY <2>1, <2>2 DEF Set
<1> QED
  BY <1>1, <1>2

LEMMA MapsKept ==
  ASSUME TypeOK, CountsFit, MapsFit, LayoutsFit, InboxFits(inbox, world), [Next]_vars
  PROVE  MapsFit'
<1>1. /\ world.life \in Nat /\ world.rev \in Nat
      /\ cache # None => cache.life \in Nat /\ cache.rev \in Nat
      /\ fetch.pc = "answered" => fetch.life \in Nat /\ fetch.rev \in Nat
  BY Given, BrowserAssumption DEF Worlds, Held, Fetches, Revs
<1>2. ASSUME UNCHANGED cache, fetch'.pc = "answered" => fetch' = fetch,
             \/ world'.life = world.life + 1
             \/ world'.life = world.life /\ world'.rev = world.rev + 1
             \/ world'.life = world.life /\ world'.rev = world.rev /\ world'.map = world.map
      PROVE  MapsFit'
  BY <1>1, <1>2, MapsAge DEF MapsFit
<1>3. CASE OthersEdit
  BY <1>2, <1>3, ServerLeaves, OthersEditing
<1>4. CASE SendTick
  BY <1>2, <1>4, ServerLeaves, Ticking DEF Same
<1>5. CASE Pause
  BY <1>2, <1>5, ServerLeaves, Pausing DEF Same
<1>6. CASE Resume
  BY <1>2, <1>6, ServerLeaves, Resuming DEF Same
<1>7. ASSUME NEW i \in 1 .. MaxSaves, ServePut(i) PROVE MapsFit'
  <2>1. UNCHANGED <<cache, fetch>>
    BY <1>7, ServerLeaves
  <2>2. world'.life = world.life /\ world'.rev = world.rev /\ world'.map = world.map
    BY <1>7, PutServing
  <2> QED
    BY <1>2, <2>1, <2>2
<1>8. CASE ServeMap
  <2>1. fetch' = [pc |-> "answered", map |-> world.map, rev |-> world.rev, life |-> world.life]
    BY <1>8 DEF ServeMap
  <2> QED
    BY <1>1, <1>8, <2>1, ServerLeaves DEF MapsFit, OfAMap
<1>9. CASE Restart
  <2>1. fetch'.pc = "answered" => fetch' = fetch
    BY <1>9 DEF Restart
  <2> QED
    BY <1>2, <1>9, <2>1, Restarting, ServerLeaves
<1>10. CASE ReceiveMap
  <2>1. /\ UNCHANGED world /\ fetch.pc = "answered"
        /\ cache' = [map |-> fetch.map, rev |-> fetch.rev, life |-> fetch.life]
        /\ fetch' = [pc |-> "building", map |-> fetch.map]
    BY <1>10 DEF ReceiveMap, server
  <2> QED
    BY <2>1 DEF MapsFit, OfAMap
<1>11. CASE BuildMap \/ MapFails
  <2>1. UNCHANGED <<world, cache>> /\ fetch' = Idle
    BY <1>11 DEF BuildMap, MapFails, server
  <2> QED
    BY <2>1, MapsStay DEF Idle
<1>12. CASE PictureStep
  BY <1>12, PictureLeaves, MapsStay
<1>13. CASE Deliver \/ EditorStep
  BY <1>13, StoreChanges, MapsStay
<1>14. CASE UNCHANGED vars
  BY <1>14, MapsStay DEF vars, canvasVars
<1> QED
  BY <1>3, <1>4, <1>5, <1>6, <1>7, <1>8, <1>9, <1>10, <1>11, <1>12, <1>13, <1>14
     DEF Next, PictureStep, EditorStep

LEMMA SpriteKept ==
  ASSUME TypeOK, TypeOK', SpriteFits, [Next]_vars
  PROVE  SpriteFits'
<1>1. ASSUME UNCHANGED sprite, store'.agent.look = store.agent.look PROVE SpriteFits'
  BY <1>1 DEF SpriteFits
<1>2. store' \in Stores
  BY DEF TypeOK
<1>3. CASE PictureStep
  BY <1>3, PictureFits
<1>4. CASE DeliverSnapshot \/ DeliverMove
  BY <1>2, <1>4, Given, Synced DEF DeliverSnapshot, DeliverMove
<1>5. CASE DeliverTick \/ DeliverPause
  <2>1. /\ UNCHANGED sprite /\ store' = Applied(store, Head(inbox)) /\ Head(inbox) \in Messages
        /\ Head(inbox) = Tick \/ Head(inbox) = WorldPaused
    BY <1>5, Given DEF DeliverTick, DeliverPause, Set
  <2>2. store'.agent = store.agent
    BY <2>1, Handled, MessageTypes, Given
  <2> QED
    BY <1>1, <2>1, <2>2
<1>6. CASE EnterEdit \/ UpdateDraft
  <2>1. PICK l \in Layouts : Publish(l)
    BY <1>6, Drafting DEF EnterEdit, UpdateDraft
  <2>2. UNCHANGED sprite /\ store'.agent = store.agent
    BY <1>6, <2>1, Drafting DEF EnterEdit, UpdateDraft, Publish, Set
  <2> QED
    BY <1>1, <2>2
<1>7. CASE CancelEdit
  BY <1>2, <1>7, Given, Synced DEF CancelEdit
<1>8. ASSUME NEW i \in 1 .. MaxSaves, Save(i) \/ SaveFails(i) PROVE SpriteFits'
  BY <1>1, <1>8 DEF Save, SaveFails, Set
<1>9. ASSUME NEW i \in 1 .. MaxSaves, SaveAnswered(i) PROVE SpriteFits'
  BY <1>2, <1>9, Given, Synced DEF SaveAnswered
<1>10. ASSUME NEW i \in 1 .. MaxSaves, ServePut(i) PROVE SpriteFits'
  BY <1>1, <1>10, ServerLeaves
<1>11. CASE OthersEdit \/ SendTick \/ Pause \/ Resume \/ ServeMap \/ Restart
  BY <1>1, <1>11, ServerLeaves
<1>12. CASE ReceiveMap \/ BuildMap \/ MapFails
  BY <1>1, <1>12 DEF ReceiveMap, BuildMap, MapFails
<1>13. CASE UNCHANGED vars
  BY <1>1, <1>13 DEF vars
<1> QED
  BY <1>3, <1>4, <1>5, <1>6, <1>7, <1>8, <1>9, <1>10, <1>11, <1>12, <1>13 DEF Next, PictureStep, Deliver

-----------------------------------------------------------------------------
(* Snapshots, moves, pauses and drafts. *)

LEMMA NewsKeeps ==
  ASSUME TraceFits, Fresh(inbox', world'), PutsFit', UNCHANGED <<store, editor>>
  PROVE  TraceFits'
BY DEF TraceFits, Fresh, HeardFits, StoreFits, RunningFits

\* The world changes but for what is told of by messages and by snapshots alone.
LEMMA QuietKeeps ==
  ASSUME TraceFits, Quietly, InboxFits(inbox', world'), Same(world', world), world'.edits = world.edits,
         (world.running => world'.running) \/ ~ Free(inbox', Stops),
         UNCHANGED <<store, editor, puts, heard, stray>>
  PROVE  TraceFits'
<1>1. PutsFit'
  BY DEF TraceFits, PutsFit, Same
<1>2. CASE Fresh(inbox', world')
  BY <1>1, <1>2, NewsKeeps
<1>3. CASE ~ Fresh(inbox', world')
  <2>1. /\ Free(inbox', News) => Free(inbox, News)
        /\ Free(inbox', Moves) => Free(inbox, Moves) /\ world'.agent.place = world.agent.place
        /\ Free(inbox', Stops) => Free(inbox, Stops)
    BY <1>3 DEF Quietly
  <2>2. HeardFits'
    BY <2>1 DEF TraceFits, HeardFits, Same
  <2>3. StoreFits'
    BY <2>1 DEF TraceFits, StoreFits, Same
  <2>4. RunningFits'
    BY <2>1 DEF TraceFits, RunningFits
  <2> QED
    BY <1>1, <2>2, <2>3, <2>4 DEF TraceFits
<1> QED
  BY <1>2, <1>3

\* An edit makes every answer that is there an older one.
LEMMA OlderAnswers ==
  ASSUME TypeOK, PutsFit, world'.edits = world.edits + 1, NEW i \in 1 .. MaxSaves,
         puts[i].pc = "answered"
  PROVE  /\ puts[i].world.edits <= world'.edits /\ puts[i].world.edits # world'.edits
         /\ ~ puts[i].world.running
<1>1. puts[i].world.edits \in Nat /\ world.edits \in Nat
  BY Done, Given DEF Worlds
<1> QED
  BY <1>1 DEF PutsFit

LEMMA ServerKeepsTrace ==
  ASSUME TypeOK, CountsFit, TraceFits, LayoutsFit,
         \/ OthersEdit \/ SendTick \/ Pause \/ Resume \/ ServeMap \/ Restart
         \/ \E i \in 1 .. MaxSaves : ServePut(i)
  PROVE  TraceFits'
<1>1. InboxFits(inbox, world) /\ PutsFit
  BY DEF TraceFits
<1>2. CASE OthersEdit
  <2>1. PutsFit'
    BY <1>1, <1>2, OthersEditing, ServerLeaves, OlderAnswers DEF PutsFit
  <2> QED
    BY <1>2, <2>1, OthersEditing, ServerLeaves, NewsKeeps
<1>3. CASE SendTick
  BY <1>1, <1>3, Ticking, ServerLeaves, QuietKeeps DEF Told
<1>4. CASE Pause
  BY <1>1, <1>4, Pausing, ServerLeaves, QuietKeeps DEF Told
<1>5. CASE Resume
  BY <1>1, <1>5, Resuming, ServerLeaves, QuietKeeps DEF Told
<1>6. CASE ServeMap
  BY <1>6, ServerLeaves DEF TraceFits, HeardFits, PutsFit, StoreFits, RunningFits
<1>7. CASE Restart
  <2>1. PutsFit'
    BY <1>7, Restarting DEF PutsFit
  <2> QED
    BY <1>7, <2>1, Restarting, ServerLeaves, NewsKeeps
<1>8. ASSUME NEW i \in 1 .. MaxSaves, ServePut(i) PROVE TraceFits'
  <2>1. /\ world' \in Worlds /\ world'.edits = world.edits + 1 /\ ~ world'.running
        /\ Fresh(inbox', world') /\ puts'[i].pc = "answered" /\ puts'[i].world = world'
        /\ \A j \in 1 .. MaxSaves : j # i => puts'[j] = puts[j]
    BY <1>8, PutServing
  <2>2. world'.edits <= world'.edits /\ Same(world', world')
    BY <2>1, BrowserAssumption DEF Worlds, Same
  <2>3. ASSUME NEW j \in 1 .. MaxSaves, puts'[j].pc = "answered"
        PROVE  /\ puts'[j].world.edits <= world'.edits /\ ~ puts'[j].world.running
               /\ puts'[j].world.edits = world'.edits => Same(puts'[j].world, world')
    <3>1. CASE j = i
      BY <2>1, <2>2, <3>1
    <3>2. CASE j # i
      BY <1>1, <2>1, <2>3, <3>2, OlderAnswers
    <3> QED
      BY <3>1, <3>2
  <2>4. PutsFit'
    BY <2>3 DEF PutsFit
  <2>5. UNCHANGED <<store, editor>>
    BY <1>8, ServerLeaves
  <2> QED
    BY <2>1, <2>4, <2>5, NewsKeeps
<1> QED
  BY <1>2, <1>3, <1>4, <1>5, <1>6, <1>7, <1>8

LEMMA DeliverKeepsTrace ==
  ASSUME TypeOK, TraceFits, Deliver
  PROVE  TraceFits'
<1> DEFINE m == Head(inbox)
           s == Applied(store, m)
<1>1. /\ UNCHANGED <<world, puts>> /\ inbox # <<>> /\ inbox' = Tail(inbox) /\ store' = s
  BY DEF Deliver, DeliverSnapshot, DeliverMove, DeliverTick, DeliverPause, server, editorVars, Set
<1>2. InboxFits(inbox, world) /\ HeardFits /\ PutsFit /\ StoreFits /\ RunningFits
  BY DEF TraceFits
<1>3. /\ m \in Messages /\ InboxFits(inbox', world)
      /\ Free(inbox', News) => TellsNews(m, world) /\ (m.type \notin News => Free(inbox, News))
      /\ Free(inbox', Moves) => TellsMoves(m, world) /\ (m.type \notin Moves => Free(inbox, Moves))
      /\ Free(inbox', Stops) => TellsRuns(m, world) /\ (m.type \notin Stops => Free(inbox, Stops))
  BY <1>1, <1>2, Given, FirstHandled
<1>4. /\ m.type = "world_snapshot" => s = Shown(m.world) /\ m.world \in Worlds
      /\ m.type # "world_snapshot" =>
           s.layout = store.layout /\ s.agent.look = store.agent.look /\ s.rev = store.rev
      /\ m.type = "agent_moved" => s.agent.place = m.place /\ s.running = store.running
      /\ m.type \in {"tick", "world_paused"} => s.agent = store.agent
      /\ m.type = "tick" => s.running = TRUE
      /\ m.type = "world_paused" => s.running = FALSE
  <2>1. store \in Stores /\ m \in Messages
    BY <1>3, Given
  <2> HIDE DEF m
  <2>2. m.type = "world_snapshot" => m.world \in Worlds
    BY <2>1, MessageTypes
  <2> QED
    BY <2>1, <2>2, Handled
<1>5. PutsFit'
  BY <1>1, <1>2 DEF PutsFit
<1>6. editor \in Editors /\ editor.on \in BOOLEAN /\ editor.missed \in BOOLEAN
  BY Given DEF Editors
<1>7. CASE DeliverSnapshot
  <2>1. /\ m.type = "world_snapshot" /\ heard' = [edits |-> m.world.edits, agent |-> m.world.agent]
        /\ editor' = [editor EXCEPT !.stale = editor.on]
    BY <1>7 DEF DeliverSnapshot
  <2>2. editor'.on = editor.on /\ editor'.stale = editor.on
    BY <1>6, <2>1 DEF Editors
  <2>3. /\ store'.layout = m.world.layout /\ store'.agent = m.world.agent
        /\ store'.running = m.world.running /\ store'.rev = m.world.rev
        /\ heard'.edits = m.world.edits /\ heard'.agent = m.world.agent
    BY <1>1, <1>4, <2>1, ShownType
  <2> HIDE DEF m, s
  <2>4. /\ Free(inbox', News) => Same(m.world, world) /\ m.world.edits = world.edits
        /\ Free(inbox', Moves) => m.world.agent.place = world.agent.place
        /\ Free(inbox', Stops) => (m.world.running => world.running)
    BY <1>3, <2>1 DEF TellsNews, TellsMoves, TellsRuns, News, Moves, Stops, PlaceIn, Runs
  <2>5. HeardFits' /\ StoreFits' /\ RunningFits'
    BY <1>1, <1>6, <2>2, <2>3, <2>4 DEF HeardFits, StoreFits, RunningFits, Same
  <2> QED
    BY <1>1, <1>3, <1>5, <2>5 DEF TraceFits
<1>8. CASE DeliverMove
  <2> DEFINE a == [heard.agent EXCEPT !.place = m.place]
  <2>1. /\ m.type = "agent_moved" /\ UNCHANGED stray
        /\ heard' = [heard EXCEPT !.agent.place = m.place]
        /\ editor' = [editor EXCEPT !.missed = @ \/ editor.on]
    BY <1>8 DEF DeliverMove
  <2>2. /\ editor'.on = editor.on /\ editor'.stale = editor.stale /\ editor'.base = editor.base
        /\ editor.on => editor'.missed
    BY <1>6, <2>1 DEF Editors
  <2>3. heard \in [edits : 0 .. MaxEdits, agent : Agents] /\ m.place \in Places
    BY <1>3, <2>1, Given, MessageTypes
  <2>4. /\ heard' = [heard EXCEPT !.agent = a] /\ heard.agent \in Agents
        /\ a.place = m.place /\ a.look = heard.agent.look
    BY <2>1, <2>3, AgentTypes DEF Agents
  <2> HIDE DEF a
  <2>5. heard'.edits = heard.edits /\ heard'.agent = a
    BY <2>3, <2>4
  <2> HIDE DEF m, s
  <2>6. /\ Free(inbox', News) => Free(inbox, News)
        /\ Free(inbox', Moves) => m.place = world.agent.place
        /\ Free(inbox', Stops) => Free(inbox, Stops)
    BY <1>3, <2>1 DEF TellsMoves, News, Moves, Stops, PlaceIn
  <2>7. HeardFits'
    BY <1>1, <1>2, <2>4, <2>5, <2>6 DEF HeardFits
  <2>8. StoreFits'
    BY <1>1, <1>2, <1>4, <2>1, <2>2, <2>6 DEF StoreFits
  <2>9. RunningFits'
    BY <1>1, <1>2, <1>4, <2>1, <2>2, <2>6 DEF RunningFits
  <2> QED
    BY <1>1, <1>3, <1>5, <2>7, <2>8, <2>9 DEF TraceFits
<1>9. CASE DeliverTick
  <2>1. m.type = "tick" /\ UNCHANGED <<editor, heard, stray>>
    BY <1>9, MessageTypes DEF DeliverTick, editorVars, history
  <2> HIDE DEF m, s
  <2>2. /\ Free(inbox', News) => Free(inbox, News)
        /\ Free(inbox', Moves) => Free(inbox, Moves)
        /\ Free(inbox', Stops) => Free(inbox, Stops) /\ world.running
    BY <1>3, <2>1 DEF TellsRuns, News, Moves, Stops, Runs
  <2>3. HeardFits'
    BY <1>1, <1>2, <2>1, <2>2 DEF HeardFits
  <2>4. StoreFits'
    BY <1>1, <1>2, <1>4, <2>1, <2>2 DEF StoreFits
  <2>5. RunningFits'
    BY <1>1, <1>2, <1>4, <2>1, <2>2 DEF RunningFits
  <2> QED
    BY <1>1, <1>3, <1>5, <2>3, <2>4, <2>5 DEF TraceFits
<1>10. CASE DeliverPause
  <2>1. m.type = "world_paused" /\ UNCHANGED <<heard, stray>>
        /\ editor' = [editor EXCEPT !.missed = @ \/ editor.on]
    BY <1>10, MessageTypes DEF DeliverPause, history
  <2>2. /\ editor'.on = editor.on /\ editor'.stale = editor.stale /\ editor'.base = editor.base
        /\ editor.on => editor'.missed
    BY <1>6, <2>1 DEF Editors
  <2> HIDE DEF m, s
  <2>3. /\ Free(inbox', News) => Free(inbox, News)
        /\ Free(inbox', Moves) => Free(inbox, Moves)
    BY <1>3, <2>1 DEF News, Moves
  <2>4. HeardFits'
    BY <1>1, <1>2, <2>1, <2>3 DEF HeardFits
  <2>5. StoreFits'
    BY <1>1, <1>2, <1>4, <2>1, <2>2, <2>3 DEF StoreFits
  <2>6. RunningFits'
    BY <1>1, <1>2, <1>4, <2>1, <2>2 DEF RunningFits
  <2> QED
    BY <1>1, <1>3, <1>5, <2>4, <2>5, <2>6 DEF TraceFits
<1> QED
  BY <1>7, <1>8, <1>9, <1>10 DEF Deliver

LEMMA EditorKeepsTrace ==
  ASSUME TypeOK, TraceFits, EditorStep
  PROVE  TraceFits'
<1>1. InboxFits(inbox, world) /\ HeardFits /\ PutsFit /\ StoreFits /\ RunningFits
  BY DEF TraceFits
<1>2. UNCHANGED <<world, inbox, heard>>
  BY DEF EditorStep, EnterEdit, UpdateDraft, CancelEdit, Save, SaveAnswered, SaveFails, server, history
<1>3. InboxFits(inbox', world') /\ HeardFits'
  BY <1>1, <1>2 DEF HeardFits
<1>4. CASE EnterEdit
  <2>1. /\ UNCHANGED <<puts, stray>> /\ ~ editor.on
        /\ editor' = [on |-> TRUE, draft |-> store.layout, stale |-> FALSE, missed |-> FALSE, base |-> Base]
        /\ store' = [store EXCEPT !.layout = store.layout, !.running = FALSE]
    BY <1>4, OpenEditor DEF EnterEdit, Publish, Set, history
  <2>2. /\ store'.layout = store.layout /\ store'.running = FALSE /\ store'.agent = store.agent
        /\ store'.rev = store.rev
    BY <2>1, Drafting
  <2>3. /\ editor'.on = TRUE /\ editor'.base.layout = store.layout
        /\ editor'.base.agent = store.agent /\ editor'.base.running = store.running
    BY <2>1, Drafting
  <2>4. PutsFit'
    BY <1>1, <1>2, <2>1 DEF PutsFit
  <2>5. StoreFits' /\ RunningFits'
    BY <1>1, <1>2, <2>1, <2>2, <2>3 DEF StoreFits, RunningFits
  <2> QED
    BY <1>3, <2>4, <2>5 DEF TraceFits
<1>5. CASE UpdateDraft
  <2>1. PICK l \in Layouts : editor' = [editor EXCEPT !.draft = l] /\ Publish(l)
    BY <1>5 DEF UpdateDraft
  <2>2. UNCHANGED <<puts, stray>> /\ editor.on
    BY <1>5 DEF UpdateDraft, history
  <2>3. store'.running = FALSE /\ store'.agent = store.agent /\ store'.rev = store.rev
    BY <2>1, Drafting DEF Publish, Set
  <2>4. /\ editor'.on = editor.on /\ editor'.stale = editor.stale /\ editor'.missed = editor.missed
        /\ editor'.base = editor.base
    BY <2>1, Given DEF Editors
  <2>5. PutsFit'
    BY <1>1, <1>2, <2>2 DEF PutsFit
  <2>6. StoreFits' /\ RunningFits'
    BY <1>1, <1>2, <2>2, <2>3, <2>4 DEF StoreFits, RunningFits
  <2> QED
    BY <1>3, <2>5, <2>6 DEF TraceFits
<1>6. CASE CancelEdit
  <2>1. /\ UNCHANGED puts /\ editor.on /\ editor' = NotEditing
        /\ store' = [store EXCEPT !.layout = editor.base.layout, !.agent = editor.base.agent,
                                  !.running = editor.base.running]
        /\ stray' = (stray \/ editor.stale \/ editor.missed)
    BY <1>6 DEF CancelEdit, Set
  <2>2. /\ store'.layout = editor.base.layout /\ store'.agent = editor.base.agent
        /\ store'.running = editor.base.running /\ store'.rev = store.rev
    BY <2>1, Drafting
  <2>3. editor'.on = FALSE
    BY <2>1, Done
  <2>4. PutsFit'
    BY <1>1, <1>2, <2>1 DEF PutsFit
  <2>5. ~ stray' => ~ stray /\ ~ editor.stale /\ ~ editor.missed
    BY <2>1
  <2>6. StoreFits' /\ RunningFits'
    BY <1>1, <1>2, <2>1, <2>2, <2>3, <2>5 DEF StoreFits, RunningFits
  <2> QED
    BY <1>3, <2>4, <2>6 DEF TraceFits
<1>7. ASSUME NEW i \in 1 .. MaxSaves, Save(i) \/ SaveFails(i) PROVE TraceFits'
  <2> DEFINE asked == [pc |-> "asked", layout |-> editor.draft]
  <2>1. /\ UNCHANGED <<editor, stray>> /\ store' = store
        /\ (Save(i) /\ editor.on /\ puts' = [puts EXCEPT ![i] = asked]) \/ puts' = [puts EXCEPT ![i] = Idle]
    BY <1>7 DEF Save, SaveFails, Set, history
  <2>2. asked.pc = "asked" /\ (editor.on => asked \in Puts)
    BY OpenEditor DEF Puts
  <2> HIDE DEF asked
  <2>3. /\ puts'[i].pc # "answered"
        /\ \A j \in 1 .. MaxSaves : j # i => puts'[j] = puts[j]
    BY <2>1, <2>2, Done
  <2>4. PutsFit'
    BY <1>1, <1>2, <2>3 DEF PutsFit
  <2>5. StoreFits' /\ RunningFits'
    BY <1>1, <1>2, <2>1 DEF StoreFits, RunningFits
  <2> QED
    BY <1>3, <2>4, <2>5 DEF TraceFits
<1>8. ASSUME NEW i \in 1 .. MaxSaves, SaveAnswered(i) PROVE TraceFits'
  <2> DEFINE w == puts[i].world
  <2>1. /\ puts[i].pc = "answered" /\ store' = Shown(w) /\ puts' = [puts EXCEPT ![i] = Idle]
        /\ editor' = NotEditing /\ stray' = Old(w)
    BY <1>8 DEF SaveAnswered, Set
  <2>2. w \in Worlds /\ editor'.on = FALSE
    BY <2>1, Done
  <2>3. /\ store'.layout = w.layout /\ store'.agent = w.agent /\ store'.running = w.running
        /\ store'.rev = w.rev
    BY <2>1, <2>2, ShownType
  <2>4. /\ puts'[i].pc # "answered"
        /\ \A j \in 1 .. MaxSaves : j # i => puts'[j] = puts[j]
    BY <2>1, Done
  <2>5. PutsFit'
    BY <1>1, <1>2, <2>4 DEF PutsFit
  <2>6. w.edits <= world.edits /\ ~ w.running /\ (w.edits = world.edits => Same(w, world))
    BY <1>1, <2>1 DEF PutsFit
  <2>7. w.edits \in Nat /\ world.edits \in Nat
    BY <2>2, Given DEF Worlds
  <2>8. ~ stray' /\ heard.edits = world.edits => Same(w, world) /\ w.agent = heard.agent
    <3>1. ~ stray' => ~ Old(w)
      BY <2>1, Zenon
    <3>2. ~ Old(w) /\ heard.edits = world.edits => w.edits = world.edits /\ w.agent = heard.agent
      BY <2>6, <2>7 DEF Old
    <3> QED
      BY <2>6, <3>1, <3>2
  <2> HIDE DEF w
  <2>9. Free(inbox, Moves) => Free(inbox, News)
    BY DEF Free, Moves, News
  <2>10. StoreFits'
    BY <1>1, <1>2, <2>2, <2>3, <2>8, <2>9 DEF StoreFits, HeardFits, Same
  <2>11. RunningFits'
    BY <1>2, <2>2, <2>3, <2>6 DEF RunningFits
  <2> QED
    BY <1>3, <2>5, <2>10, <2>11 DEF TraceFits
<1> QED
  BY <1>4, <1>5, <1>6, <1>7, <1>8 DEF EditorStep

LEMMA TraceKept ==
  ASSUME TypeOK, CountsFit, TraceFits, LayoutsFit, [Next]_vars
  PROVE  TraceFits'
<1>1. CASE ReceiveMap \/ BuildMap \/ MapFails \/ PictureStep \/ UNCHANGED vars
  <2>1. UNCHANGED <<world, inbox, store, editor, puts, heard, stray>>
    BY <1>1, PictureLeaves DEF ReceiveMap, BuildMap, MapFails, vars, server, editorVars, history
  <2> QED
    BY <2>1 DEF TraceFits, HeardFits, PutsFit, StoreFits, RunningFits
<1> QED
  BY <1>1, ServerKeepsTrace, DeliverKeepsTrace, EditorKeepsTrace DEF Next, PictureStep, EditorStep

-----------------------------------------------------------------------------
(* Layouts. *)

\* A message of layouts the server has had, or of none.
LEMMA ServedSnapshot ==
  ASSUME NEW m \in ServedOnly(served), m.type = "world_snapshot"
  PROVE  m.world.layout \in served
BY DEF ServedOnly

LEMMA LayoutsKept ==
  ASSUME TypeOK, CountsFit, LayoutsFit, InboxFits(inbox, world), [Next]_vars
  PROVE  LayoutsFit'
<1>1. /\ Seed.layout \in served /\ world.layout \in served
      /\ inbox \in Seq(ServedOnly(served))
      /\ \A i \in 1 .. MaxSaves : puts[i].pc = "answered" => puts[i].world.layout \in served
      /\ editor.on => editor.base.layout \in served
      /\ ~ editor.on => store.layout \in served
  BY DEF LayoutsFit
<1>2. ASSUME UNCHANGED <<store, editor>>, served \subseteq served', world'.layout \in served',
             inbox' \in Seq(ServedOnly(served')),
             \A i \in 1 .. MaxSaves : puts'[i].pc = "answered" =>
               puts'[i] = puts[i] \/ puts'[i].world.layout \in served'
      PROVE  LayoutsFit'
  BY <1>1, <1>2 DEF LayoutsFit
<1>3. ASSUME UNCHANGED <<world, served>>, inbox' \in Seq(ServedOnly(served)),
             \A i \in 1 .. MaxSaves : puts'[i].pc = "answered" => puts'[i] = puts[i],
             editor'.on => editor'.base.layout \in served,
             ~ editor'.on => store'.layout \in served
      PROVE  LayoutsFit'
  BY <1>1, <1>3 DEF LayoutsFit
<1>4. CASE OthersEdit
  BY <1>2, <1>4, OthersEditing, ServerLeaves
<1>5. CASE SendTick
  BY <1>2, <1>5, Ticking, ServerLeaves
<1>6. CASE Pause
  BY <1>2, <1>6, Pausing, ServerLeaves
<1>7. CASE Resume
  BY <1>2, <1>7, Resuming, ServerLeaves
<1>8. CASE Restart
  BY <1>2, <1>8, Restarting, ServerLeaves
<1>9. ASSUME NEW i \in 1 .. MaxSaves, ServePut(i) PROVE LayoutsFit'
  <2>1. UNCHANGED <<store, editor>>
    BY <1>9, ServerLeaves
  <2>2. /\ served \subseteq served' /\ world'.layout \in served' /\ inbox' \in Seq(ServedOnly(served'))
        /\ puts'[i].world = world' /\ \A j \in 1 .. MaxSaves : j # i => puts'[j] = puts[j]
    BY <1>9, PutServing
  <2> QED
    BY <1>2, <2>1, <2>2
<1>10. CASE ServeMap
  BY <1>1, <1>3, <1>10, ServerLeaves
<1>11. CASE ReceiveMap \/ BuildMap \/ MapFails \/ PictureStep \/ UNCHANGED vars
  <2>1. UNCHANGED <<world, served, inbox, store, editor, puts>>
    BY <1>11, PictureLeaves DEF ReceiveMap, BuildMap, MapFails, vars, server, editorVars
  <2> QED
    BY <1>1, <1>3, <2>1
<1>12. CASE Deliver
  <2> DEFINE m == Head(inbox)
             s == Applied(store, m)
  <2>1. /\ UNCHANGED <<world, served, puts>> /\ inbox # <<>> /\ inbox' = Tail(inbox) /\ store' = s
    BY <1>12 DEF Deliver, DeliverSnapshot, DeliverMove, DeliverTick, DeliverPause, server, editorVars, Set, history
  <2>2. m \in ServedOnly(served) /\ inbox' \in Seq(ServedOnly(served)) /\ m \in Messages
    BY <1>1, <2>1, Given
  <2>3. store \in Stores
    BY Given
  <2>4. editor'.on = editor.on /\ editor'.base = editor.base
    BY <1>12, Given DEF Deliver, DeliverSnapshot, DeliverMove, DeliverTick, DeliverPause, editorVars, Editors
  <2> HIDE DEF m
  <2>5. s.layout = store.layout \/ s.layout \in served
    <3>1. CASE m.type = "world_snapshot"
      <4>1. m.world \in Worlds /\ m.world.layout \in served
        BY <2>2, <3>1, MessageTypes, ServedSnapshot
      <4>2. s = Shown(m.world)
        BY <2>2, <2>3, <3>1, Handled
      <4> HIDE DEF s
      <4> QED
        BY <4>1, <4>2, ShownType
    <3>2. CASE m.type # "world_snapshot"
      BY <2>2, <2>3, <3>2, Handled
    <3> QED
      BY <3>1, <3>2
  <2> HIDE DEF s
  <2> QED
    BY <1>1, <1>3, <2>1, <2>2, <2>4, <2>5
<1>13. CASE EnterEdit
  <2>1. /\ UNCHANGED <<world, served, inbox, puts>> /\ ~ editor.on
        /\ editor' = [on |-> TRUE, draft |-> store.layout, stale |-> FALSE, missed |-> FALSE, base |-> Base]
    BY <1>13, OpenEditor DEF EnterEdit, server
  <2>2. editor'.on = TRUE /\ editor'.base.layout = store.layout
    BY <2>1, Drafting
  <2> QED
    BY <1>1, <1>3, <2>1, <2>2
<1>14. CASE UpdateDraft
  <2>1. UNCHANGED <<world, served, inbox, puts>> /\ editor.on /\ \E l \in Layouts : editor' = [editor EXCEPT !.draft = l]
    BY <1>14 DEF UpdateDraft, server
  <2>2. editor'.on = editor.on /\ editor'.base = editor.base
    BY <2>1, Given DEF Editors
  <2> QED
    BY <1>1, <1>3, <2>1, <2>2
<1>15. CASE CancelEdit
  <2>1. /\ UNCHANGED <<world, served, inbox, puts>> /\ editor.on /\ editor' = NotEditing
        /\ store' = [store EXCEPT !.layout = editor.base.layout, !.agent = editor.base.agent,
                                  !.running = editor.base.running]
    BY <1>15 DEF CancelEdit, Set, server
  <2>2. store'.layout = editor.base.layout /\ editor'.on = FALSE
    BY <2>1, Drafting, Done
  <2> QED
    BY <1>1, <1>3, <2>1, <2>2
<1>16. ASSUME NEW i \in 1 .. MaxSaves, Save(i) \/ SaveFails(i) PROVE LayoutsFit'
  <2> DEFINE asked == [pc |-> "asked", layout |-> editor.draft]
  <2>1. /\ UNCHANGED <<world, served, inbox, editor>> /\ store' = store
        /\ (Save(i) /\ editor.on /\ puts' = [puts EXCEPT ![i] = asked]) \/ puts' = [puts EXCEPT ![i] = Idle]
    BY <1>16 DEF Save, SaveFails, Set, server
  <2>2. asked.pc = "asked" /\ (editor.on => asked \in Puts)
    BY OpenEditor DEF Puts
  <2> HIDE DEF asked
  <2>3. /\ puts'[i].pc # "answered"
        /\ \A j \in 1 .. MaxSaves : j # i => puts'[j] = puts[j]
    BY <2>1, <2>2, Done
  <2> QED
    BY <1>1, <1>3, <2>1, <2>3
<1>17. ASSUME NEW i \in 1 .. MaxSaves, SaveAnswered(i) PROVE LayoutsFit'
  <2> DEFINE w == puts[i].world
  <2>1. /\ UNCHANGED <<world, served, inbox>> /\ puts[i].pc = "answered" /\ store' = Shown(w)
        /\ puts' = [puts EXCEPT ![i] = Idle] /\ editor' = NotEditing
    BY <1>17 DEF SaveAnswered, Set, server
  <2>2. w \in Worlds /\ editor'.on = FALSE
    BY <2>1, Done
  <2>3. store'.layout = w.layout /\ w.layout \in served
    BY <1>1, <2>1, <2>2, ShownType
  <2>4. /\ puts'[i].pc # "answered"
        /\ \A j \in 1 .. MaxSaves : j # i => puts'[j] = puts[j]
    BY <2>1, Done
  <2> HIDE DEF w
  <2> QED
    BY <1>1, <1>3, <2>1, <2>2, <2>3, <2>4
<1> QED
  BY <1>4, <1>5, <1>6, <1>7, <1>8, <1>9, <1>10, <1>11, <1>12, <1>13, <1>14, <1>15, <1>16, <1>17
     DEF Next, PictureStep

-----------------------------------------------------------------------------
(* The invariant and the theorems. *)

LEMMA BInit == Init => BInv
<1> SUFFICES ASSUME Init PROVE BInv
  OBVIOUS
<1>1. TypeOK /\ CountsFit
  BY TypeInit
<1>2. /\ inbox = <<>> /\ editor = NotEditing /\ served = {Seed.layout} /\ stray = FALSE
      /\ puts = [i \in 1 .. MaxSaves |-> Idle]
      /\ fetch.pc # "answered"
      /\ cache = None \/ cache = [map |-> Seed.map, rev |-> 1, life |-> 0]
  BY DEF Init, Idle
<1>3. MapsFit
  <2>1. cache # None => OfAMap(cache, world)
    BY <1>2, FirstWorld DEF OfAMap
  <2> QED
    BY <1>2, <2>1 DEF MapsFit
<1>4. Len(inbox) = 0 /\ editor.on = FALSE /\ \A i \in 1 .. MaxSaves : puts[i].pc # "answered"
  BY <1>2 DEF NotEditing, Idle
<1>5. /\ store.layout = world.layout /\ store.agent = world.agent /\ store.rev = world.rev
      /\ store.running = world.running /\ heard.edits = world.edits /\ heard.agent = world.agent
      /\ world.layout = Seed.layout
  BY FirstWorld, ShownType
<1>6. TraceFits
  <2>1. InboxFits(inbox, world)
    BY <1>4 DEF InboxFits
  <2> QED
    BY <1>4, <1>5, <2>1 DEF TraceFits, HeardFits, PutsFit, StoreFits, RunningFits
<1>7. LayoutsFit
  BY <1>2, <1>4, <1>5 DEF LayoutsFit
<1> QED
  BY <1>1, <1>3, <1>6, <1>7, FirstWorld DEF BInv

LEMMA BNext == BInv /\ [Next]_vars => BInv'
<1> SUFFICES ASSUME BInv, [Next]_vars PROVE BInv'
  OBVIOUS
<1>1. TypeOK /\ CountsFit /\ MapsFit /\ SpriteFits /\ TraceFits /\ LayoutsFit /\ InboxFits(inbox, world)
  BY DEF BInv, TraceFits
<1>2. TypeOK' /\ CountsFit'
  BY <1>1, TypeKept
<1> QED
  BY <1>1, <1>2, MapsKept, SpriteKept, TraceKept, LayoutsKept DEF BInv

\* The whole invariant: revisions and lives count no faster than edits and faults, maps
\* held are maps that were, the visual is what its key says or on its way to it, what is
\* under way tells of the world in the end, and no draft leaks.
THEOREM BInvHolds == Spec => []BInv
BY BInit, BNext, PTL DEF Spec

\* Every variable keeps its type, the counters their bounds, whatever crosses.
THEOREM TypeCorrect == Spec => []TypeOK
<1>1. BInv => TypeOK
  BY DEF BInv
<1> QED
  BY <1>1, BInvHolds, PTL

\* In one life of the server a revision names one map: what the browser holds for the
\* current one is the current map (OfficeCanvas.tsx:753-765).
THEOREM RevisionsNameMaps == Spec => []CacheIsOneMap
<1>1. BInv => CacheIsOneMap
  BY DEF BInv, MapsFit, OfAMap, CacheIsOneMap
<1> QED
  BY <1>1, BInvHolds, PTL

\* Once the editor is closed and nothing is under way the store shows the world, unless
\* an older state was put back since the last snapshot (LayoutEditorPanel.tsx:449-462).
THEOREM NoTraceStays == Spec => []EditorLeavesNoTrace
<1>1. BInv => EditorLeavesNoTrace
  <2> SUFFICES ASSUME BInv, Drained, ~ editor.on, ~ stray
               PROVE  /\ store = [Shown(world) EXCEPT !.running = store.running]
                      /\ store.running => world.running
    BY DEF EditorLeavesNoTrace
  <2>1. TypeOK /\ StoreFits /\ RunningFits
    BY DEF BInv, TraceFits
  <2>2. Free(inbox, News) /\ Free(inbox, Moves) /\ Free(inbox, Stops)
    <3>1. inbox = <<>> /\ Len(<<>>) = 0
      BY DEF Drained
    <3> QED
      BY <3>1 DEF Free
  <2>3. /\ store.agent.look = world.agent.look /\ store.rev = world.rev
        /\ store.layout = world.layout /\ store.agent.place = world.agent.place
        /\ store.running => world.running
    BY <2>1, <2>2 DEF StoreFits, RunningFits
  <2>4. store \in Stores /\ world \in Worlds
    BY <2>1, Given
  <2>5. store.agent = world.agent
    BY <2>3, <2>4 DEF Stores, Worlds, Agents
  <2>6. store = [Shown(world) EXCEPT !.running = store.running]
    BY <2>3, <2>4, <2>5 DEF Shown, Stores, Worlds
  <2> QED
    BY <2>3, <2>6
<1> QED
  BY <1>1, BInvHolds, PTL

\* Without an open draft the floor plan is one the server has had, whatever drafts,
\* saves, snapshots and restarts crossed (LayoutEditorPanel.tsx:449-462, 768-862).
THEOREM DraftsAlwaysPrivate == Spec => []DraftsStayPrivate
<1>1. BInv => DraftsStayPrivate
  BY DEF BInv, LayoutsFit, DraftsStayPrivate
<1> QED
  BY <1>1, BInvHolds, PTL

\* Once no change of textures is under way that overlapped another, the agent wears the
\* picture of its key or, when there is none, the sheet, whatever failed and whenever
\* the manifest came (OfficeCanvas.tsx:836-958).
THEOREM LooksAlwaysSettle == Spec => []LooksSettle
<1>1. BInv => LooksSettle
  <2> SUFFICES ASSUME BInv, sprite # None, sprite.swaps = {}, ~ sprite.overlap
               PROVE  /\ sprite.shown = Worn(sprite)
                      /\ sprite.manifest => sprite.pictures[sprite.key] # "none"
                      /\ sprite.retry \/ sprite.key = store.agent.look
    BY DEF LooksSettle
  <2>1. Keyed(sprite) /\ Settles(sprite) /\ (sprite.retry \/ sprite.key = store.agent.look)
    BY DEF BInv, SpriteFits, VisualFits
  <2>2. sprite.shown = WornAs(sprite, sprite.key)
    BY <2>1 DEF Settles
  <2> QED
    BY <2>1, <2>2 DEF Keyed, WornAs, Worn
<1> QED
  BY <1>1, BInvHolds, PTL
=============================================================================
