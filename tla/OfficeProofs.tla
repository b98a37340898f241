----------------------------- MODULE OfficeProofs -----------------------------
(***************************************************************************)
(* What visitors see of World: theorems that it implements Office, that    *)
(* the floor is cleared only for everyone at once, and that a client which *)
(* applies every event is never behind.                                    *)
(***************************************************************************)
EXTENDS WorldProofs

-----------------------------------------------------------------------------
(* The floor is cleared for everyone or for nobody. *)

\* Whoever gets a turn to enter is out of the office, hence not sitting.
LEMMA EntrantIsOut ==
  ASSUME IInv, NEW a \in Agent, Turn("spawn", a)
  PROVE  ~ spawned[a] /\ status[a] = "commuting" /\ occupied = {pos[b] : b \in OnFloor}
<1>1. phase = "spawn" /\ ~ spawned[a]
  BY DEF Turn, IInv, TodoAhead
<1> QED
  BY <1>1 DEF IInv, NobodyVanishes, OccupiedExact

\* Entering and walking leave everyone on the floor and everyone seated.
LEMMA TurnsClearNobody ==
  ASSUME IInv, NEW a \in Agent, Enter(a) \/ EnterStranded(a) \/ Advance(a)
  PROVE  \A b \in Agent : /\ spawned[b] => spawned'[b]
                          /\ status[b] = "seated" => status'[b] = "seated"
<1>1. CASE Enter(a) \/ EnterStranded(a)
  <2>1. PICK newStatus : /\ spawned' = [spawned EXCEPT ![a] = TRUE]
                         /\ status' = [status EXCEPT ![a] = newStatus]
    BY <1>1 DEF Enter, EnterStranded, EnterAt
  <2>2. status[a] = "commuting"
    BY <1>1, EntrantIsOut DEF Enter, EnterStranded
  <2> QED
    BY <2>1, <2>2 DEF IInv, TypeOK
<1>2. CASE Advance(a)
  <2>1. PICK newStatus : status' = [status EXCEPT ![a] = newStatus]
    BY <1>2, AdvanceSteps
  <2>2. status[a] = "walking" /\ spawned' = spawned
    BY <1>2, MoverWalks DEF Advance
  <2> QED
    BY <2>1, <2>2 DEF IInv, TypeOK
<1> QED
  BY <1>1, <1>2

\* The steps of the tick that are nobody's step leave the floor as it is, and
\* so do time control and renaming.
StandStill ==
  \/ BeginTick \/ StartMoves \/ EndTick
  \/ \E a \in Agent : WaitOutside(a) \/ StayPut(a) \/ Wait(a) \/ Reroute(a) \/ BoxedIn(a)
  \/ Pause \/ Resume
  \/ \E s \in Speeds : SetSpeed(s)
  \/ \E a \in Agent, n \in Names : PatchAgent(a, n)

LEMMA StandStillMovesNobody ==
  ASSUME StandStill
  PROVE  UNCHANGED <<spawned, status, pos, chair, grid>>
BY DEF StandStill, BeginTick, StartMoves, EndTick, WaitOutside, StayPut, Wait, Reroute, BoxedIn,
   Pause, Resume, SetSpeed, PatchAgent, placeVars, rosterVars, walkVars

\* Every edit of map or layout restarts the day.
Refurbish ==
  \/ \E m \in Maps : ReplaceMap(m)
  \/ \E l \in Layouts : ReplaceLayout(l)
  \/ \E m \in Maps, l \in Layouts : ReplaceMapAndLayout(m, l)

LEMMA RefurbishRestarts == Refurbish => ResetToDayStart
BY DEF Refurbish, ReplaceMap, ReplaceLayout, ReplaceMapAndLayout

\* The steps of the world by what they do to the floor.
LEMMA StepKinds ==
  ASSUME [Next]_vars
  PROVE  \/ StandStill
         \/ \E a \in Agent : Enter(a) \/ EnterStranded(a) \/ Advance(a)
         \/ Refurbish
         \/ UNCHANGED vars
BY DEF Next, TickStep, UserStep, StandStill, Refurbish

\* No step takes anyone off the floor or off a chair, but the restart of a day
\* that takes everyone.
LEMMA StepSendsOutTogether ==
  ASSUME IInv, [Next]_vars
  PROVE  SentOutTogether \/ UNCHANGED vars
<1>1. CASE StandStill
  BY <1>1, StandStillMovesNobody DEF SentOutTogether
<1>2. CASE \E a \in Agent : Enter(a) \/ EnterStranded(a) \/ Advance(a)
  BY <1>2, TurnsClearNobody DEF SentOutTogether
<1>3. CASE Refurbish
  BY <1>3, RefurbishRestarts DEF ResetToDayStart, SentOutTogether
<1> QED
  BY <1>1, <1>2, <1>3, StepKinds

\* Who left the door stays in the office, and who sits stays seated, until an
\* edit restarts the day: for everyone, paused and at the hour of kick-off.
THEOREM FloorClearsTogether == Spec => FloorClearsOnlyByReset
<1>1. IInv /\ [Next]_vars => [SentOutTogether]_vars
  BY StepSendsOutTogether
<1> QED
  BY <1>1, IInvHolds, PTL DEF Spec, FloorClearsOnlyByReset

-----------------------------------------------------------------------------
(* The abstract office. *)

place  == [a \in OnFloor |-> pos[a]]
seated == {a \in Agent : status[a] = "seated"}

visible == <<place, seated, chair, Floor(grid)>>

\* Whoever enters comes in: the door tile taken was nobody's.
LEMMA EnteringIsComingIn ==
  ASSUME IInv, NEW a \in Agent, Enter(a) \/ EnterStranded(a)
  PROVE  View!ComeIn(a)
<1>1. ~ spawned[a] /\ status[a] = "commuting" /\ occupied = {pos[b] : b \in OnFloor}
  BY EntrantIsOut DEF Enter, EnterStranded
<1>2. PICK door \in FreeDoors, newStatus \in {"walking", "stuck_unreachable"} :
        EnterAt(a, door, newStatus)
  BY DEF Enter, EnterStranded
<1>3. /\ spawned' = [spawned EXCEPT ![a] = TRUE] /\ pos' = [pos EXCEPT ![a] = door]
      /\ status' = [status EXCEPT ![a] = newStatus]
      /\ chair' = chair /\ grid' = grid /\ door \notin occupied
  BY <1>2 DEF EnterAt, FreeDoors, placeVars, rosterVars
<1>4. OnFloor' = OnFloor \cup {a} /\ a \notin OnFloor
  BY <1>1, <1>3 DEF OnFloor, IInv, TypeOK
<1>5. pos'[a] = door /\ \A b \in OnFloor : pos'[b] = pos[b]
  BY <1>3, <1>4 DEF OnFloor, IInv, TypeOK
<1>7. seated' = seated
  BY <1>1, <1>3 DEF seated, IInv, TypeOK
<1> HIDE DEF seated
<1> QED
  BY <1>1, <1>3, <1>4, <1>5, <1>7
  DEF View!ComeIn, View!Inside, View!Taken, View!OthersStay, seated

\* Whoever advances walks to a neighbour tile that is nobody's, and sits down
\* nowhere but on the own chair.
LEMMA AdvancingIsWalking ==
  ASSUME IInv, NEW a \in Agent, Advance(a)
  PROVE  View!Walk(a)
<1> DEFINE next == Head(path[a])
           rest == Tail(path[a])
           now  == IF rest = <<>> THEN "seated" ELSE "walking"
<1>1. /\ next \notin occupied /\ next \in Neighbors(pos[a])
      /\ ~ Blocked(grid, next)
      /\ rest = <<>> => next = chair[a]
      /\ pos' = [pos EXCEPT ![a] = next] /\ status' = [status EXCEPT ![a] = now]
  BY AdvanceSteps
<1>2. /\ status[a] = "walking" /\ spawned[a] /\ occupied = {pos[b] : b \in OnFloor}
  BY MoverWalks DEF Advance
<1>3. spawned' = spawned /\ chair' = chair /\ grid' = grid
  BY DEF Advance, placeVars, rosterVars
<1> HIDE DEF next, rest
<1>4. OnFloor' = OnFloor /\ a \in OnFloor
  BY <1>2, <1>3 DEF OnFloor
<1>5. pos'[a] = next /\ \A b \in OnFloor \ {a} : pos'[b] = pos[b]
  BY <1>1, <1>4 DEF OnFloor, IInv, TypeOK
<1>6. next \in Floor(grid)
  BY <1>1 DEF Floor, Blocked
<1>7. \/ seated' = seated
      \/ next = chair[a] /\ seated' = seated \cup {a}
  BY <1>1, <1>2 DEF seated, IInv, TypeOK
<1>8. a \notin seated
  BY <1>2 DEF seated
<1> QED
  BY <1>1, <1>2, <1>3, <1>4, <1>5, <1>6, <1>7, <1>8
  DEF View!Walk, View!Inside, View!Taken, View!OthersStay, seated

\* A restarted day finds the office empty.
LEMMA RestartEmptiesOffice == ResetToDayStart => View!Refurnish
BY DEF ResetToDayStart, View!Refurnish, OnFloor

\* Every step of the world is one of the office or nothing visitors see.
LEMMA StepIsVisible ==
  ASSUME IInv, [Next]_vars
  PROVE  View!Next \/ UNCHANGED visible
<1>1. DOMAIN chair = Agent
  BY DEF IInv, TypeOK
<1>2. CASE StandStill
  BY <1>2, StandStillMovesNobody DEF visible, place, seated, OnFloor
<1>3. CASE \E a \in Agent : Enter(a) \/ EnterStranded(a) \/ Advance(a)
  BY <1>1, <1>3, EnteringIsComingIn, AdvancingIsWalking DEF View!Next
<1>4. CASE Refurbish
  BY <1>4, RefurbishRestarts, RestartEmptiesOffice DEF View!Next
<1>5. CASE UNCHANGED vars
  BY <1>5 DEF vars, walkVars, placeVars, rosterVars, visible, place, seated, OnFloor
<1> QED
  BY <1>2, <1>3, <1>4, <1>5, StepKinds

\* The resident world is an office as Office describes it: whatever the tick
\* queues, delays or reroutes and whatever users edit, visitors see people come
\* in, walk tile by tile and sit down on their own chairs.
THEOREM WorldIsAnOffice == Spec => IsAnOffice
<1>1. Init => View!Init
  BY DEF Init, View!Init, View!Inside, OnFloor
<1>2. IInv /\ [Next]_vars => [View!Next]_visible
  BY StepIsVisible
<1> QED
  BY <1>1, <1>2, IInvHolds, PTL DEF Spec, IsAnOffice, View!Spec, visible, place, seated

-----------------------------------------------------------------------------
(* The client that applies every event. *)

\* Also in the middle of a tick the events sent so far tell the whole truth.
ClientKnows ==
  \A a \in Agent : /\ shown[a].status = status[a]
                   /\ status[a] \in {"walking", "seated"} => shown[a].pos = pos[a]

\* Entering is told with the tile, except by those stranded at the door.
LEMMA EnteringIsTold ==
  ASSUME IInv, ClientKnows, NEW a \in Agent, Enter(a) \/ EnterStranded(a)
  PROVE  ClientKnows'
<1>1. PICK door \in FreeDoors, newStatus \in {"walking", "stuck_unreachable"} :
        /\ EnterAt(a, door, newStatus)
        /\ \/ shown' = [shown EXCEPT ![a] = [status |-> newStatus, pos |-> door]]
           \/ /\ newStatus = "stuck_unreachable"
              /\ shown' = [shown EXCEPT ![a].status = newStatus]
  BY DEF Enter, EnterStranded
<1>2. status' = [status EXCEPT ![a] = newStatus] /\ pos' = [pos EXCEPT ![a] = door]
  BY <1>1 DEF EnterAt
<1> QED
  BY <1>1, <1>2 DEF IInv, TypeOK, ClientKnows

\* A step is told with the tile, and the last one with the sitting down.
LEMMA AdvancingIsTold ==
  ASSUME IInv, ClientKnows, NEW a \in Agent, Advance(a)
  PROVE  ClientKnows'
<1> DEFINE next == Head(path[a])
           now  == IF Tail(path[a]) = <<>> THEN "seated" ELSE "walking"
<1>1. /\ pos' = [pos EXCEPT ![a] = next] /\ status' = [status EXCEPT ![a] = now]
      /\ Tail(path[a]) = <<>> => next = chair[a]
  BY AdvanceSteps
<1>2. status[a] = "walking" /\ PathNow(a) = path[a]
  BY MoverWalks, PathIsKept DEF Advance
<1>3. shown' = [shown EXCEPT ![a] = [status |-> IF now = "seated" THEN now ELSE @.status,
                                     pos |-> next]]
  BY <1>1, <1>2 DEF Advance
<1> HIDE DEF next, now
<1>4. shown[a].status = "walking"
  BY <1>2 DEF ClientKnows
<1>5. now \in {"seated", "walking"}
  BY DEF now
<1> QED
  BY <1>1, <1>3, <1>4, <1>5 DEF IInv, TypeOK, ClientKnows

\* Every step tells what it changes; edits send everything.
LEMMA StepIsTold ==
  ASSUME IInv, ClientKnows, [Next]_vars
  PROVE  ClientKnows'
<1>1. ASSUME NEW a \in Agent, Enter(a) \/ EnterStranded(a) \/ Advance(a)
      PROVE  ClientKnows'
  BY <1>1, EnteringIsTold, AdvancingIsTold
<1>2. CASE UNCHANGED <<status, pos, shown>>
  BY <1>2 DEF ClientKnows
<1>3. CASE \E a \in Agent : WaitOutside(a) \/ StayPut(a) \/ Wait(a) \/ Reroute(a) \/ BoxedIn(a)
  BY <1>2, <1>3 DEF WaitOutside, StayPut, Wait, Reroute, BoxedIn, walkVars, eventVars
<1>4. CASE BeginTick \/ StartMoves \/ EndTick \/ Pause \/ Resume \/ \E s \in Speeds : SetSpeed(s)
  BY <1>2, <1>4 DEF BeginTick, StartMoves, EndTick, Pause, Resume, SetSpeed, walkVars, eventVars
<1>5. CASE \E a \in Agent, n \in Names : PatchAgent(a, n)
  BY <1>5 DEF PatchAgent, walkVars, ClientKnows
<1>6. CASE Refurbish
  BY <1>6, RefurbishRestarts DEF ResetToDayStart, ClientKnows
<1>7. CASE UNCHANGED vars
  BY <1>2, <1>7 DEF vars, walkVars, eventVars
<1> QED
  BY <1>1, <1>3, <1>4, <1>5, <1>6, <1>7 DEF Next, TickStep, UserStep, Refurbish

\* A client that applied the last snapshot and every event since holds the
\* status of all agents, and the tile of all who walk or sit.
THEOREM ClientStaysInStep == Spec => []ClientInStep
<1>1. Init => ClientKnows
  BY DEF Init, ClientKnows
<1>2. IInv /\ ClientKnows /\ [Next]_vars => ClientKnows'
  BY StepIsTold
<1>3. ClientKnows => ClientInStep
  BY DEF ClientKnows, ClientInStep
<1> QED
  BY <1>1, <1>2, <1>3, IInvHolds, PTL DEF Spec
=============================================================================
