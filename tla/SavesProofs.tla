----------------------------- MODULE SavesProofs -----------------------------
(***************************************************************************)
(* Theorems about Saves, for any number of handlers, any agents, names,    *)
(* maps and layouts, and any number of crashes and restarts.               *)
(***************************************************************************)
EXTENDS Saves, TLAPS

-----------------------------------------------------------------------------
(* The load of a start. *)

Content == {c \in SUBSET WorldType : \A s, t \in c : s = t}

\* The seed is a world.
LEMMA SeedType == Seed \in WorldType /\ Applies(Seed)
<1>1. Seed \in WorldType
  BY SeedAssumption DEF Seed, WorldType
<1>2. NamesApply(Seed)
  <2> SUFFICES ASSUME NEW a \in Agent, NEW b \in Agent, SeedName[a] < SeedName[b]
               PROVE  SeedName[b] # SeedName[a]
    BY DEF NamesApply, Seed
  <2>1. SeedName[a] \in Int /\ SeedName[b] \in Int
    BY SeedAssumption, RequestAssumption DEF NameMaps
  <2> QED
    BY <2>1
<1> QED
  BY <1>1, <1>2, SeedAssumption DEF Applies, Seed

\* The defensive load takes the whole save, but for the order of the roster, or
\* nothing of it.
LEMMA LoadIsWholeOrSeed ==
  ASSUME NEW c \in Content
  PROVE  \/ \E s \in c : Applies(s) /\ FromFile(c) = [s EXCEPT !.order = SeedName]
         \/ (\A s \in c : ~ Applies(s)) /\ FromFile(c) = Seed
<1>1. CASE \E s \in c : Applies(s)
  <2>1. PICK s \in c : Applies(s)
    BY <1>1
  <2>2. (CHOOSE save \in c : TRUE) = s
    BY <2>1 DEF Content
  <2> QED
    BY <2>1, <2>2 DEF FromFile
<1>2. CASE \A s \in c : ~ Applies(s)
  BY <1>2 DEF FromFile
<1> QED
  BY <1>1, <1>2

\* What users see of the loaded world is what they saw of the saved one.
LEMMA OrderIsUnseen ==
  ASSUME NEW s \in WorldType, NEW o \in NameMaps
  PROVE  [s EXCEPT !.order = o] \in WorldType /\ Plan([s EXCEPT !.order = o]) = Plan(s)
BY DEF WorldType, Plan

\* What a start loads from a file is a world, and looks as the seed or as a save
\* of the file that applies.
LEMMA LoadType ==
  ASSUME NEW c \in Content
  PROVE  /\ FromFile(c) \in WorldType
         /\ \/ Plan(FromFile(c)) = Plan(Seed)
            \/ \E s \in c : Applies(s) /\ Plan(FromFile(c)) = Plan(s)
<1>1. SeedName \in NameMaps
  BY SeedAssumption
<1>2. \A s \in c : s \in WorldType
  BY DEF Content
<1> QED
  BY <1>1, <1>2, SeedType, LoadIsWholeOrSeed, OrderIsUnseen

\* Re-linking gives every agent a desk of the new layout or none.
LEMMA RelinkedType ==
  ASSUME NEW l
  PROVE  Relinked(l) \in [Agent -> Desk \cup {Nothing}]
<1>1. ASSUME NEW a \in Agent,
             \E d \in Desk : rows.seat[a] # Nothing /\ KeyOf[l][d] = KeyOf[rows.layout][rows.seat[a]]
      PROVE  (CHOOSE d \in Desk : KeyOf[l][d] = KeyOf[rows.layout][rows.seat[a]]) \in Desk
  BY <1>1
<1> QED
  BY <1>1 DEF Relinked

-----------------------------------------------------------------------------
(* Types. *)

\* What an edit may make of the world.
EditedTo(what, w) ==
  /\ w \in WorldType /\ what \in {"map", "layout"} \cup Agent
  /\ w.seat = world.seat
  /\ \/ /\ what = "map" /\ w.layout = world.layout /\ w.name = world.name
        /\ <<w.map, w.layout>> \in Fits
     \/ /\ what = "layout" /\ w.name = world.name
        /\ <<w.map, w.layout>> \in Fits
     \/ /\ what \in Agent /\ w.layout = world.layout /\ w.map = world.map
        /\ \E n \in MayTake[what] :
             /\ w.name = [world.name EXCEPT ![what] = n]
             /\ \A b \in Agent \ {what} : world.name[b] # n

\* An edit replaces the world by another: a map or a layout that fits, or one
\* name by one that is free.
LEMMA EditType ==
  ASSUME world \in WorldType, NEW h \in Handler, PutMap(h) \/ PutLayout(h) \/ PatchAgent(h)
  PROVE  \E w, what : Edit(h, what, w) /\ EditedTo(what, w)
<1>1. ASSUME NEW m \in Maps, <<m, world.layout>> \in Fits
      PROVE  EditedTo("map", [world EXCEPT !.map = m])
  BY <1>1 DEF WorldType, EditedTo
<1>2. ASSUME NEW l \in Layouts, <<world.map, l>> \in Fits
      PROVE  EditedTo("layout", [world EXCEPT !.layout = l, !.order = world.name])
  BY <1>2 DEF WorldType, EditedTo
<1>3. ASSUME NEW a \in Agent, NEW n \in MayTake[a],
             \A b \in Agent \ {a} : world.name[b] # n
      PROVE  EditedTo(a, [world EXCEPT !.name[a] = n])
  <2> DEFINE w == [world EXCEPT !.name[a] = n]
  <2>1. w \in WorldType /\ w.name = [world.name EXCEPT ![a] = n]
    BY RequestAssumption DEF WorldType, NameMaps
  <2>2. w.seat = world.seat /\ w.layout = world.layout /\ w.map = world.map
    BY DEF WorldType
  <2> HIDE DEF w
  <2>3. EditedTo(a, w)
    BY <1>3, <2>1, <2>2 DEF EditedTo
  <2> QED
    BY <2>3 DEF w
<1> QED
  BY <1>1, <1>2, <1>3 DEF PutMap, PutLayout, PatchAgent

-----------------------------------------------------------------------------
(* The worlds that memory and disk hold. *)

Held == {world} \cup {copy[h] : h \in Handler} \cup tmp \cup file

EditStep == \E h \in Handler : PutMap(h) \/ PutLayout(h) \/ PatchAgent(h)

FileStep ==
  \E h \in Handler : BuildSave(h) \/ OpenTmp(h) \/ WriteTmp(h) \/ RenameTmp(h) \/ RenameMisses(h)
                     \/ DiskFails(h)

RowStep == \E h \in Handler : WriteRows(h) \/ RowsFail(h)

\* The steps of the system by what they touch.
LEMMA StepKinds ==
  ASSUME [Next]_vars
  PROVE  EditStep \/ FileStep \/ RowStep \/ Crash \/ Restart \/ UNCHANGED vars
BY DEF Next, EditStep, FileStep, RowStep

\* What a handler leaves in the file it has open was there, or is its copy.
LEMMA OverwrittenIsHeld ==
  ASSUME NEW h \in Handler, NEW old \in Content, copy[h] \in WorldType, NEW new \in Overwritten(h, old)
  PROVE  new \in Content /\ new \subseteq {copy[h]}
BY DEF Overwritten, Whole, Garbage, Content

\* Persisting makes no new worlds: it copies what is held, and drops the rest.
LEMMA PersistingHoldsOld ==
  ASSUME TypeOK, FileStep \/ RowStep \/ Crash \/ UNCHANGED vars
  PROVE  /\ world' = world /\ source' = source /\ past' = past
         /\ \A h \in Handler : copy'[h] \in {copy[h], world, Seed}
         /\ copy' \in [Handler -> WorldType]
         /\ tmp' \in Content /\ file' \in Content
         /\ tmp' \subseteq tmp \cup {copy[h] : h \in Handler}
         /\ file' \subseteq tmp \cup file \cup {copy[h] : h \in Handler}
<1>1. tmp \in Content /\ file \in Content /\ {} \in Content
  BY DEF TypeOK, Content
<1>2. copy \in [Handler -> WorldType] /\ world \in WorldType /\ Seed \in WorldType
  BY SeedType DEF TypeOK
<1>3. CASE RowStep
  BY <1>1, <1>2, <1>3 DEF RowStep, WriteRows, RowsFail, Answers
<1>4. CASE Crash
  BY <1>1, <1>2, <1>4 DEF Crash
<1>5. CASE UNCHANGED vars
  BY <1>1, <1>2, <1>5 DEF vars
<1>6. ASSUME NEW h \in Handler, BuildSave(h)
      PROVE  copy' = [copy EXCEPT ![h] = world] /\ UNCHANGED <<source, world, tmp, file, past>>
  BY <1>6 DEF BuildSave
<1>7. ASSUME NEW h \in Handler, OpenTmp(h)
      PROVE  tmp' = {} /\ UNCHANGED <<source, world, copy, file, past>>
  BY <1>7 DEF OpenTmp, Garbage
<1>8. ASSUME NEW h \in Handler, WriteTmp(h)
      PROVE  /\ tmp' \in Content /\ tmp' \subseteq tmp \cup {copy[h]}
             /\ file' \in Content /\ file' \subseteq file \cup {copy[h]}
             /\ UNCHANGED <<source, world, copy, past>>
  BY <1>1, <1>2, <1>8, OverwrittenIsHeld DEF WriteTmp
<1>9. ASSUME NEW h \in Handler, RenameTmp(h)
      PROVE  /\ tmp' = {} /\ file' = tmp /\ copy' = [copy EXCEPT ![h] = Seed]
             /\ UNCHANGED <<source, world, past>>
  BY <1>9 DEF RenameTmp, Answers, Garbage
<1>10. ASSUME NEW h \in Handler, RenameMisses(h) \/ DiskFails(h)
       PROVE  copy' = [copy EXCEPT ![h] = Seed] /\ UNCHANGED <<source, world, tmp, file, past>>
  BY <1>10 DEF RenameMisses, DiskFails, Answers
<1> QED
  BY <1>1, <1>2, <1>3, <1>4, <1>5, <1>6, <1>7, <1>8, <1>9, <1>10 DEF FileStep

\* What a start resumes is a world.
LEMMA StoredType ==
  ASSUME TypeOK, Loadable
  PROVE  Stored \in WorldType
<1>1. file \in Content
  BY DEF TypeOK, Content
<1>2. FromRows.seat = rows.seat /\ FromRows.map = SeedMap
      /\ FromRows.layout = rows.layout /\ FromRows.name = rows.name /\ FromRows.order = rows.name
  BY DEF FromRows
<1>3. ASSUME source # "fixture"
      PROVE  FromRows \in WorldType
  <2>1. \A a \in Agent : rows.seat[a] # Nothing
    BY <1>2, <1>3 DEF Loadable, Stored
  <2>2. rows.seat \in [Agent -> Desk \cup {Nothing}] /\ rows.layout \in Layouts
        /\ rows.name \in NameMaps
    BY DEF TypeOK
  <2>3. rows.seat \in [Agent -> Desk]
    BY <2>1, <2>2
  <2> QED
    BY <2>2, <2>3, SeedAssumption DEF FromRows, WorldType
<1> QED
  BY <1>1, <1>3, LoadType DEF Stored

\* An edit makes one new world, and a start holds what it loads.
LEMMA NewWorlds ==
  ASSUME TypeOK, EditStep \/ Restart
  PROVE  /\ world' \in WorldType
         /\ UNCHANGED <<source, copy, tmp, file, rows>>
<1>1. CASE EditStep
  <2>1. \E h \in Handler : \E w, what : Edit(h, what, w) /\ EditedTo(what, w)
    BY <1>1, EditType DEF EditStep, TypeOK
  <2> QED
    BY <2>1 DEF Edit, EditedTo
<1>2. CASE Restart
  BY <1>2, StoredType DEF Restart
<1> QED
  BY <1>1, <1>2

-----------------------------------------------------------------------------
(* Types, and what an idle process has left behind. *)

\* Who is idle holds no copy, whose write is under way has the file open, and a
\* process that is not up has no requests.
Settled ==
  /\ ~ up => Quiet
  /\ \A h \in Handler : /\ pc[h] = "idle" => copy[h] = Seed /\ kind[h] = Nothing
                        /\ opened[h] # Nothing => pc[h] = "opened"

SInv == TypeOK /\ Settled

\* The part of TypeOK that is about requests and their bookkeeping.
HandlerOK ==
  /\ pc \in [Handler -> {"idle", "edited", "built", "opened", "written"}]
  /\ kind \in [Handler -> {Nothing, "map", "layout"} \cup Agent]
  /\ opened \in [Handler -> {Nothing, "tmp", "file", "gone"}]
  /\ tmpThere \in BOOLEAN /\ up \in BOOLEAN /\ edits \in 0 .. MaxEdits
  /\ lone \in BOOLEAN /\ sound \in BOOLEAN

\* Every step keeps requests in order: who answers forgets its copy, and only
\* who is about to write has a file open.
LEMMA StepKeepsHandlers ==
  ASSUME SInv, [Next]_vars
  PROVE  HandlerOK' /\ Settled'
<1>1. HandlerOK /\ copy \in [Handler -> WorldType]
  BY DEF SInv, TypeOK, HandlerOK
<1>2. Settled
  BY DEF SInv
<1> USE DEF HandlerOK, Settled, Quiet, InFlight, Goes, Answers, Nothing
<1>3. ASSUME NEW h \in Handler, PutMap(h) \/ PutLayout(h) \/ PatchAgent(h)
      PROVE  HandlerOK' /\ Settled'
  <2>1. PICK w, what : Edit(h, what, w) /\ EditedTo(what, w)
    BY <1>3, EditType DEF SInv, TypeOK
  <2>2. what \in {Nothing, "map", "layout"} \cup Agent
    BY <2>1 DEF EditedTo
  <2>3. /\ up /\ pc[h] = "idle" /\ edits < MaxEdits /\ up' = up
        /\ pc' = [pc EXCEPT ![h] = "edited"] /\ kind' = [kind EXCEPT ![h] = what]
        /\ edits' = edits + 1 /\ lone' \in BOOLEAN /\ sound' = sound
        /\ UNCHANGED <<copy, opened, tmpThere>>
    BY <2>1 DEF Edit
  <2> QED
    BY <1>1, <1>2, <2>2, <2>3, RequestAssumption
<1>4. ASSUME NEW h \in Handler, BuildSave(h)
      PROVE  HandlerOK' /\ Settled'
  BY <1>1, <1>2, <1>4 DEF BuildSave
<1>5. ASSUME NEW h \in Handler, OpenTmp(h)
      PROVE  HandlerOK' /\ Settled'
  BY <1>1, <1>2, <1>5 DEF OpenTmp
<1>6. ASSUME NEW h \in Handler, WriteTmp(h)
      PROVE  HandlerOK' /\ Settled'
  BY <1>1, <1>2, <1>6 DEF WriteTmp
<1>7. ASSUME NEW h \in Handler, RenameTmp(h)
      PROVE  HandlerOK' /\ Settled'
  <2>1. /\ Moved \in [Handler -> {Nothing, "tmp", "file", "gone"}]
        /\ \A g \in Handler : Moved[g] # Nothing => opened[g] # Nothing
    BY <1>1 DEF Moved
  <2>2. opened[h] = Nothing
    BY <1>2, <1>7 DEF RenameTmp
  <2>3. Moved[h] = Nothing
    BY <2>1, <2>2
  <2> QED
    BY <1>1, <1>2, <1>7, <2>1, <2>3 DEF RenameTmp
<1>8. ASSUME NEW h \in Handler, RenameMisses(h) \/ WriteRows(h) \/ RowsFail(h)
      PROVE  HandlerOK' /\ Settled'
  BY <1>1, <1>2, <1>8 DEF RenameMisses, WriteRows, RowsFail
<1>9. ASSUME NEW h \in Handler, DiskFails(h)
      PROVE  HandlerOK' /\ Settled'
  BY <1>1, <1>2, <1>9 DEF DiskFails
<1>10. CASE Crash
  BY <1>1, <1>2, <1>10 DEF Crash
<1>11. CASE Restart
  <2>1. ~ up /\ up' /\ UNCHANGED <<pc, kind, copy, opened, tmpThere>>
    BY <1>11 DEF Restart
  <2>2. edits' \in 0 .. MaxEdits
    BY <1>11, RequestAssumption DEF Restart
  <2>3. up' \in BOOLEAN /\ lone' \in BOOLEAN /\ sound' \in BOOLEAN
    BY <1>11 DEF Restart
  <2> QED
    BY <1>1, <1>2, <2>1, <2>2, <2>3
<1>12. CASE UNCHANGED vars
  BY <1>1, <1>2, <1>12 DEF vars
<1> QED
  BY <1>3, <1>4, <1>5, <1>6, <1>7, <1>8, <1>9, <1>10, <1>11, <1>12 DEF Next

\* The rows are written from the world, column by column.
LEMMA StepKeepsRows ==
  ASSUME SInv, [Next]_vars
  PROVE  rows' \in [map : Maps \cup {Nothing}, layout : Layouts, name : NameMaps,
                    seat : [Agent -> Desk \cup {Nothing}]]
<1> DEFINE RowType == [map : Maps \cup {Nothing}, layout : Layouts, name : NameMaps,
                       seat : [Agent -> Desk \cup {Nothing}]]
<1>1. rows \in RowType /\ world \in WorldType /\ kind \in [Handler -> {Nothing, "map", "layout"} \cup Agent]
  BY DEF SInv, TypeOK
<1>2. ASSUME NEW h \in Handler, WriteRows(h)
      PROVE  rows' \in RowType
  <2>1. rows' = Written(kind[h])
    BY <1>2 DEF WriteRows
  <2>2. CASE kind[h] = "map"
    BY <1>1, <2>1, <2>2 DEF Written, WorldType
  <2>3. CASE kind[h] = "layout"
    BY <1>1, <2>1, <2>3, RelinkedType DEF Written, WorldType
  <2>4. CASE kind[h] \in Agent \cup {Nothing}
    <3>1. rows' = [rows EXCEPT !.name[kind[h]] = world.name[kind[h]]]
      BY <2>1, <2>4, RequestAssumption DEF Written, Nothing
    <3>2. [rows.name EXCEPT ![kind[h]] = world.name[kind[h]]] \in NameMaps
      BY <1>1, <2>4 DEF WorldType, NameMaps
    <3> QED
      BY <1>1, <3>1, <3>2
  <2> QED
    BY <1>1, <2>2, <2>3, <2>4
<1>3. CASE UNCHANGED rows
  BY <1>1, <1>3
<1>4. CASE EditStep \/ Restart
  BY <1>3, <1>4, NewWorlds DEF SInv
<1>5. CASE FileStep
  BY <1>3, <1>5 DEF FileStep, BuildSave, OpenTmp, WriteTmp, RenameTmp, RenameMisses, DiskFails
<1>6. CASE Crash \/ UNCHANGED vars \/ \E h \in Handler : RowsFail(h)
  BY <1>3, <1>6 DEF Crash, vars, RowsFail
<1> QED
  BY <1>2, <1>4, <1>5, <1>6, StepKinds DEF RowStep

\* Every variable keeps its type.
LEMMA StepSInv ==
  ASSUME SInv, [Next]_vars
  PROVE  SInv'
<1>1. HandlerOK' /\ Settled'
  BY StepKeepsHandlers
<1>2. source \in {"fixture", "db"} /\ tmp \in Content /\ file \in Content
      /\ copy \in [Handler -> WorldType] /\ world \in WorldType
  BY DEF SInv, TypeOK, Content
<1>3. source' = source /\ tmp' \in Content /\ file' \in Content
      /\ copy' \in [Handler -> WorldType] /\ world' \in WorldType
  BY <1>2, PersistingHoldsOld, NewWorlds, StepKinds DEF SInv
<1> QED
  BY <1>1, <1>2, <1>3, StepKeepsRows DEF SInv, TypeOK, HandlerOK, Content

\* A first start serves the seed and finds no file.
LEMMA InitSInv == Init => SInv
<1> SUFFICES ASSUME Init PROVE SInv
  OBVIOUS
<1>1. Settled
  BY DEF Init, Settled, Quiet, InFlight
<1>2. /\ source \in {"fixture", "db"} /\ world \in WorldType /\ copy \in [Handler -> WorldType]
      /\ tmp = {} /\ file = {}
  BY SeedType, RequestAssumption DEF Init, Garbage
<1>3. rows \in [map : Maps \cup {Nothing}, layout : Layouts, name : NameMaps,
                seat : [Agent -> Desk \cup {Nothing}]]
  <2>1. SeatOf \in [Agent -> Desk \cup {Nothing}]
    BY SeedAssumption
  <2> QED
    BY <2>1, SeedAssumption DEF Init
<1>4. HandlerOK
  <2>1. edits \in 0 .. MaxEdits
    BY RequestAssumption DEF Init
  <2>2. up \in BOOLEAN /\ lone \in BOOLEAN /\ sound \in BOOLEAN /\ tmpThere \in BOOLEAN
    BY DEF Init
  <2> QED
    BY <2>1, <2>2 DEF Init, HandlerOK
<1>5. TypeOK
  BY <1>2, <1>3, <1>4 DEF TypeOK, HandlerOK
<1> QED
  BY <1>1, <1>5 DEF SInv

\* The invariant that types and idle requests make up.
THEOREM SInvHolds == Spec => []SInv
BY InitSInv, StepSInv, PTL DEF Spec

\* Whatever handlers, failures, crashes and restarts follow each other, memory,
\* file, temporary file and rows hold whole worlds or nothing that parses.
THEOREM TypeCorrect == Spec => []TypeOK
<1>1. SInv => TypeOK
  BY DEF SInv
<1> QED
  BY <1>1, SInvHolds, PTL

-----------------------------------------------------------------------------
(* A world of the past, whole. *)

Writing == \E h \in Handler : pc[h] \in {"opened", "written"}

\* Everything that may come to be loaded looks as a world of the past.  What an
\* earlier process left in the temporary file is older than that, but whoever
\* opens the file truncates it before it can be renamed.
Remembered ==
  source = "fixture" =>
    /\ Plan(Seed) \in past /\ Plan(world) \in past
    /\ \A h \in Handler : Plan(copy[h]) \in past
    /\ Writing => \A s \in tmp : Plan(s) \in past
    /\ \A s \in file : Applies(s) => Plan(s) \in past

\* What a start loads from a file is in any set that has the seed and the saves
\* of that file that apply.
LEMMA LoadedIsAmong ==
  ASSUME NEW c \in Content, NEW S, Plan(Seed) \in S, \A s \in c : Applies(s) => Plan(s) \in S
  PROVE  Plan(FromFile(c)) \in S
BY LoadType

\* The process that starts remembers what it resumes and the seed; every other
\* step copies, moves or drops what is remembered, or adds to the past.
LEMMA StepRemembers ==
  ASSUME SInv, Remembered, [Next]_vars
  PROVE  Remembered'
<1> SUFFICES ASSUME source = "fixture"
             PROVE  /\ Plan(Seed) \in past' /\ Plan(world') \in past'
                    /\ \A h \in Handler : Plan(copy'[h]) \in past'
                    /\ Writing' => \A s \in tmp' : Plan(s) \in past'
                    /\ \A s \in file' : Applies(s) => Plan(s) \in past'
  <2>1. source' = source
    BY PersistingHoldsOld, NewWorlds, StepKinds DEF SInv
  <2> QED
    BY <2>1 DEF Remembered
<1>1. /\ Plan(Seed) \in past /\ Plan(world) \in past
      /\ \A h \in Handler : Plan(copy[h]) \in past
      /\ Writing => \A s \in tmp : Plan(s) \in past
      /\ \A s \in file : Applies(s) => Plan(s) \in past
  BY DEF Remembered
<1>2. /\ pc \in [Handler -> {"idle", "edited", "built", "opened", "written"}]
      /\ tmp \in Content /\ file \in Content
  BY DEF SInv, TypeOK, Content
<1>3. CASE EditStep
  <2>1. PICK h \in Handler : \E w, what : Edit(h, what, w)
    BY <1>3, EditType DEF EditStep, SInv, TypeOK
  <2>2. PICK w, what : Edit(h, what, w)
    BY <2>1
  <2>3. /\ pc' = [pc EXCEPT ![h] = "edited"] /\ world' = w /\ past' = past \cup {Plan(w)}
        /\ UNCHANGED <<copy, tmp, file>>
    BY <2>2 DEF Edit
  <2>4. Writing' => Writing
    BY <1>2, <2>3 DEF Writing
  <2> QED
    BY <1>1, <2>3, <2>4
<1>4. CASE FileStep
  <2>1. /\ world' = world /\ past' = past
        /\ \A h \in Handler : copy'[h] \in {copy[h], world, Seed}
    BY <1>4, PersistingHoldsOld DEF SInv
  <2>2. /\ Plan(Seed) \in past' /\ Plan(world') \in past'
        /\ \A h \in Handler : Plan(copy'[h]) \in past'
    BY <1>1, <2>1
  <2>3. ASSUME NEW h \in Handler, BuildSave(h) \/ RenameMisses(h) \/ DiskFails(h)
        PROVE  UNCHANGED <<tmp, file>> /\ (Writing' => Writing)
    <3>1. PICK to \in {"built", "idle"} : pc' = [pc EXCEPT ![h] = to]
      BY <2>3 DEF BuildSave, RenameMisses, DiskFails, Answers, Goes
    <3>2. Writing' => Writing
      BY <1>2, <3>1 DEF Writing
    <3> QED
      BY <2>3, <3>2 DEF BuildSave, RenameMisses, DiskFails
  <2>4. ASSUME NEW h \in Handler, OpenTmp(h)
        PROVE  tmp' = {} /\ file' = file
    BY <2>4 DEF OpenTmp, Garbage
  <2>5. ASSUME NEW h \in Handler, WriteTmp(h)
        PROVE  /\ tmp' \subseteq tmp \cup {copy[h]} /\ file' \subseteq file \cup {copy[h]}
               /\ Writing
    <3>1. copy[h] \in WorldType
      BY DEF SInv, TypeOK
    <3>2. Writing
      BY <2>5 DEF WriteTmp, Goes, Writing
    <3> QED
      BY <1>2, <2>5, <3>1, <3>2, OverwrittenIsHeld DEF WriteTmp
  <2>6. ASSUME NEW h \in Handler, RenameTmp(h)
        PROVE  tmp' = {} /\ file' = tmp /\ Writing
    BY <2>6 DEF RenameTmp, Answers, Goes, Garbage, Writing
  <2> QED
    BY <1>1, <1>4, <2>1, <2>2, <2>3, <2>4, <2>5, <2>6 DEF FileStep
<1>5. CASE RowStep \/ UNCHANGED vars
  <2>1. RowStep => UNCHANGED <<world, past, tmp, file>>
    BY DEF RowStep, WriteRows, RowsFail
  <2>2. \A h \in Handler : copy'[h] \in {copy[h], world, Seed}
    BY <1>5, PersistingHoldsOld DEF SInv
  <2>3. Writing' => Writing
    BY <1>2, <1>5 DEF RowStep, WriteRows, RowsFail, Answers, Goes, Writing, vars
  <2> QED
    BY <1>1, <1>5, <2>1, <2>2, <2>3 DEF vars
<1>6. CASE Crash
  BY <1>1, <1>6 DEF Crash, Writing
<1>7. CASE Restart
  <2>1. /\ past' = {Plan(Seed), Plan(world')} /\ world' = FromFile(file)
        /\ UNCHANGED <<pc, copy, file>> /\ ~ up
    BY <1>7 DEF Restart, Stored
  <2>2. \A h \in Handler : pc[h] = "idle" /\ copy[h] = Seed
    BY <2>1 DEF SInv, Settled, Quiet, InFlight
  <2>3. ~ Writing'
    BY <2>1, <2>2 DEF Writing
  <2>4. ASSUME NEW s \in file, Applies(s)
        PROVE  Plan(s) = Plan(world')
    <3>1. PICK t \in file : FromFile(file) = [t EXCEPT !.order = SeedName]
      BY <1>2, <2>4, LoadIsWholeOrSeed
    <3>2. t = s /\ s \in WorldType
      BY <1>2 DEF Content
    <3> QED
      BY <2>1, <3>1, <3>2, OrderIsUnseen, SeedAssumption
  <2> QED
    BY <2>1, <2>2, <2>3, <2>4
<1> QED
  BY <1>3, <1>4, <1>5, <1>6, <1>7, StepKinds

\* The seed is the only world of a first start.
LEMMA InitRemembers == Init => Remembered
BY DEF Init, Remembered, Writing, Garbage

THEOREM RememberedHolds == Spec => []Remembered
BY InitRemembers, StepRemembers, SInvHolds, PTL DEF Spec

\* However handlers raced for the temporary file and wherever the process ended,
\* a restart finds one whole world of the past, or the seed.
THEOREM RestartFindsHistory == Spec => []RestoresHistory
<1>1. SInv /\ Remembered => RestoresHistory
  <2> SUFFICES ASSUME SInv, Remembered, source = "fixture" PROVE Plan(Stored) \in past
    BY DEF RestoresHistory
  <2>1. file \in Content
    BY DEF SInv, TypeOK, Content
  <2> QED
    BY <2>1, LoadedIsAmong DEF Remembered, Stored
<1> QED
  BY <1>1, SInvHolds, RememberedHolds, PTL

-----------------------------------------------------------------------------
(* The abstract history. *)

keptWorld == IF source = "fixture" THEN Plan(world) ELSE Nothing
keptSave  == IF source = "fixture" THEN Plan(Stored) ELSE Nothing
keptPast  == IF source = "fixture" THEN past ELSE {Nothing}

\* Every step is an edit, the keeping of a world of the past, a start that
\* resumes the kept one, or nothing to history.
LEMMA StepIsHistory ==
  ASSUME SInv, Remembered, [Next]_vars
  PROVE  Durable!Next \/ UNCHANGED <<keptWorld, keptSave, keptPast>>
<1>1. source' = source
  BY PersistingHoldsOld, NewWorlds, StepKinds DEF SInv
<1>2. CASE source # "fixture"
  BY <1>1, <1>2 DEF keptWorld, keptSave, keptPast
<1>3. CASE source = "fixture"
  <2> USE <1>1, <1>3
  <2>1. file \in Content
    BY DEF SInv, TypeOK, Content
  <2>2. Plan(FromFile(file)) \in past /\ Plan(Seed) \in past
    BY <2>1, LoadedIsAmong DEF Remembered
  <2>3. CASE EditStep
    <3>1. \E w : world' = w /\ past' = past \cup {Plan(w)} /\ file' = file
      BY <2>3, EditType DEF EditStep, SInv, TypeOK, Edit
    <3>2. Durable!Edit
      BY <3>1 DEF Durable!Edit, Stored
    <3> QED
      BY <3>2 DEF Durable!Next
  <2>4. CASE FileStep \/ RowStep \/ Crash \/ UNCHANGED vars
    <3>1. world' = world /\ past' = past /\ file' \in Content
      BY <2>4, PersistingHoldsOld DEF SInv
    <3>2. Remembered'
      BY StepRemembers
    <3>3. Plan(FromFile(file')) \in past
      BY <3>1, <3>2, LoadedIsAmong DEF Remembered
    <3>4. Durable!Keep
      BY <3>1, <3>3 DEF Durable!Keep, Stored
    <3> QED
      BY <3>4 DEF Durable!Next
  <2>5. CASE Restart
    <3>1. /\ world' = FromFile(file) /\ file' = file
          /\ past' = {Plan(Seed), Plan(world')}
      BY <2>5 DEF Restart, Stored
    <3>2. Durable!Resume
      BY <2>2, <3>1 DEF Durable!Resume, Stored
    <3> QED
      BY <3>2 DEF Durable!Next
  <2> QED
    BY <2>3, <2>4, <2>5, StepKinds
<1> QED
  BY <1>2, <1>3

\* Saves with a file implements History: one world of the past is kept at any
\* time, and a start resumes exactly that.
THEOREM SavesKeepHistory == Spec => KeepsHistory
<1>1. Init => Durable!Init
  <2> SUFFICES ASSUME Init PROVE Durable!Init
    OBVIOUS
  <2>1. FromFile({}) = Seed
    BY DEF FromFile
  <2> QED
    BY <2>1 DEF Init, Durable!Init, Stored, Garbage
<1>2. SInv /\ Remembered /\ [Next]_vars => [Durable!Next]_<<keptWorld, keptSave, keptPast>>
  BY StepIsHistory
<1> QED
  BY <1>1, <1>2, SInvHolds, RememberedHolds, PTL
  DEF Spec, KeepsHistory, Durable!Spec, keptWorld, keptSave, keptPast

-----------------------------------------------------------------------------
(* Names. *)

\* In memory and on disk, in every copy a handler holds.
AllDistinct == source = "fixture" => \A s \in Held : Distinct(s.name)

\* The only world that a step can bring about anew is the resident one.
LEMMA HeldGrows ==
  ASSUME TypeOK, [Next]_vars
  PROVE  source' = source /\ \A s \in Held' : s \in Held \cup {Seed, world'}
BY PersistingHoldsOld, NewWorlds, StepKinds DEF Held

\* A free name given to one agent leaves all names distinct.
LEMMA EditKeepsDistinct ==
  ASSUME world \in WorldType, Distinct(world.name), NEW what, NEW w, EditedTo(what, w)
  PROVE  Distinct(w.name)
<1>1. CASE w.name = world.name
  BY <1>1
<1>2. CASE what \in Agent /\ w.name # world.name
  <2>1. PICK n \in MayTake[what] : /\ w.name = [world.name EXCEPT ![what] = n]
                                   /\ \A b \in Agent \ {what} : world.name[b] # n
    BY <1>2, RequestAssumption DEF EditedTo
  <2>2. world.name \in NameMaps
    BY DEF WorldType
  <2> QED
    BY <1>2, <2>1, <2>2 DEF Distinct, NameMaps
<1> QED
  BY <1>1, <1>2 DEF EditedTo

LEMMA StepKeepsDistinct ==
  ASSUME SInv, AllDistinct, [Next]_vars
  PROVE  AllDistinct'
<1> SUFFICES ASSUME source = "fixture" PROVE Distinct(world'.name)
  <2>1. Distinct(Seed.name)
    BY SeedAssumption DEF Seed
  <2> QED
    BY <2>1, HeldGrows DEF AllDistinct, SInv
<1>1. world \in WorldType /\ file \in Content
  BY DEF SInv, TypeOK, Content
<1>2. Distinct(world.name)
  BY DEF AllDistinct, Held
<1>3. CASE EditStep
  <2>1. PICK h \in Handler : \E w, what : Edit(h, what, w) /\ EditedTo(what, w)
    BY <1>1, <1>3, EditType DEF EditStep
  <2> QED
    BY <1>1, <1>2, <2>1, EditKeepsDistinct DEF Edit
<1>4. CASE Restart
  <2>1. world' = FromFile(file)
    BY <1>4 DEF Restart, Stored
  <2>2. \A s \in file : s \in WorldType /\ Distinct(s.name)
    BY <1>1 DEF AllDistinct, Held, Content
  <2>3. Distinct(Seed.name)
    BY SeedAssumption DEF Seed
  <2>4. CASE FromFile(file) = Seed
    BY <2>1, <2>3, <2>4
  <2>5. ASSUME NEW s \in file, FromFile(file) = [s EXCEPT !.order = SeedName]
        PROVE  Distinct(world'.name)
    <3>1. [s EXCEPT !.order = SeedName].name = s.name
      BY <2>2 DEF WorldType
    <3> QED
      BY <2>1, <2>2, <2>5, <3>1
  <2> QED
    BY <1>1, <2>4, <2>5, LoadIsWholeOrSeed
<1>5. CASE FileStep \/ RowStep \/ Crash \/ UNCHANGED vars
  BY <1>2, <1>5, PersistingHoldsOld DEF SInv
<1> QED
  BY <1>3, <1>4, <1>5, StepKinds

LEMMA InitDistinct == Init => AllDistinct
<1>1. Distinct(Seed.name)
  BY SeedAssumption DEF Seed
<1> QED
  BY <1>1 DEF Init, AllDistinct, Held, Garbage

\* With a file, in the world and in every copy, file and temporary file that holds a
\* whole one each agent has a name of its own: racing renames are checked under the lock
\* (world.rs:341-352), and a load ends in a whole save or the seed.
THEOREM AllDistinctHolds == Spec => []AllDistinct
BY InitDistinct, StepKeepsDistinct, SInvHolds, PTL DEF Spec

-----------------------------------------------------------------------------
(* The last save that had the file to itself. *)

\* No name of the seed passes on: requests give it to nobody else, or its bearer
\* is never renamed.
SeedNamesStayOwn ==
  \A a, b \in Agent : a # b => SeedName[b] \notin MayTake[a] \/ MayTake[b] \subseteq {SeedName[b]}

\* Every save there is applies, at any start.
AllApply ==
  source = "fixture" =>
    \A s \in Held : /\ <<s.map, s.layout>> \in Fits
                    /\ \A a \in Agent : s.name[a] \in MayTake[a] \cup {SeedName[a]}

\* Such a save is applied as a whole, in whatever order its agents come.
LEMMA OwnNamesApply ==
  ASSUME SeedNamesStayOwn, NEW s \in WorldType, <<s.map, s.layout>> \in Fits, Distinct(s.name),
         \A a \in Agent : s.name[a] \in MayTake[a] \cup {SeedName[a]}
  PROVE  Applies(s)
<1> SUFFICES ASSUME NEW a \in Agent, NEW b \in Agent, s.order[a] < s.order[b],
                    SeedName[b] = s.name[a]
             PROVE  FALSE
  BY DEF Applies, NamesApply
<1>1. a # b
  <2>1. s.order[a] \in Int
    BY RequestAssumption DEF WorldType, NameMaps
  <2> QED
    BY <2>1
<1>2. s.name[a] # SeedName[a]
  BY <1>1, SeedAssumption DEF Distinct
<1>3. s.name[b] = SeedName[b]
  BY <1>1, <1>2 DEF SeedNamesStayOwn
<1> QED
  BY <1>1, <1>3 DEF Distinct

LEMMA InitApply == Init => AllApply
BY SeedAssumption DEF Init, AllApply, Held, Garbage, Seed

\* Edits are validated, and give an agent a name that requests may give it.
LEMMA StepKeepsApply ==
  ASSUME SInv, AllApply, [Next]_vars
  PROVE  AllApply'
<1> DEFINE Good(s) == /\ <<s.map, s.layout>> \in Fits
                      /\ \A a \in Agent : s.name[a] \in MayTake[a] \cup {SeedName[a]}
<1>1. Good(Seed)
  BY SeedAssumption DEF Seed
<1> SUFFICES ASSUME source = "fixture" PROVE Good(world')
  <2>1. source = "fixture" => \A s \in Held : Good(s)
    BY DEF AllApply
  <2>2. source' = "fixture" => \A s \in Held' : Good(s)
    BY <1>1, <2>1, HeldGrows DEF SInv
  <2> QED
    BY <2>2 DEF AllApply
<1>2. world \in WorldType /\ file \in Content /\ Good(world) /\ \A s \in file : Good(s)
  BY DEF SInv, TypeOK, Content, AllApply, Held
<1>3. CASE EditStep
  <2>1. PICK h \in Handler : \E w, what : Edit(h, what, w) /\ EditedTo(what, w)
    BY <1>2, <1>3, EditType DEF EditStep
  <2>2. PICK w, what : Edit(h, what, w) /\ EditedTo(what, w)
    BY <2>1
  <2>3. world' = w
    BY <2>2 DEF Edit
  <2>4. CASE w.name = world.name /\ <<w.map, w.layout>> \in Fits
    BY <1>2, <2>3, <2>4
  <2>5. CASE what \in Agent /\ w.layout = world.layout /\ w.map = world.map
    <3>1. PICK n \in MayTake[what] : w.name = [world.name EXCEPT ![what] = n]
      BY <2>2, <2>5, RequestAssumption DEF EditedTo
    <3>2. world.name \in NameMaps
      BY <1>2 DEF WorldType
    <3> QED
      BY <1>2, <2>3, <2>5, <3>1, <3>2 DEF NameMaps
  <2> QED
    BY <2>2, <2>4, <2>5, RequestAssumption DEF EditedTo
<1>4. CASE Restart
  <2>1. world' = FromFile(file)
    BY <1>4 DEF Restart, Stored
  <2>2. ASSUME NEW s \in file, FromFile(file) = [s EXCEPT !.order = SeedName]
        PROVE  Good(world')
    <3> DEFINE t == [s EXCEPT !.order = SeedName]
    <3>1. s \in WorldType
      BY <1>2 DEF Content
    <3>2. t.map = s.map /\ t.layout = s.layout /\ t.name = s.name
      BY <3>1 DEF WorldType
    <3>3. world' = t
      BY <2>1, <2>2
    <3> HIDE DEF t
    <3> QED
      BY <1>2, <3>2, <3>3
  <2> QED
    BY <1>1, <1>2, <2>1, <2>2, LoadIsWholeOrSeed
<1>5. CASE FileStep \/ RowStep \/ Crash \/ UNCHANGED vars
  BY <1>2, <1>5, PersistingHoldsOld DEF SInv
<1> QED
  BY <1>3, <1>4, <1>5, StepKinds

\* A request that has been alone since its edit finds its own copy of the world
\* in every file it touches; and as long as a save counts as safe, whoever is
\* under way is such a request.
Alone ==
  /\ safe # {} /\ ~ Quiet => lone
  /\ safe # {} => safe = {Plan(FromFile(file))}
  /\ lone => \A g, h \in InFlight : g = h
  /\ lone => \A h \in Handler :
       /\ pc[h] \in {"built", "opened", "written"} => copy[h] = world
       /\ pc[h] = "opened" => tmpThere /\ opened[h] = "tmp" /\ tmp = Garbage
       /\ pc[h] = "written" => tmpThere /\ tmp = Whole(world)

AloneSinceEdit == source = "fixture" => Alone

\* Where the resident world applies, a file that holds it brings it back.
LEMMA SavedWorldReturns ==
  ASSUME NEW w \in WorldType, Applies(w)
  PROVE  Plan(FromFile(Whole(w))) = Plan(w)
<1>1. Whole(w) \in Content /\ w \in Whole(w) /\ \A t \in Whole(w) : t = w
  BY DEF Whole, Content
<1>2. FromFile(Whole(w)) = [w EXCEPT !.order = SeedName]
  BY <1>1, LoadIsWholeOrSeed
<1> QED
  BY <1>2, OrderIsUnseen, SeedAssumption

\* While the resident world applies, an alone save carries it into the file
\* step by step, and whoever meets company ceases to count.
LEMMA StepKeepsAlone ==
  ASSUME SInv, Alone, Applies(world), source = "fixture", [Next]_vars
  PROVE  Alone'
<1>1. /\ world \in WorldType /\ copy \in [Handler -> WorldType]
      /\ pc \in [Handler -> {"idle", "edited", "built", "opened", "written"}]
      /\ opened \in [Handler -> {Nothing, "tmp", "file", "gone"}]
      /\ lone \in BOOLEAN
  BY DEF SInv, TypeOK
<1> USE DEF Quiet, InFlight
<1>2. ASSUME NEW h \in Handler, pc[h] # "idle", NEW to \in {"idle", "built", "opened", "written"},
             pc' = [pc EXCEPT ![h] = to]
      PROVE  /\ InFlight' \subseteq InFlight /\ ~ Quiet
             /\ \A g \in Handler \ {h} : pc'[g] = pc[g]
             /\ lone => \A g \in Handler \ {h} : pc'[g] = "idle"
             /\ lone => \A g, k \in InFlight' : g = k
             /\ ~ lone => safe = {}
  BY <1>1, <1>2 DEF Alone
<1>3. CASE EditStep
  <2>1. PICK h \in Handler : \E w, what : Edit(h, what, w)
    BY <1>1, <1>3, EditType DEF EditStep
  <2>2. /\ pc[h] = "idle" /\ pc' = [pc EXCEPT ![h] = "edited"]
        /\ lone' = Quiet /\ safe' = (IF Quiet THEN safe ELSE {}) /\ file' = file
    BY <2>1 DEF Edit
  <2>3. CASE ~ Quiet
    BY <2>2, <2>3 DEF Alone
  <2>4. CASE Quiet
    <3>1. /\ lone' /\ safe' = safe
          /\ \A g \in Handler \ {h} : pc'[g] = "idle"
          /\ pc'[h] = "edited"
      BY <1>1, <2>2, <2>4
    <3>2. \A g, k \in InFlight' : g = k
      BY <3>1
    <3> QED
      BY <2>2, <3>1, <3>2 DEF Alone
  <2> QED
    BY <2>3, <2>4
<1>4. ASSUME NEW h \in Handler, BuildSave(h)
      PROVE  Alone'
  <2>1. /\ pc[h] = "edited" /\ pc' = [pc EXCEPT ![h] = "built"] /\ copy' = [copy EXCEPT ![h] = world]
        /\ UNCHANGED <<world, opened, tmpThere, tmp, file, lone, safe>>
    BY <1>4 DEF BuildSave, Goes
  <2> QED
    BY <1>1, <1>2, <2>1 DEF Alone
<1>5. ASSUME NEW h \in Handler, OpenTmp(h)
      PROVE  Alone'
  <2>1. /\ pc[h] = "built" /\ pc' = [pc EXCEPT ![h] = "opened"] /\ tmpThere' /\ tmp' = Garbage
        /\ opened' = [opened EXCEPT ![h] = "tmp"]
        /\ UNCHANGED <<world, copy, file, lone, safe>>
    BY <1>5 DEF OpenTmp, Goes
  <2> QED
    BY <1>1, <1>2, <2>1 DEF Alone
<1>6. ASSUME NEW h \in Handler, WriteTmp(h)
      PROVE  Alone'
  <2>1. /\ pc[h] = "opened" /\ pc' = [pc EXCEPT ![h] = "written"]
        /\ UNCHANGED <<world, copy, tmpThere, lone, safe>>
    BY <1>6 DEF WriteTmp, Goes
  <2>2. CASE lone
    <3>1. opened[h] = "tmp" /\ tmp = Garbage /\ tmpThere /\ copy[h] = world
      BY <2>1, <2>2 DEF Alone
    <3>2. tmp' = Whole(world) /\ file' = file
      BY <1>6, <3>1 DEF WriteTmp, Overwritten
    <3> QED
      BY <1>1, <1>2, <2>1, <2>2, <3>1, <3>2 DEF Alone
  <2>3. CASE ~ lone
    BY <1>2, <2>1, <2>3 DEF Alone
  <2> QED
    BY <2>2, <2>3
<1>7. ASSUME NEW h \in Handler, RenameTmp(h)
      PROVE  Alone'
  <2>1. /\ pc[h] = "written" /\ pc' = [pc EXCEPT ![h] = "idle"] /\ file' = tmp
        /\ safe' = (IF lone THEN {Plan(world)} ELSE safe) /\ UNCHANGED <<world, lone>>
    BY <1>7 DEF RenameTmp, Answers, Goes
  <2>2. CASE lone
    <3>1. file' = Whole(world)
      BY <2>1, <2>2 DEF Alone
    <3>2. safe' = {Plan(FromFile(file'))}
      BY <1>1, <2>1, <2>2, <3>1, SavedWorldReturns
    <3>3. \A g \in Handler : pc'[g] = "idle"
      BY <1>1, <1>2, <2>1, <2>2, ZenonT(30)
    <3> QED
      BY <2>1, <2>2, <3>2, <3>3 DEF Alone
  <2>3. CASE ~ lone
    BY <1>2, <2>1, <2>3 DEF Alone
  <2> QED
    BY <2>2, <2>3
<1>8. ASSUME NEW h \in Handler, RenameMisses(h) \/ DiskFails(h)
      PROVE  Alone'
  <2>1. /\ pc[h] # "idle" /\ pc' = [pc EXCEPT ![h] = "idle"]
        /\ UNCHANGED <<world, file, lone, safe>>
    BY <1>8 DEF RenameMisses, DiskFails, Answers, Goes
  <2>2. lone => \A g \in Handler : pc'[g] = "idle"
    BY <1>1, <1>2, <2>1, ZenonT(30)
  <2> QED
    BY <1>2, <2>1, <2>2 DEF Alone
<1>9. CASE Crash
  <2>1. /\ \A h \in Handler : pc'[h] = "idle"
        /\ UNCHANGED <<file, safe, lone>>
    BY <1>9 DEF Crash
  <2> QED
    BY <2>1 DEF Alone
<1>10. CASE Restart
  <2>1. /\ lone' = FALSE /\ file' = file /\ pc' = pc /\ ~ up
        /\ world' = FromFile(file) /\ safe' = {Plan(world')}
    BY <1>10 DEF Restart, Stored
  <2>2. Quiet'
    BY <2>1 DEF SInv, Settled
  <2> QED
    BY <2>1, <2>2 DEF Alone
<1>11. CASE RowStep
  BY <1>11 DEF RowStep, WriteRows, RowsFail
<1>12. CASE UNCHANGED vars
  BY <1>12 DEF vars, Alone
<1> QED
  BY <1>3, <1>4, <1>5, <1>6, <1>7, <1>8, <1>9, <1>10, <1>11, <1>12, StepKinds DEF FileStep

LEMMA InitAlone == Init => AloneSinceEdit
<1> SUFFICES ASSUME Init, source = "fixture"
             PROVE  Quiet /\ lone = FALSE /\ safe = {Plan(FromFile(file))}
  BY DEF AloneSinceEdit, Alone, Init
<1>1. FromFile(file) = Seed
  BY DEF Init, Garbage, FromFile
<1> QED
  BY <1>1 DEF Init, Quiet, InFlight

\* What a save stored that had the file to itself survives failed writes, crashes
\* and restarts, if no name of the seed may pass to another agent.
THEOREM LoneSaveReturns ==
  ASSUME SeedNamesStayOwn
  PROVE  Spec => []LoneSaveIsSafe
<1>1. ASSUME SInv, AllDistinct, AllApply, source = "fixture"
      PROVE  Applies(world)
  <2>1. world \in Held /\ world \in WorldType
    BY <1>1 DEF SInv, TypeOK, Held
  <2> QED
    BY <1>1, <2>1, OwnNamesApply DEF AllDistinct, AllApply
<1>2. SInv /\ AllDistinct /\ AllApply /\ AloneSinceEdit /\ [Next]_vars => AloneSinceEdit'
  BY <1>1, StepKeepsAlone, HeldGrows DEF AloneSinceEdit, SInv
<1>3. AloneSinceEdit => LoneSaveIsSafe
  BY DEF AloneSinceEdit, Alone, LoneSaveIsSafe, Stored
<1>4. SInv /\ AllApply /\ [Next]_vars => AllApply'
  BY StepKeepsApply
<1> QED
  BY <1>2, <1>3, <1>4, InitApply, InitAlone, SInvHolds, AllDistinctHolds, PTL DEF Spec

-----------------------------------------------------------------------------
(* The rows. *)

\* A desk keeps its key in every layout.
KeysStay == \A l, m \in Layouts : \A d \in Desk : KeyOf[l][d] = KeyOf[m][d]

\* While no write has failed, a row differs from the world only if a request
\* that will write it is under way.
RowsLag ==
  source = "db" /\ up /\ sound =>
    /\ rows.seat = world.seat
    /\ rows.layout = world.layout \/ \E h \in Handler : pc[h] = "edited" /\ kind[h] = "layout"
    /\ \A a \in Agent : \/ rows.name[a] = world.name[a]
                        \/ \E h \in Handler : pc[h] = "edited" /\ kind[h] = a

LEMMA InitRows == Init => RowsLag
BY DEF Init, RowsLag, Seed

\* As long as desks keep their keys, a new layout gives every agent its desk back.
LEMMA RelinkedKeeps ==
  ASSUME KeysStay, NEW l \in Layouts, rows.layout \in Layouts, rows.seat \in [Agent -> Desk]
  PROVE  Relinked(l) = rows.seat
<1> SUFFICES ASSUME NEW a \in Agent PROVE Relinked(l)[a] = rows.seat[a]
  <2>1. Relinked(l) = [a \in Agent |-> Relinked(l)[a]]
    BY DEF Relinked
  <2> QED
    BY <2>1
<1>1. rows.seat[a] \in Desk /\ rows.seat[a] # Nothing
  BY RequestAssumption
<1>2. \A d \in Desk : KeyOf[l][d] = KeyOf[rows.layout][rows.seat[a]] <=> d = rows.seat[a]
  BY <1>1, SeedAssumption DEF KeysStay
<1>3. (CHOOSE d \in Desk : KeyOf[l][d] = KeyOf[rows.layout][rows.seat[a]]) = rows.seat[a]
  BY <1>1, <1>2
<1> QED
  BY <1>1, <1>2, <1>3 DEF Relinked

\* Who writes its row writes the world of the moment, which settles the lag of
\* every request that edited the same.
LEMMA StepKeepsRowsLag ==
  ASSUME KeysStay, SInv, RowsLag, [Next]_vars
  PROVE  RowsLag'
<1> DEFINE Lags(what) == \E h \in Handler : pc[h] = "edited" /\ kind[h] = what
<1>1. /\ world \in WorldType
      /\ pc \in [Handler -> {"idle", "edited", "built", "opened", "written"}]
      /\ kind \in [Handler -> {Nothing, "map", "layout"} \cup Agent]
      /\ rows \in [map : Maps \cup {Nothing}, layout : Layouts, name : NameMaps,
                   seat : [Agent -> Desk \cup {Nothing}]]
  BY DEF SInv, TypeOK
<1> SUFFICES ASSUME source' = "db", up', sound'
             PROVE  /\ rows'.seat = world'.seat
                    /\ rows'.layout = world'.layout \/ Lags("layout")'
                    /\ \A a \in Agent : rows'.name[a] = world'.name[a] \/ Lags(a)'
  BY DEF RowsLag
<1>2. source = "db"
  BY HeldGrows DEF SInv
<1>3. ASSUME up, sound
      PROVE  /\ rows.seat = world.seat
             /\ rows.layout = world.layout \/ Lags("layout")
             /\ \A a \in Agent : rows.name[a] = world.name[a] \/ Lags(a)
  BY <1>2, <1>3 DEF RowsLag
<1>4. CASE EditStep
  <2>1. PICK h \in Handler : \E w, what : Edit(h, what, w) /\ EditedTo(what, w)
    BY <1>1, <1>4, EditType DEF EditStep
  <2>2. PICK w, what : Edit(h, what, w) /\ EditedTo(what, w)
    BY <2>1
  <2>3. /\ up /\ sound /\ rows' = rows /\ world' = w /\ pc[h] = "idle"
        /\ pc' = [pc EXCEPT ![h] = "edited"] /\ kind' = [kind EXCEPT ![h] = what]
    BY <2>2 DEF Edit
  <2>4. Lags(what)' /\ \A x : Lags(x) => Lags(x)'
    BY <1>1, <2>3
  <2>5. w.seat = world.seat
    BY <2>2 DEF EditedTo
  <2>6. w.layout = world.layout \/ what = "layout"
    BY <2>2 DEF EditedTo
  <2>7. ASSUME NEW a \in Agent
        PROVE  w.name[a] = world.name[a] \/ what = a
    <3>1. CASE w.name = world.name
      BY <3>1
    <3>2. CASE \E n : w.name = [world.name EXCEPT ![what] = n]
      BY <1>1, <3>2 DEF WorldType, NameMaps
    <3> QED
      BY <2>2, <3>1, <3>2 DEF EditedTo
  <2> QED
    BY <1>3, <2>3, <2>4, <2>5, <2>6, <2>7
<1>5. ASSUME NEW h \in Handler, WriteRows(h)
      PROVE  /\ rows'.seat = world'.seat
             /\ rows'.layout = world'.layout \/ Lags("layout")'
             /\ \A a \in Agent : rows'.name[a] = world'.name[a] \/ Lags(a)'
  <2>1. /\ up /\ sound /\ world' = world /\ rows' = Written(kind[h])
        /\ pc' = [pc EXCEPT ![h] = "idle"] /\ kind' = [kind EXCEPT ![h] = Nothing]
    BY <1>5 DEF WriteRows, Answers, Goes
  <2>2. \A x : x # kind[h] /\ Lags(x) => Lags(x)'
    BY <1>1, <2>1
  <2>3. world.seat \in [Agent -> Desk] /\ world.layout \in Layouts /\ world.name \in NameMaps
    BY <1>1 DEF WorldType
  <2>4. CASE kind[h] = "map"
    <3>1. rows'.seat = rows.seat /\ rows'.layout = rows.layout /\ rows'.name = rows.name
      BY <1>1, <2>1, <2>4 DEF Written
    <3> QED
      BY <1>3, <2>1, <2>2, <2>4, <3>1, RequestAssumption
  <2>5. CASE kind[h] = "layout"
    <3>1. /\ rows'.seat = Relinked(world.layout) /\ rows'.layout = world.layout
          /\ rows'.name = rows.name
      BY <1>1, <2>1, <2>5 DEF Written
    <3>2. Relinked(world.layout) = rows.seat
      BY <1>1, <1>3, <2>1, <2>3, RelinkedKeeps
    <3> QED
      BY <1>3, <2>1, <2>2, <2>5, <3>1, <3>2, RequestAssumption
  <2>6. CASE kind[h] \in Agent \cup {Nothing}
    <3> DEFINE new == [rows.name EXCEPT ![kind[h]] = world.name[kind[h]]]
    <3>1. rows' = [rows EXCEPT !.name = new]
      BY <2>1, <2>6, RequestAssumption DEF Written, Nothing
    <3>2. rows'.seat = rows.seat /\ rows'.layout = rows.layout /\ rows'.name = new
      BY <1>1, <3>1
    <3>3. \A a \in Agent : new[a] = IF a = kind[h] THEN world.name[a] ELSE rows.name[a]
      BY <1>1 DEF NameMaps
    <3>4. kind[h] # "layout"
      BY <2>6, RequestAssumption DEF Nothing
    <3> HIDE DEF new
    <3> QED
      BY <1>3, <2>1, <2>2, <3>2, <3>3, <3>4
  <2> QED
    BY <1>1, <2>4, <2>5, <2>6
<1>6. ASSUME NEW h \in Handler, BuildSave(h)
      PROVE  FALSE
  BY <1>2, <1>6 DEF BuildSave
<1>7. ASSUME NEW h \in Handler,
             OpenTmp(h) \/ WriteTmp(h) \/ RenameTmp(h) \/ RenameMisses(h) \/ DiskFails(h)
      PROVE  /\ up /\ sound /\ UNCHANGED <<rows, world>> /\ \A x : Lags(x) => Lags(x)'
  <2>1. CASE OpenTmp(h) \/ WriteTmp(h)
    BY <1>1, <2>1 DEF OpenTmp, WriteTmp, Goes
  <2>2. CASE RenameTmp(h) \/ RenameMisses(h)
    BY <1>1, <2>2 DEF RenameTmp, RenameMisses, Answers, Goes
  <2>3. CASE DiskFails(h)
    BY <2>3 DEF DiskFails
  <2> QED
    BY <1>7, <2>1, <2>2, <2>3
<1>8. CASE Restart
  <2>1. world' = FromRows /\ rows' = rows
    BY <1>2, <1>8 DEF Restart, Stored
  <2> QED
    BY <2>1 DEF FromRows
<1>9. CASE Crash \/ \E h \in Handler : RowsFail(h)
  BY <1>9 DEF Crash, RowsFail
<1>10. CASE UNCHANGED vars
  BY <1>3, <1>10 DEF vars
<1> QED
  BY <1>3, <1>4, <1>5, <1>6, <1>7, <1>8, <1>9, <1>10, StepKinds DEF FileStep, RowStep

\* Once every request is answered and no write has failed, the rows are the world
\* but for its map, however the requests overlapped, if desks keep their keys.
THEOREM RowsHoldTheWorld ==
  ASSUME KeysStay
  PROVE  Spec => []RowsKeepUp
<1>1. SInv /\ RowsLag => RowsKeepUp
  <2> SUFFICES ASSUME SInv, RowsLag, source = "db", up, Quiet, sound
               PROVE  Plan(FromRows) = [Plan(world) EXCEPT !.map = SeedMap]
    BY DEF RowsKeepUp, Stored
  <2>1. rows.seat = world.seat /\ rows.layout = world.layout
        /\ \A a \in Agent : rows.name[a] = world.name[a]
    BY DEF RowsLag, Quiet, InFlight
  <2>2. rows.name \in NameMaps /\ world.name \in NameMaps
    BY DEF SInv, TypeOK, WorldType
  <2>3. rows.name = world.name
    BY <2>1, <2>2 DEF NameMaps
  <2> QED
    BY <2>1, <2>3 DEF Plan, FromRows
<1>2. SInv /\ RowsLag /\ [Next]_vars => RowsLag'
  BY StepKeepsRowsLag
<1> QED
  BY <1>1, <1>2, InitRows, SInvHolds, PTL DEF Spec
=============================================================================
