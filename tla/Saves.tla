------------------------------- MODULE Saves -------------------------------
(***************************************************************************)
(* What survives a restart: the request handlers of world_api.rs and       *)
(* agents_api.rs, the save file of persist.rs and the rows of              *)
(* db_persist.rs.  Handlers run concurrently; each edits the world under   *)
(* the world lock and persists in further steps, and the process can end   *)
(* between any two.  Rejected requests change nothing and are no action.   *)
(***************************************************************************)
EXTENDS Integers, FiniteSets

CONSTANTS
  Handler,        \* requests that can be in flight together
  Agent, Names,   \* names are integers, the byte order of the code
  MayTake,        \* MayTake[a]: the names requests give agent a
  Maps, Layouts,
  Fits,           \* the <<map, layout>> pairs validation accepts
  Desk, KeyOf,    \* KeyOf[l][d]: the key of desk d in layout l
  SeatOf,         \* SeatOf[a]: the desk_id of agent a in the seed
  SeedMap, SeedLayout, SeedName,
  Deployments,    \* subset of {"fixture", "db"}: WORLD_SOURCE
  MaxEdits        \* bound on the edits of one life of the process

Nothing == "nothing"

\* A file's content: the set of the save it holds, or bytes that do not parse (a
\* truncated or torn file).  A missing file reads the same.
Whole(save) == {save}
Garbage == {}

NameMaps == [Agent -> Names]
Distinct(names) == \A a, b \in Agent : names[a] = names[b] => a = b

WorldType == [map : Maps, layout : Layouts, name : NameMaps, order : NameMaps,
              seat : [Agent -> Desk]]

ASSUME SeedAssumption ==
  /\ SeedMap \in Maps /\ SeedLayout \in Layouts
  /\ SeedName \in NameMaps /\ Distinct(SeedName)
  /\ SeatOf \in [Agent -> Desk] /\ <<SeedMap, SeedLayout>> \in Fits
  /\ \A l \in Layouts : \A d, e \in Desk : KeyOf[l][d] = KeyOf[l][e] => d = e

ASSUME RequestAssumption ==
  /\ Names \subseteq Int /\ MayTake \in [Agent -> SUBSET Names]
  /\ Agent \cap {Nothing, "map", "layout"} = {} /\ Nothing \notin Desk
  /\ Deployments \subseteq {"fixture", "db"} /\ MaxEdits \in Nat

VARIABLES
  source,       \* the deployment's WORLD_SOURCE, fixed
  up,           \* the process runs
  world,        \* the part of the resident world that edits change; `order' holds
                \* the names the roster was last sorted by
  pc, kind,     \* per handler: where it stands, and what its request edited
  copy,         \* the save a handler built under the lock (the seed while it has none)
  opened,       \* where the file lies now that the handler opened as its temporary
  tmpThere,     \* world_save.json.tmp exists
  tmp, file,    \* the contents of world_save.json.tmp and world_save.json
  rows,         \* the database
  edits,
  past,         \* the seed and every world this process held
  lone,         \* the last edit began with no other request under way, and none began since
  safe,         \* the set of what the last lone save stored, empty after disturbed ones
  sound         \* no write to disk or database has failed since the last start

vars == <<source, up, world, pc, kind, copy, opened, tmpThere, tmp, file, rows, edits, past, lone,
          safe, sound>>

Seed == [map |-> SeedMap, layout |-> SeedLayout, name |-> SeedName, order |-> SeedName,
         seat |-> SeatOf]

\* What a user sees of a world: the roster's order is not part of it.
Plan(w) == [map |-> w.map, layout |-> w.layout, name |-> w.name, seat |-> w.seat]

InFlight == {h \in Handler : pc[h] # "idle"}
Quiet == InFlight = {}

Init ==
  /\ source \in Deployments /\ up = TRUE
  /\ world = Seed
  /\ pc = [h \in Handler |-> "idle"] /\ kind = [h \in Handler |-> Nothing]
  /\ copy = [h \in Handler |-> Seed] /\ opened = [h \in Handler |-> Nothing]
  /\ tmpThere = FALSE /\ tmp = Garbage /\ file = Garbage
  /\ rows = [map |-> Nothing, layout |-> SeedLayout, name |-> SeedName, seat |-> SeatOf]
  /\ edits = 0 /\ past = {Plan(Seed)} /\ lone = FALSE /\ safe = {Plan(Seed)} /\ sound = TRUE

-----------------------------------------------------------------------------
(* The edit, under the world lock. *)

Edit(h, what, w) ==
  /\ up /\ pc[h] = "idle" /\ edits < MaxEdits
  /\ world' = w
  /\ pc' = [pc EXCEPT ![h] = "edited"] /\ kind' = [kind EXCEPT ![h] = what]
  /\ edits' = edits + 1 /\ past' = past \cup {Plan(w)}
  /\ lone' = Quiet /\ safe' = IF Quiet THEN safe ELSE {}
  /\ UNCHANGED <<source, up, copy, opened, tmpThere, tmp, file, rows, sound>>

PutMap(h) ==
  \E m \in Maps : /\ <<m, world.layout>> \in Fits
                  /\ Edit(h, "map", [world EXCEPT !.map = m])

\* The roster is built anew, sorted by the names of the moment.
PutLayout(h) ==
  \E l \in Layouts : /\ <<world.map, l>> \in Fits
                     /\ Edit(h, "layout", [world EXCEPT !.layout = l, !.order = world.name])

PatchAgent(h) ==
  \E a \in Agent : \E n \in MayTake[a] :
    /\ \A b \in Agent \ {a} : world.name[b] # n
    /\ Edit(h, a, [world EXCEPT !.name[a] = n])

-----------------------------------------------------------------------------
(* The save file: copy the world under the lock, write it to a temporary    *)
(* file that all handlers share, rename that over the save.                 *)

Goes(h, from, to) == up /\ pc[h] = from /\ pc' = [pc EXCEPT ![h] = to]

\* The request is answered and its local state gone.
Answers(h, from) ==
  /\ Goes(h, from, "idle")
  /\ kind' = [kind EXCEPT ![h] = Nothing] /\ copy' = [copy EXCEPT ![h] = Seed]

\* Mutant: the overrides of the agents are left out of the file.
CopyWithoutNames(h) ==
  /\ Goes(h, "edited", "built") /\ source = "fixture"
  /\ copy' = [copy EXCEPT ![h] = [world EXCEPT !.name = SeedName]]
  /\ UNCHANGED <<source, up, world, kind, opened, tmpThere, tmp, file, rows, edits, past, lone,
                 safe, sound>>

BuildSave(h) ==
  /\ Goes(h, "edited", "built") /\ source = "fixture"
  /\ copy' = [copy EXCEPT ![h] = world]
  /\ UNCHANGED <<source, up, world, kind, opened, tmpThere, tmp, file, rows, edits, past, lone,
                 safe, sound>>

\* fs::write: open and truncate, then write from the start.
OpenTmp(h) ==
  /\ Goes(h, "built", "opened")
  /\ tmpThere' = TRUE /\ tmp' = Garbage /\ opened' = [opened EXCEPT ![h] = "tmp"]
  /\ UNCHANGED <<source, up, world, kind, copy, file, rows, edits, past, lone, safe, sound>>

\* Mutant: written behind what another handler wrote, not over it.
Appended(h, old) == {old \cup Whole(copy[h])}

\* Over what another handler wrote meanwhile the result is whole or has that
\* one's longer tail.
Overwritten(h, old) == IF old = Garbage THEN {Whole(copy[h])} ELSE {Whole(copy[h]), Garbage}

WriteTmp(h) ==
  /\ Goes(h, "opened", "written")
  /\ \/ opened[h] = "tmp"  /\ tmp' \in Overwritten(h, tmp)   /\ UNCHANGED file
     \/ opened[h] = "file" /\ file' \in Overwritten(h, file) /\ UNCHANGED tmp
     \/ opened[h] = "gone" /\ UNCHANGED <<tmp, file>>
  /\ opened' = [opened EXCEPT ![h] = Nothing]
  /\ UNCHANGED <<source, up, world, kind, copy, tmpThere, rows, edits, past, lone, safe, sound>>

\* Whoever has a file open keeps it through a rename.
Moved == [h \in Handler |-> CASE opened[h] = "tmp"  -> "file"
                              [] opened[h] = "file" -> "gone"
                              [] OTHER -> opened[h]]

\* Renames whatever bears the name, and answers.
RenameTmp(h) ==
  /\ Answers(h, "written") /\ tmpThere
  /\ file' = tmp /\ tmp' = Garbage /\ tmpThere' = FALSE /\ opened' = Moved
  /\ safe' = IF lone THEN {Plan(world)} ELSE safe
  /\ UNCHANGED <<source, up, world, rows, edits, past, lone, sound>>

\* Another handler has renamed the file away.  This failure, like the next, is
\* logged, and the request answered all the same.
RenameMisses(h) ==
  /\ Answers(h, "written") /\ ~ tmpThere
  /\ UNCHANGED <<source, up, world, opened, tmpThere, tmp, file, rows, edits, past, lone, safe, sound>>

\* The file system refuses to open, write or rename.
DiskFails(h) ==
  /\ \E from \in {"built", "opened", "written"} : Answers(h, from)
  /\ opened' = [opened EXCEPT ![h] = Nothing] /\ sound' = FALSE
  /\ UNCHANGED <<source, up, world, tmpThere, tmp, file, rows, edits, past, lone, safe>>

-----------------------------------------------------------------------------
(* The database: written under a second hold of the world lock. *)

\* Mutant: the seats that deleting the old rows unset stay unset.
SeatsLost(l) == [a \in Agent |-> Nothing]

\* Deleting the old rows unsets every seat; it is set again to the desk that
\* bears the old desk's key.
Relinked(l) ==
  [a \in Agent |->
     IF \E d \in Desk : rows.seat[a] # Nothing /\ KeyOf[l][d] = KeyOf[rows.layout][rows.seat[a]]
     THEN CHOOSE d \in Desk : KeyOf[l][d] = KeyOf[rows.layout][rows.seat[a]]
     ELSE Nothing]

Written(what) ==
  CASE what = "map"    -> [rows EXCEPT !.map = world.map]
    [] what = "layout" -> [rows EXCEPT !.layout = world.layout, !.seat = Relinked(world.layout)]
    [] OTHER           -> [rows EXCEPT !.name[what] = world.name[what]]

WriteRows(h) ==
  /\ Answers(h, "edited") /\ source = "db"
  /\ rows' = Written(kind[h])
  /\ UNCHANGED <<source, up, world, opened, tmpThere, tmp, file, edits, past, lone, safe, sound>>

\* A failed statement or transaction is logged and changes no row.
RowsFail(h) ==
  /\ Answers(h, "edited") /\ source = "db"
  /\ sound' = FALSE
  /\ UNCHANGED <<source, up, world, opened, tmpThere, tmp, file, rows, edits, past, lone, safe>>

-----------------------------------------------------------------------------
(* The end of the process, and what the next one loads. *)

Crash ==
  /\ up /\ up' = FALSE
  /\ pc' = [h \in Handler |-> "idle"] /\ opened' = [h \in Handler |-> Nothing]
  /\ kind' = [h \in Handler |-> Nothing] /\ copy' = [h \in Handler |-> Seed]
  /\ UNCHANGED <<source, world, tmpThere, tmp, file, rows, edits, past, lone, safe, sound>>

\* The overrides are applied one by one in the order of the file, each checked
\* against the names the others have by then.
NamesApply(save) ==
  \A a, b \in Agent : save.order[a] < save.order[b] => SeedName[b] # save.name[a]

\* Mutant: the map is validated before the layout is in place.
AppliesOneByOne(save) ==
  /\ <<save.map, SeedLayout>> \in Fits /\ <<save.map, save.layout>> \in Fits
  /\ NamesApply(save)

\* Map and layout are validated together; unchanged ones are not touched.
Applies(save) == <<save.map, save.layout>> \in Fits /\ NamesApply(save)

\* Mutant: a layout of the file rebuilds the roster from the seed once the names are in.
FromFileInPart(content) ==
  IF \E save \in content : Applies(save)
  THEN LET save == CHOOSE s \in content : TRUE
       IN  [save EXCEPT !.order = SeedName,
                        !.name = IF save.layout = SeedLayout THEN @ ELSE SeedName]
  ELSE Seed

\* A file that is missing, unreadable or not applicable leaves the seed; the
\* roster stays sorted by the seed's names.
FromFile(content) ==
  IF \E save \in content : Applies(save)
  THEN [(CHOOSE save \in content : TRUE) EXCEPT !.order = SeedName] ELSE Seed

\* The map comes from the file system; nothing checks that the layout fits it.
FromRows == [map |-> SeedMap, layout |-> rows.layout, name |-> rows.name,
             order |-> rows.name, seat |-> rows.seat]

Stored == IF source = "fixture" THEN FromFile(file) ELSE FromRows

\* An agent without a desk fails the load, and the process serves no world.
Loadable == \A a \in Agent : Stored.seat[a] # Nothing

Restart ==
  /\ ~ up /\ Loadable /\ up' = TRUE
  /\ world' = Stored /\ edits' = 0 /\ lone' = FALSE /\ sound' = TRUE
  /\ past' = {Plan(Seed), Plan(world')} /\ safe' = {Plan(world')}
  /\ UNCHANGED <<source, pc, kind, copy, opened, tmpThere, tmp, file, rows>>

Next ==
  \/ Crash \/ Restart
  \/ \E h \in Handler :
       \/ PutMap(h) \/ PutLayout(h) \/ PatchAgent(h)
       \/ BuildSave(h) \/ OpenTmp(h) \/ WriteTmp(h) \/ RenameTmp(h)
       \/ RenameMisses(h) \/ DiskFails(h)
       \/ WriteRows(h) \/ RowsFail(h)

Spec == Init /\ [][Next]_vars

-----------------------------------------------------------------------------
(* What must hold. *)

TypeOK ==
  /\ source \in {"fixture", "db"} /\ up \in BOOLEAN
  /\ world \in WorldType /\ copy \in [Handler -> WorldType]
  /\ pc \in [Handler -> {"idle", "edited", "built", "opened", "written"}]
  /\ kind \in [Handler -> {Nothing, "map", "layout"} \cup Agent]
  /\ opened \in [Handler -> {Nothing, "tmp", "file", "gone"}]
  /\ tmpThere \in BOOLEAN
  /\ \A content \in {tmp, file} : content \subseteq WorldType /\ \A s, t \in content : s = t
  /\ rows \in [map : Maps \cup {Nothing}, layout : Layouts, name : NameMaps,
               seat : [Agent -> Desk \cup {Nothing}]]
  /\ edits \in 0 .. MaxEdits /\ lone \in BOOLEAN /\ sound \in BOOLEAN

\* What a save stored while no other request was under way stays what a restart
\* brings back, until the next edit's own save replaces it (persist.rs:3-6).
LoneSaveIsSafe == source = "fixture" /\ safe # {} => Plan(Stored) \in safe

\* Whatever handlers did to the file together, a restart finds a world that once
\* was, or the seed: never parts of two.
RestoresHistory == source = "fixture" => Plan(Stored) \in past

\* The deployment with a file keeps one whole world of its history (History), step by
\* step; of the other, whose rows lag one by one, nothing is claimed here.
Durable == INSTANCE History WITH
  world <- IF source = "fixture" THEN Plan(world) ELSE Nothing,
  kept  <- IF source = "fixture" THEN Plan(Stored) ELSE Nothing,
  past  <- IF source = "fixture" THEN past ELSE {Nothing}

KeepsHistory == Durable!Spec

\* With no request under way and no write failed the database holds everything
\* but the map, for any number of concurrent requests.
RowsKeepUp ==
  source = "db" /\ up /\ Quiet /\ sound => Plan(Stored) = [Plan(world) EXCEPT !.map = SeedMap]

\* The promise as the documents give it: once requests are answered and no
\* write failed, a restart resumes the edited world.
AnsweredIsDurable == up /\ Quiet /\ sound => Plan(Stored) = Plan(world)
=============================================================================
