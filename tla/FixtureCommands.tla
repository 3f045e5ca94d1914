--------------------------- MODULE FixtureCommands ---------------------------
(* The commands that edit the patch, the groups and the presets            *)
(* (components/fixtures/commands). One type of preset and one control      *)
(* stand for all. What a command takes from the programmer is part of the  *)
(* request, and so the same when it is redone. The library knows the       *)
(* definitions that are asked for.                                         *)
(*                                                                         *)
(* doc.fixtures maps ids to [name, address, configuration], doc.groups to  *)
(* [name, selection], doc.presets to [name, target, value, values]: values *)
(* by fixture of a selective preset, one value of a universal one. A node  *)
(* that stands for one of them has its id where others have a port type.   *)
EXTENDS NodeCommands, FixtureSelection

NextFree(table) == Max(DOMAIN table \cup {0}) + 1

NodesFor(doc, type, ids) ==
  LET nodes == doc.pipeline.nodes
  IN  SetToSeq({path \in Paths(doc.pipeline) : nodes[path].type = type /\ nodes[path].vt \in ids})

\* A group or a preset goes with the nodes that stand for it.
ApplyDeleteEntry(doc, table, type, id) ==
  LET paths == NodesFor(doc, type, {id})
      r == ApplyDelete([doc EXCEPT ![table] = Without(@, {id})], paths)
  IN  IF id \notin DOMAIN doc[table] THEN Applied(Failed(doc), NoState)
      ELSE Applied(r.doc, [entry |-> doc[table][id], paths |-> paths, nodes |-> r.state])

RevertDeleteEntry(doc, table, id, state) ==
  RevertDelete([doc EXCEPT ![table] = (id :> state.entry) @@ @], state.paths, state.nodes)

NameEntry(doc, table, id, name) ==
  IF id \in DOMAIN doc[table] THEN [doc EXCEPT ![table][id].name = name] ELSE Failed(doc)

ApplyRenameEntry(doc, table, id, name) ==
  Applied(NameEntry(doc, table, id, name),
          IF id \in DOMAIN doc[table] THEN doc[table][id].name ELSE NoState)

-----------------------------------------------------------------------------
(* Groups. *)

ApplyAddGroup(doc, c) ==
  LET id == NextFree(doc.groups)
  IN  Applied([doc EXCEPT !.groups = (id :> [name |-> c.name, selection |-> NoFixtures]) @@ @], id)

RevertAddGroup(doc, id) ==
  IF id \in DOMAIN doc.groups THEN [doc EXCEPT !.groups = Without(@, {id})] ELSE Failed(doc)

ApplyDeleteGroup(doc, c) == ApplyDeleteEntry(doc, "groups", "group", c.id)
RevertDeleteGroup(doc, c, state) == RevertDeleteEntry(doc, "groups", c.id, state)
ApplyRenameGroup(doc, c) == ApplyRenameEntry(doc, "groups", c.id, c.name)

Assigned(selection, c) ==
  LET named == FlattenSeq(GetFixtures(c.selection))
  IN  CASE c.mode = "overwrite" -> c.selection
        [] c.mode = "merge"     -> AddFixtures(selection, named)
        [] c.mode = "subtract"  -> FoldLeft(RemoveFixture, selection, named)

ApplyAssign(doc, c) ==
  IF c.id \in DOMAIN doc.groups
  THEN Applied([doc EXCEPT !.groups[c.id].selection = Assigned(@, c)], doc.groups[c.id].selection)
  ELSE Applied(Failed(doc), NoState)

RevertAssign(doc, c, selection) ==
  IF c.id \in DOMAIN doc.groups THEN [doc EXCEPT !.groups[c.id].selection = selection]
  ELSE Failed(doc)

-----------------------------------------------------------------------------
(* Presets. The programmer holds c.active, the value of what is selected   *)
(* (0 if there is none), and c.channels, all that it has written, as       *)
(* [fixtures, value] of which no two have a fixture in common; a value of  *)
(* 0 is that of a preset, which cannot be stored.                          *)

Programmed(c) ==
  LET given == SelectSeq(c.channels, LAMBDA channel : channel.value # 0)
  IN  [f \in UNION {channel.fixtures : channel \in ToSet(given)} |->
         (CHOOSE channel \in ToSet(given) : f \in channel.fixtures).value]

TargetOf(c) ==
  CASE c.target # "none"      -> c.target
    [] Len(c.channels) = 1    -> "universal"
    [] OTHER                  -> "selective"

ApplyStoreNew(doc, c) ==
  LET id == NextFree(doc.presets)
      preset == IF TargetOf(c) = "universal"
                THEN [name |-> c.name, target |-> "universal", value |-> c.active, values |-> <<>>]
                ELSE [name |-> c.name, target |-> "selective", value |-> 0, values |-> Programmed(c)]
  IN  IF \/ c.target = "none" /\ c.channels = <<>>
         \/ TargetOf(c) = "universal" /\ c.active = 0
      THEN Applied(Failed(doc), NoState)
      ELSE Applied([doc EXCEPT !.presets = (id :> preset) @@ @], [id |-> id])

ApplyStoreExisting(doc, c) ==
  LET preset == doc.presets[c.id]
      stored == IF preset.target = "universal" THEN [preset EXCEPT !.value = c.active]
                ELSE [preset EXCEPT !.values = Programmed(c) @@ @]
  IN  IF c.id \notin DOMAIN doc.presets THEN Applied(Failed(doc), NoState)
      ELSE IF preset.target = "universal" /\ c.active = 0 THEN Applied(Failed(doc), NoState)
      ELSE Applied([doc EXCEPT !.presets[c.id] = stored], [preset |-> preset])

ApplyStorePreset(doc, c) ==
  IF c.id = 0 THEN ApplyStoreNew(doc, c) ELSE ApplyStoreExisting(doc, c)

RevertStorePreset(doc, c, state) ==
  IF c.id # 0 THEN [doc EXCEPT !.presets = (c.id :> state.preset) @@ @]
  ELSE IF state.id \in DOMAIN doc.presets THEN [doc EXCEPT !.presets = Without(@, {state.id})]
  ELSE Failed(doc)

ApplyDeletePreset(doc, c) == ApplyDeleteEntry(doc, "presets", "preset", c.id)
RevertDeletePreset(doc, c, state) == RevertDeleteEntry(doc, "presets", c.id, state)
ApplyRenamePreset(doc, c) == ApplyRenameEntry(doc, "presets", c.id, c.name)

-----------------------------------------------------------------------------
(* The patch. Fixtures get the numbers from the first on, and whoever had  *)
(* them is replaced; undoing it deletes whoever has them.                  *)

Numbers(c) == c.first .. c.first + c.count - 1

ApplyPatch(doc, c) ==
  LET patched(f) == [name |-> c.name, address |-> c.address + f - c.first, configuration |-> 0]
  IN  Applied([doc EXCEPT !.fixtures = [f \in Numbers(c) |-> patched(f)] @@ @], NoState)

RevertPatch(doc, c) == [doc EXCEPT !.fixtures = Without(@, Numbers(c))]

\* Those that are not patched are passed over; their nodes are not.
ApplyDeleteFixtures(doc, c) ==
  LET paths == NodesFor(doc, "fixture", c.ids)
      r == ApplyDelete([doc EXCEPT !.fixtures = Without(@, c.ids)], paths)
  IN  Applied(r.doc, [fixtures |-> Restrict(doc.fixtures, c.ids \cap DOMAIN doc.fixtures),
                      paths |-> paths, nodes |-> r.state])

RevertDeleteFixtures(doc, state) ==
  RevertDelete([doc EXCEPT !.fixtures = state.fixtures @@ @], state.paths, state.nodes)

\* Only the settings that are given are changed; all are put back.
ApplyUpdateFixture(doc, c) ==
  IF c.id \in DOMAIN doc.fixtures
  THEN Applied([doc EXCEPT !.fixtures[c.id] = c.settings @@ @], doc.fixtures[c.id])
  ELSE Applied(Failed(doc), NoState)

RevertUpdateFixture(doc, c, settings) ==
  IF c.id \in DOMAIN doc.fixtures THEN [doc EXCEPT !.fixtures[c.id] = settings] ELSE Failed(doc)

-----------------------------------------------------------------------------

FixtureOps == {"addGroup", "deleteGroup", "renameGroup", "assignFixtures", "assignProgrammer",
               "storePreset", "deletePreset", "renamePreset", "patch", "deleteFixtures",
               "updateFixture"}

ApplyToFixtures(doc, c) ==
  CASE c.op = "addGroup"      -> ApplyAddGroup(doc, c)
    [] c.op = "deleteGroup"   -> ApplyDeleteGroup(doc, c)
    [] c.op = "renameGroup"   -> ApplyRenameGroup(doc, c)
    [] c.op \in {"assignFixtures", "assignProgrammer"} -> ApplyAssign(doc, c)
    [] c.op = "storePreset"   -> ApplyStorePreset(doc, c)
    [] c.op = "deletePreset"  -> ApplyDeletePreset(doc, c)
    [] c.op = "renamePreset"  -> ApplyRenamePreset(doc, c)
    [] c.op = "patch"         -> ApplyPatch(doc, c)
    [] c.op = "deleteFixtures" -> ApplyDeleteFixtures(doc, c)
    [] c.op = "updateFixture" -> ApplyUpdateFixture(doc, c)

RevertOnFixtures(doc, c, state) ==
  CASE c.op = "addGroup"      -> RevertAddGroup(doc, state)
    [] c.op = "deleteGroup"   -> RevertDeleteGroup(doc, c, state)
    [] c.op = "renameGroup"   -> NameEntry(doc, "groups", c.id, state)
    [] c.op \in {"assignFixtures", "assignProgrammer"} -> RevertAssign(doc, c, state)
    [] c.op = "storePreset"   -> RevertStorePreset(doc, c, state)
    [] c.op = "deletePreset"  -> RevertDeletePreset(doc, c, state)
    [] c.op = "renamePreset"  -> NameEntry(doc, "presets", c.id, state)
    [] c.op = "patch"         -> RevertPatch(doc, c)
    [] c.op = "deleteFixtures" -> RevertDeleteFixtures(doc, state)
    [] c.op = "updateFixture" -> RevertUpdateFixture(doc, c, state)
=============================================================================
