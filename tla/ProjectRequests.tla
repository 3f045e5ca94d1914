--------------------------- MODULE ProjectRequests ---------------------------
(* What users may ask for in a project: small sets of requests for every   *)
(* command. Some name what does not exist; where the code would panic at   *)
(* once (a node that is unwrapped, an index past the end, a spread of too  *)
(* few fixtures, a turn of none) they do not.                              *)
EXTENDS LayoutCommands, PlanCommands, CueCommands, FixtureCommands, ConnectionCommands

NodeOps == {"add", "link", "unlink", "disconnectPort", "disconnect", "delete", "rename",
            "duplicate", "group", "template", "show", "hide", "color", "move", "set"}

Apply(doc, c) ==
  CASE c.op \in NodeOps       -> ApplyToNodes(doc, c)
    [] c.op \in LayoutOps     -> ApplyToLayouts(doc, c)
    [] c.op \in PlanOps       -> ApplyToPlans(doc, c)
    [] c.op \in CueOps        -> ApplyToCues(doc, c)
    [] c.op \in EffectOps     -> ApplyToEffects(doc, c)
    [] c.op \in FixtureOps    -> ApplyToFixtures(doc, c)
    [] c.op \in ConnectionOps -> ApplyToConnections(doc, c)

Revert(doc, c, state) ==
  CASE c.op \in NodeOps       -> RevertOnNodes(doc, c, state)
    [] c.op \in LayoutOps     -> RevertOnLayouts(doc, c, state)
    [] c.op \in PlanOps       -> RevertOnPlans(doc, c, state)
    [] c.op \in CueOps        -> RevertOnCues(doc, c, state)
    [] c.op \in EffectOps     -> RevertOnEffects(doc, c, state)
    [] c.op \in FixtureOps    -> RevertOnFixtures(doc, c, state)
    [] c.op \in ConnectionOps -> RevertOnConnections(doc, c, state)

-----------------------------------------------------------------------------
(* Nodes. A command names nodes that exist, a deletion also one that       *)
(* another client has just deleted. Nothing is copied into a container     *)
(* that has a node of its name: the copy would replace the node and its    *)
(* wiring. A node is shown in a container that does not show it.           *)

Fader(n)  == <<Named("fader", n)>>
Select    == <<Named("select", 0)>>
Container == <<Named("container", 0)>>
Inner     == Container \o <<Named("fader", 2)>>
GoneNode  == <<Named("fader", 9)>>

Singly(paths) == {<<path>> : path \in paths}
Custom(path) == Append(Front(path), Named("custom", 0))

NodeRequests(doc, op) ==
  LET p      == doc.pipeline
      known  == Paths(p)
      outer  == {path \in known : Len(path) = 1}
      both   == {<<Fader(0), Fader(1)>>} \cap {<<a, b>> : a, b \in known}
      ported == {path \in known : HasPorts(p.nodes[path].type)}
      linked == {l.source : l \in ToSet(p.links)}
      parents == {path \in known : IsContainer(p, path)} \cup {NoParent}
      stale  == {<<GoneNode, path>> : path \in known}
      asked(s, t) == [source |-> s, target |-> t, vt |-> p.nodes[s].ports]
  IN  CASE op = "add" -> [op : {op}, type : {"fader", "container"}, vt : {"single"},
                          children : {<<>>}, parent : parents]
        [] op = "link" -> {[op |-> op, link |-> asked(s, t)] : s, t \in ported}
        [] op = "unlink" -> [op : {op}, link : ToSet(p.links)]
        [] op = "disconnectPort" -> [op : {op}, path : linked]
        [] op = "disconnect" -> [op : {op}, path : ported]
        [] op = "delete" -> [op : {op}, paths : Singly(known) \cup both \cup stale]
        [] op = "rename" -> {[op |-> op, path |-> path, to |-> Custom(path)] : path \in known}
        [] op = "duplicate" ->
             {c \in [op : {op}, paths : Singly(known) \cup both, parent : parents] :
                c.parent # NoParent =>
                  \A path \in ToSet(c.paths) : Append(c.parent, Last(path)) \notin known}
        [] op = "group" -> [op : {op}, paths : Singly(outer) \cup both, parent : {NoParent}]
        [] op = "template" -> [op : {op}, types : {<<"fader", "select">>}, vt : PortTypes]
        [] op = "show" ->
             {c \in [op : {op}, path : outer, parent : parents, position : {1}] :
                c.parent # NoParent =>
                  c.path \notin ToSet(p.nodes[c.parent].children) \cup {c.parent}}
        [] op = "hide" -> [op : {op}, path : outer]
        [] op = "color" -> [op : {op}, path : outer, color : {1}]
        [] op = "move" -> [op : {op}, paths : both, position : {1}]
        [] op = "set" -> [op : {op}, path : {path \in known : TakesMany(p.nodes[path].type)},
                          vt : PortTypes]

-----------------------------------------------------------------------------
(* Layouts and plans. *)

Names == {"main", "other"}
ControlIds(doc) == UNION {DOMAIN layout.controls : layout \in ToSet(doc.layouts)}

LayoutRequests(doc, op) ==
  CASE op \in {"addLayout", "removeLayout"} -> [op : {op}, name : Names]
    [] op \in {"renameLayout", "duplicateLayout"} -> [op : {op}, name : Names, to : Names]
    [] op = "addControl" -> [op : {op}, name : Names, node : Paths(doc.pipeline) \cup {GoneNode}]
    [] op = "addControlWithNode" -> [op : {op}, name : Names, type : {"fader"}]
    [] op = "deleteControl" -> [op : {op}, name : Names, id : ControlIds(doc)]
    [] OTHER -> [op : {op}, name : Names, id : ControlIds(doc), value : {1}]

ImageIds(doc) == UNION {DOMAIN plan.images : plan \in ToSet(doc.plans)}

PlacedOf(doc, name, ids) ==
  IF name \in PlanNames(doc) THEN Cardinality(PlacedAmong(PlanOf(doc, name), ids)) ELSE 4

PlanRequests(doc, op) ==
  LET rest(fields) == {c \in fields : PlacedOf(doc, c.name, c.ids) = 4}
      all == <<4, 3, 2, 1>>
  IN  CASE op \in {"addPlan", "removePlan", "addScreen", "addImage"} -> [op : {op}, name : Names]
        [] op = "renamePlan" -> [op : {op}, name : Names, to : Names]
        [] op = "addToPlan" -> [op : {op}, name : Names, ids : {<<1>>, <<5, 6>>}]
        [] op = "moveInPlan" -> [op : {op}, name : Names, ids : {<<1, 5>>}, by : {[x |-> 1, y |-> 2]}]
        [] op = "align" -> [op : {op}, name : Names, ids : {all}, rows : BOOLEAN, groups : {2},
                            rowGap : {0}, columnGap : {1}]
        [] op = "spread" -> rest([op : {op}, name : Names, ids : {all}, shape : {"square", "triangle"}])
        [] op = "transform" -> rest([op : {op}, name : Names, ids : {all}, quarters : 1 .. 2])
        [] op = "removeImage" -> [op : {op}, name : Names, id : ImageIds(doc)]
        [] OTHER -> [op : {op}, name : Names, id : ImageIds(doc), value : {1}]

-----------------------------------------------------------------------------
(* Cues and effects. Ids of which there is none: Missing.                  *)

Missing == 9
Known(table) == DOMAIN table \cup {Missing}

Stored ==
  {[controls |-> <<[value |-> 2, fixtures |-> {1, 2}]>>, presets |-> <<>>,
    effects |-> <<[effect |-> 1, offset |-> 0]>>],
   [controls |-> <<[value |-> 1, fixtures |-> {3}]>>,
    presets |-> <<[value |-> 1, fixtures |-> {2}]>>, effects |-> <<>>]}

CueRequests(doc, op) ==
  LET ids == Known(doc.sequences)
  IN  CASE op \in {"setWrapAround", "setStopOnLastCue"} -> [op : {op}, id : ids, value : BOOLEAN]
        [] op = "setPriority" -> [op : {op}, id : ids, value : {1}]
        [] op = "setCueValue" -> [op : {op}, id : ids, cue : {1, Missing}, index : 1 .. 2, value : {1}]
        [] op = "setEffectOffset" -> [op : {op}, id : ids, cue : 1 .. 2, effect : {1}, value : {1}]
        [] op = "store" ->
             {c @@ stored : c \in [op : {op}, id : ids, mode : {"overwrite", "merge", "addCue"},
                                   cue : {0, 1, Missing}],
                            stored \in Stored}
        [] op = "duplicateSequence" -> [op : {op}, id : ids]
        [] OTHER -> [op : {op}, id : ids, cue : {1, Missing}, value : {1}]

EffectRequests(doc, op) ==
  LET ids == Known(doc.effects)
      channels(id) == IF id = Missing THEN {1} ELSE DOMAIN doc.effects[id]
      steps(id, channel) == IF id = Missing THEN {1} ELSE DOMAIN doc.effects[id][channel]
      ofChannel == UNION {[op : {op}, id : {id}, channel : channels(id)] : id \in ids}
      ofStep == UNION {[op : {op}, id : {c.id}, channel : {c.channel}, at : steps(c.id, c.channel)] :
                         c \in ofChannel}
  IN  CASE op = "addEffect" -> {[op |-> op]}
        [] op \in {"deleteEffect", "addChannel"} -> [op : {op}, id : ids]
        [] op = "deleteChannel" -> ofChannel
        [] op = "addStep" -> {c @@ [step |-> 2] : c \in ofChannel}
        [] op = "deleteStep" -> ofStep
        [] op = "updateStep" -> {c @@ [step |-> 2] : c \in ofStep}

-----------------------------------------------------------------------------
(* Fixtures and connections. *)

\* What the programmer may hold: nothing, the value of a preset, or written ones.
Programmers ==
  {[active |-> 0, channels |-> <<>>],
   [active |-> 0, channels |-> <<[fixtures |-> {1}, value |-> 0]>>],
   [active |-> 3, channels |-> <<[fixtures |-> {1}, value |-> 3]>>],
   [active |-> 3, channels |-> <<[fixtures |-> {1}, value |-> 3], [fixtures |-> {2}, value |-> 4]>>]}

FixtureRequests(doc, op) ==
  LET groups == Known(doc.groups)
      presets == Known(doc.presets)
  IN  CASE op = "addGroup" -> [op : {op}, name : {1}]
        [] op = "deleteGroup" -> [op : {op}, id : groups]
        [] op = "renameGroup" -> [op : {op}, id : groups, name : {1}]
        [] op \in {"assignFixtures", "assignProgrammer"} ->
             [op : {op}, id : groups, mode : {"overwrite", "merge", "subtract"},
              selection : {SelectionOf(<<2, 1>>)}]
        [] op = "storePreset" ->
             {c @@ p : c \in [op : {op}, id : {0} \cup presets, name : {1},
                              target : {"none", "universal", "selective"}], p \in Programmers}
        [] op = "deletePreset" -> [op : {op}, id : presets]
        [] op = "renamePreset" -> [op : {op}, id : presets, name : {1}]
        [] op = "patch" -> [op : {op}, first : {2, 3}, count : {2}, name : {1}, address : {5}]
        [] op = "deleteFixtures" -> [op : {op}, ids : {{1}, {1, 2, Missing}}]
        [] op = "updateFixture" -> [op : {op}, id : Known(doc.fixtures),
                                    settings : {[name |-> 2], [address |-> 7, configuration |-> 1]}]

ConnectionRequests(doc, op) ==
  CASE op \in {"addConnection", "addInput"} -> [op : {op}, settings : {1}]
    [] op = "configureConnection" -> [op : {op}, id : Known(doc.connections), settings : {1}]
    [] op = "deleteConnection" -> [op : {op}, id : Known(doc.connections)]
    [] op = "configureInput" -> [op : {op}, id : Known(doc.inputs), settings : {1}]
    [] op = "deleteInput" -> [op : {op}, id : Known(doc.inputs)]
    [] op = "addOutput" -> [op : {op}, name : Names, type : {"artnet", "sacn"}, settings : {1}]
    [] op = "configureOutput" ->
         [op : {op}, id : Names, name : Names, type : {"artnet", "sacn"}, settings : {1}]
    [] op = "deleteOutput" -> [op : {op}, name : Names]
    [] op = "changeProfile" -> [op : {op}, device : Known(doc.profiles), profile : 0 .. 2]
    [] op = "updateSection" ->
         [op : {op}, id : Known(doc.sections), sides : {[input |-> 1], [output |-> 1]}]

Requests(doc, op) ==
  CASE op \in NodeOps       -> NodeRequests(doc, op)
    [] op \in LayoutOps     -> LayoutRequests(doc, op)
    [] op \in PlanOps       -> PlanRequests(doc, op)
    [] op \in CueOps        -> CueRequests(doc, op)
    [] op \in EffectOps     -> EffectRequests(doc, op)
    [] op \in FixtureOps    -> FixtureRequests(doc, op)
    [] op \in ConnectionOps -> ConnectionRequests(doc, op)
=============================================================================
