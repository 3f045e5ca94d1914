--------------------------- MODULE LayoutCommands ---------------------------
(* The commands that edit the layouts (runtime/layouts/commands): which    *)
(* layouts there are, and which controls they show. Layouts and controls   *)
(* are found by name and id, the first that fits; a layout may get the     *)
(* name of another. The order of controls in a layout is left out, and so  *)
(* is what a control shows that is not a node.                             *)
EXTENDS NodeCommands, Naturals

LayoutNamed(doc, name) == SelectInSeq(doc.layouts, LAMBDA layout : layout.name = name)
LayoutNames(doc) == {layout.name : layout \in ToSet(doc.layouts)}

\* update_layout: change the layout of a name, or fail if there is none.
UpdateLayout(doc, name, Change(_)) ==
  IF name \in LayoutNames(doc)
  THEN [doc EXCEPT !.layouts[LayoutNamed(doc, name)] = Change(@)] ELSE Failed(doc)

\* get_control: an id that the layout does not show is an error.
ShowsControl(doc, name, id) ==
  name \in LayoutNames(doc) /\ id \in DOMAIN doc.layouts[LayoutNamed(doc, name)].controls

-----------------------------------------------------------------------------
(* Layouts. *)

ApplyAddLayout(doc, c) ==
  Applied([doc EXCEPT !.layouts = Append(@, [name |-> c.name, controls |-> <<>>])], NoState)

RevertAddLayout(doc, c) ==
  [doc EXCEPT !.layouts = SelectSeq(@, LAMBDA layout : layout.name # c.name)]

ApplyRemoveLayout(doc, c) ==
  IF c.name \in LayoutNames(doc)
  THEN Applied([doc EXCEPT !.layouts = RemoveAt(@, LayoutNamed(doc, c.name))],
               doc.layouts[LayoutNamed(doc, c.name)])
  ELSE Applied(Failed(doc), NoState)

RevertRemoveLayout(doc, layout) == [doc EXCEPT !.layouts = Append(@, layout)]

RenameLayout(doc, from, to) == UpdateLayout(doc, from, LAMBDA layout : [layout EXCEPT !.name = to])

\* A copy has the controls of the original, under the same ids.
ApplyDuplicateLayout(doc, c) ==
  IF c.name \in LayoutNames(doc)
  THEN Applied([doc EXCEPT !.layouts =
                  Append(@, [doc.layouts[LayoutNamed(doc, c.name)] EXCEPT !.name = c.to])], c.to)
  ELSE Applied(Failed(doc), NoState)

RevertDuplicateLayout(doc, name) ==
  IF name \in LayoutNames(doc)
  THEN [doc EXCEPT !.layouts = RemoveAt(@, LayoutNamed(doc, name))] ELSE Failed(doc)

-----------------------------------------------------------------------------
(* Controls. Their ids are drawn anew whenever a command adds one. *)

NewControl(node) ==
  [node |-> node, label |-> 0, position |-> 0, size |-> 0, decoration |-> 0,
   behavior |-> 0, hotkey |-> 0]

PlaceControl(doc, name, id, control) ==
  UpdateLayout(doc, name, LAMBDA layout : [layout EXCEPT !.controls = (id :> control) @@ @])

ApplyAddControl(doc, name, node) ==
  IF node \in Paths(doc.pipeline)
  THEN Applied(PlaceControl([doc EXCEPT !.fresh = @ + 1], name, doc.fresh, NewControl(node)), doc.fresh)
  ELSE Applied(Failed(doc), NoState)

RevertAddControl(doc, name, id) ==
  UpdateLayout(doc, name, LAMBDA layout : [layout EXCEPT !.controls = Without(@, {id})])

ApplyDeleteControl(doc, c) ==
  IF ShowsControl(doc, c.name, c.id)
  THEN Applied(RevertAddControl(doc, c.name, c.id),
               doc.layouts[LayoutNamed(doc, c.name)].controls[c.id])
  ELSE Applied(Failed(doc), NoState)

RevertDeleteControl(doc, c, control) == PlaceControl(doc, c.name, c.id, control)

\* A node and a control for it. If the layout is gone the node stays.
ApplyAddControlWithNode(doc, c) ==
  LET node == ApplyAddNode(doc, [type |-> c.type, vt |-> "single", children |-> <<>>,
                                 parent |-> NoParent])
      control == ApplyAddControl(node.doc, c.name, node.state)
  IN  Applied(control.doc, [node |-> node.state, control |-> control.state])

RevertAddControlWithNode(doc, c, state) ==
  LET removed == RevertAddControl(doc, c.name, state.control)
  IN  IF Ok(removed) THEN RevertAddNode(removed, state.node) ELSE removed

\* Change one field of a control, and keep what it was.
SetControl(doc, c, field, value) ==
  IF ShowsControl(doc, c.name, c.id)
  THEN [doc EXCEPT !.layouts[LayoutNamed(doc, c.name)].controls[c.id][field] = value]
  ELSE Failed(doc)

ChangeControl(doc, c, field) ==
  Applied(SetControl(doc, c, field, c.value),
          IF ShowsControl(doc, c.name, c.id)
          THEN doc.layouts[LayoutNamed(doc, c.name)].controls[c.id][field] ELSE NoState)

RenameControl(doc, c)     == ChangeControl(doc, c, "label")
MoveControl(doc, c)       == ChangeControl(doc, c, "position")
ResizeControl(doc, c)     == ChangeControl(doc, c, "size")
DecorateControl(doc, c)   == ChangeControl(doc, c, "decoration")
SetControlBehavior(doc, c) == ChangeControl(doc, c, "behavior")
BindControlHotkey(doc, c) == ChangeControl(doc, c, "hotkey")

-----------------------------------------------------------------------------

LayoutOps == {"addLayout", "removeLayout", "renameLayout", "duplicateLayout", "addControl",
              "addControlWithNode", "deleteControl", "renameControl", "moveControl",
              "resizeControl", "decorateControl", "setControlBehavior", "bindControlHotkey"}

ApplyToLayouts(doc, c) ==
  CASE c.op = "addLayout"       -> ApplyAddLayout(doc, c)
    [] c.op = "removeLayout"    -> ApplyRemoveLayout(doc, c)
    [] c.op = "renameLayout"    -> Applied(RenameLayout(doc, c.name, c.to), NoState)
    [] c.op = "duplicateLayout" -> ApplyDuplicateLayout(doc, c)
    [] c.op = "addControl"      -> ApplyAddControl(doc, c.name, c.node)
    [] c.op = "addControlWithNode" -> ApplyAddControlWithNode(doc, c)
    [] c.op = "deleteControl"   -> ApplyDeleteControl(doc, c)
    [] c.op = "renameControl"   -> RenameControl(doc, c)
    [] c.op = "moveControl"     -> MoveControl(doc, c)
    [] c.op = "resizeControl"   -> ResizeControl(doc, c)
    [] c.op = "decorateControl" -> DecorateControl(doc, c)
    [] c.op = "setControlBehavior" -> SetControlBehavior(doc, c)
    [] c.op = "bindControlHotkey" -> BindControlHotkey(doc, c)

RevertOnLayouts(doc, c, state) ==
  CASE c.op = "addLayout"       -> RevertAddLayout(doc, c)
    [] c.op = "removeLayout"    -> RevertRemoveLayout(doc, state)
    [] c.op = "renameLayout"    -> RenameLayout(doc, c.to, c.name)
    [] c.op = "duplicateLayout" -> RevertDuplicateLayout(doc, state)
    [] c.op = "addControl"      -> RevertAddControl(doc, c.name, state)
    [] c.op = "addControlWithNode" -> RevertAddControlWithNode(doc, c, state)
    [] c.op = "deleteControl"   -> RevertDeleteControl(doc, c, state)
    [] c.op = "renameControl"   -> SetControl(doc, c, "label", state)
    [] c.op = "moveControl"     -> SetControl(doc, c, "position", state)
    [] c.op = "resizeControl"   -> SetControl(doc, c, "size", state)
    [] c.op = "decorateControl" -> SetControl(doc, c, "decoration", state)
    [] c.op = "setControlBehavior" -> SetControl(doc, c, "behavior", state)
    [] c.op = "bindControlHotkey" -> SetControl(doc, c, "hotkey", state)
=============================================================================
