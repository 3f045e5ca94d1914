---------------------------- MODULE NodeCommands ----------------------------
(* The commands that edit the node graph (runtime/src/commands): what each *)
(* does to the pipeline and to the controls that the layouts place for its *)
(* nodes, what it keeps to be reverted, and what its revert does.          *)
(*                                                                         *)
(* A document has, among other parts, a pipeline and layouts, a sequence   *)
(* of [name, controls]; controls maps the ids of controls to records with  *)
(* the path of their node. Applying a command gives [doc, state];          *)
(* reverting it gives a document. Where the code leaves a call early with  *)
(* an error, what was changed until then stays changed.                    *)
EXTENDS Pipeline, TLC

Status(doc) == doc.pipeline.status
Ok(doc) == Status(doc) = "ok"
Failed(doc) == [doc EXCEPT !.pipeline = Fail(@)]
With(doc, p) == [doc EXCEPT !.pipeline = p]
Panicked(doc, at) == [doc EXCEPT !.pipeline = Panic(@, at)]
Applied(doc, state) == [doc |-> doc, state |-> state]

NoState == [none |-> TRUE]

\* Do one thing after the other until one does not succeed.
InTurn(Step(_, _), doc, seq) ==
  FoldLeft(LAMBDA d, e : IF Ok(d) THEN Step(d, e) ELSE d, doc, seq)

AddLinks(doc, links) == InTurn(LAMBDA d, l : With(d, AddLink(d.pipeline, l)), doc, links)

UpdateNode(doc, path, config) ==
  IF path \in Paths(doc.pipeline)
  THEN [doc EXCEPT !.pipeline.nodes[path].vt = config.vt,
                   !.pipeline.nodes[path].children = config.children]
  ELSE Failed(doc)

UpdateNodes(doc, updates) == InTurn(LAMBDA d, u : UpdateNode(d, u[1], u[2]), doc, updates)

Config(node) == [vt |-> node.vt, children |-> node.children]

\* The containers that list a path, in the order of the graph (which order is
\* immaterial), with their configuration.
ContainersOf(p, path) ==
  LET listing == {c \in Paths(p) : IsContainer(p, c) /\ Contains(p.nodes[c].children, path)}
  IN  [n \in DOMAIN SetToSeq(listing) |->
         <<SetToSeq(listing)[n], Config(p.nodes[SetToSeq(listing)[n]])>>]

ChangeChildren(updates, Change(_)) ==
  [n \in DOMAIN updates |->
     <<updates[n][1], [updates[n][2] EXCEPT !.children = Change(@)]>>]

ValidParent(p, parent) == parent = NoParent \/ parent \in Paths(p)

PushChild(doc, parent, path) ==
  IF parent = NoParent THEN doc
  ELSE IF ~IsContainer(doc.pipeline, parent) THEN Failed(doc)
  ELSE With(doc, AddChild(doc.pipeline, parent, path))

RetainOthers(doc, parent, path) ==
  IF parent = NoParent THEN doc
  ELSE IF ~IsContainer(doc.pipeline, parent) THEN Failed(doc)
  ELSE [doc EXCEPT !.pipeline.nodes[parent].children = SelectSeq(@, LAMBDA c : c # path)]

NewNode(type, vt, children) ==
  [type |-> type, vt |-> vt, children |-> children, ports |-> vt, designer |-> DefaultDesigner]

-----------------------------------------------------------------------------
(* Nodes and links. *)

ApplyAddNode(doc, c) ==
  LET p    == doc.pipeline
      path == NewNodePath(p, c.type, c.parent, NoParent)
      node == NewNode(c.type, c.vt, c.children)
  IN  IF ~ValidParent(p, c.parent) THEN Applied(Failed(doc), NoState)
      ELSE Applied(With(doc, AddNodeAt(p, path, node, c.parent)), path)

RevertAddNode(doc, path) == With(doc, DeleteNode(doc.pipeline, path))

\* A single input lets go of its link before the new one is tried.
ApplyAddLink(doc, link) ==
  LET p     == doc.pipeline
      known == link.target \in Paths(p) /\ HasPorts(p.nodes[link.target].type)
      taken == InputLinks(p, link.target)
      frees == known /\ ~TakesMany(p.nodes[link.target].type) /\ taken # <<>>
      freed == IF frees THEN DeleteLink(p, taken[1]) ELSE p
      kept  == IF frees THEN <<taken[1]>> ELSE <<>>
  IN  IF ~known THEN Applied(Failed(doc), NoState)
      ELSE Applied(With(doc, AddLink(freed, link)), kept)

RevertAddLink(doc, link, previous) ==
  AddLinks(With(doc, DeleteLink(doc.pipeline, link)), previous)

ApplyRemoveLink(doc, link) == Applied(With(doc, DeleteLink(doc.pipeline, link)), NoState)
RevertRemoveLink(doc, link) == AddLinks(doc, <<link>>)

ApplyDisconnectPort(doc, path) ==
  Applied(With(doc, RemoveLinksFromPort(doc.pipeline, path)),
          LinksWhere(doc.pipeline, LAMBDA l : l.source = path))

ApplyDisconnectPorts(doc, path) ==
  Applied(With(doc, RemoveLinksFromNode(doc.pipeline, path)),
          LinksWhere(doc.pipeline, LAMBDA l : Touches(path, l)))

-----------------------------------------------------------------------------
(* Deletion. A container takes its children along, as a command of its own *)
(* whose state is kept in that of the container.                           *)

NodeControls(layout, path) ==
  {id \in DOMAIN layout.controls : layout.controls[id].node = path}

\* What the layouts show of a node, by their names: of two layouts of one name
\* the later counts.
ControlsByName(doc, path) ==
  [name \in {layout.name : layout \in ToSet(doc.layouts)} |->
     LET layout == doc.layouts[SelectLastInSeq(doc.layouts, LAMBDA l : l.name = name)]
     IN  Restrict(layout.controls, NodeControls(layout, path))]

TakeControls(doc, path) ==
  LET taken(layout) == [layout EXCEPT !.controls = Without(@, NodeControls(layout, path))]
  IN  [doc EXCEPT !.layouts = [n \in DOMAIN @ |-> taken(@[n])]]

\* The first layout of a name gets them.
ReturnControls(doc, byName) ==
  LET first(n) == n = SelectInSeq(doc.layouts, LAMBDA l : l.name = doc.layouts[n].name)
      returned(n, layout) ==
        IF layout.name \in DOMAIN byName /\ first(n)
        THEN [layout EXCEPT !.controls = byName[layout.name] @@ @] ELSE layout
  IN  [doc EXCEPT !.layouts = [n \in DOMAIN @ |-> returned(n, @[n])]]

RECURSIVE ApplyDelete(_, _)
ApplyDelete(doc, paths) ==
  LET deleteOne(acc, path) ==
        LET p      == acc.doc.pipeline
            node   == p.nodes[path]
            lists  == ContainersOf(DeleteNode(p, path), path)
            cut    == TakeControls(With(acc.doc, DeleteNode(p, path)), path)
            others == ChangeChildren(lists, LAMBDA s : SelectSeq(s, LAMBDA c : c # path))
            unlisted == UpdateNodes(cut, others)
            below  == ApplyDelete(unlisted, node.children)
            entry(inner) == [node |-> node, links |-> LinksWhere(p, LAMBDA l : Touches(path, l)),
                             controls |-> ControlsByName(acc.doc, path), lists |-> lists, inner |-> inner]
        IN  IF path \notin Paths(p) THEN acc
            ELSE IF node.type # "container"
                 THEN Applied(unlisted, Append(acc.state, entry(<<>>)))
                 ELSE Applied(below.doc,
                              Append(acc.state, entry(<<node.children, below.state>>)))
  IN  FoldLeft(deleteOne, Applied(doc, <<>>), paths)

\* For the mutation checks: the containers that listed the nodes do not again.
RevertDeleteUnlisted(doc, paths, states) ==
  LET reinsert(d, pair) ==
        ReturnControls(With(d, InsertNode(d.pipeline, pair[1], pair[2].node)), pair[2].controls)
      links == FlattenSeq([n \in DOMAIN states |-> states[n].links])
  IN  AddLinks(InTurn(reinsert, doc, Zip(paths, states)), links)

\* The paths of the command are paired with the states of the nodes it found.
\* The state of a container keeps those of its children without what these
\* contained. Links come back last, those of children with their container.
RECURSIVE RevertDelete(_, _, _)
RevertDelete(doc, paths, states) ==
  LET reinsert(d, pair) ==
        LET path == pair[1]
            s    == pair[2]
            back == ReturnControls(With(d, InsertNode(d.pipeline, path, s.node)), s.controls)
            listed == UpdateNodes(back, s.lists)
            childless == [n \in DOMAIN s.inner[2] |-> [s.inner[2][n] EXCEPT !.inner = <<>>]]
        IN  IF s.inner = <<>> \/ ~Ok(listed) THEN listed
            ELSE RevertDelete(listed, s.inner[1], childless)
      links == FlattenSeq([n \in DOMAIN states |-> states[n].links])
  IN  AddLinks(InTurn(reinsert, doc, Zip(paths, states)), links)

-----------------------------------------------------------------------------
(* Names. *)

RenameControls(doc, from, to) ==
  LET renamed(control) == IF control.node = from THEN [control EXCEPT !.node = to] ELSE control
      followed(controls) == [id \in DOMAIN controls |-> renamed(controls[id])]
  IN  [doc EXCEPT !.layouts = [n \in DOMAIN @ |-> [@[n] EXCEPT !.controls = followed(@)]]]

\* Renaming a container renames the children under its old path; the children
\* it lists afterwards are those. The layouts are only written at the end.
RenameChildren(doc, from, to) ==
  LET children == SelectSeq(doc.pipeline.nodes[to].children, LAMBDA c : IsPathPrefix(from, c))
      moved    == [n \in DOMAIN children |-> <<children[n], ReplacePrefix(children[n], from, to)>>]
      one(d, m) == RenameControls(With(d, RenameNode(d.pipeline, m[1], m[2])), m[1], m[2])
      listing  == [n \in DOMAIN moved |-> moved[n][2]]
      listed(d) == IF Ok(d) THEN Applied([d EXCEPT !.pipeline.nodes[to].children = listing], moved)
                   ELSE Applied([d EXCEPT !.layouts = doc.layouts], <<>>)
  IN  IF IsContainer(doc.pipeline, to) THEN listed(InTurn(one, doc, moved)) ELSE Applied(doc, <<>>)

ApplyRename(doc, from, to) ==
  LET renamed == With(doc, RenameNode(doc.pipeline, from, to))
      followed(below) ==
        LET lists  == ContainersOf(below.doc.pipeline, from)
            others == ChangeChildren(lists, LAMBDA s : ReplaceAll(s, from, to))
        IN  IF ~Ok(below.doc) THEN Applied(below.doc, NoState)
            ELSE Applied(RenameControls(UpdateNodes(below.doc, others), from, to),
                         [lists |-> lists, children |-> below.state])
  IN  IF ~Ok(renamed) THEN Applied(renamed, NoState)
      ELSE followed(RenameChildren(renamed, from, to))

RevertRename(doc, from, to, state) ==
  LET renamed  == With(doc, RenameNode(doc.pipeline, to, from))
      listed   == UpdateNodes(renamed, state.lists)
      placed   == RenameControls(listed, to, from)
      listing  == [n \in DOMAIN state.children |-> state.children[n][1]]
      named    == IF IsContainer(placed.pipeline, from)
                  THEN [placed EXCEPT !.pipeline.nodes[from].children = listing] ELSE placed
      one(d, m) == RenameControls(With(d, RenameNode(d.pipeline, m[2], m[1])), m[2], m[1])
      done     == InTurn(one, named, state.children)
  IN  IF ~Ok(renamed) THEN renamed
      ELSE IF ~Ok(done) THEN [done EXCEPT !.layouts = doc.layouts] ELSE done

-----------------------------------------------------------------------------
(* Copies, groups and templates. *)

\* Copies first of the nodes, then of the children of copied containers, then
\* of the links among what was copied. A node that is copied twice, for itself
\* and as a child, counts once among the old and twice among the new.
ApplyDuplicate(doc, paths, parent) ==
  LET copy(acc, path, into) ==
        LET p   == acc.doc.pipeline
            new == NewNodePath(p, p.nodes[path].type, into, path)
        IN  IF ~Ok(acc.doc) THEN acc
            ELSE IF path \notin Paths(p) THEN [acc EXCEPT !.doc = Failed(@)]
            ELSE [doc |-> PushChild(With(acc.doc, DuplicateNode(p, path, new)), into, new),
                  old |-> IF Contains(acc.old, path) THEN acc.old ELSE Append(acc.old, path),
                  new |-> Append(acc.new, new)]
      inner(acc, container) ==
        LET children == acc.doc.pipeline.nodes[container].children
            emptied  == [acc EXCEPT !.doc.pipeline.nodes[container].children = <<>>]
        IN  IF ~Ok(acc.doc) THEN acc
            ELSE FoldLeft(LAMBDA a, path : copy(a, path, container), emptied, children)
      withChildren(acc) ==
        FoldLeft(inner, acc, SelectSeq(acc.new, LAMBDA n : IsContainer(acc.doc.pipeline, n)))
      linked(copies) ==
        LET copyOf(path) == copies.new[CHOOSE n \in DOMAIN copies.old : copies.old[n] = path]
            within == LinksWhere(copies.doc.pipeline,
                                 LAMBDA l : {l.source, l.target} \subseteq ToSet(copies.old))
            links == [n \in DOMAIN within |->
                        [within[n] EXCEPT !.source = copyOf(@), !.target = copyOf(@)]]
        IN  IF ~Ok(copies.doc) THEN Applied(copies.doc, NoState)
            ELSE Applied(AddLinks(copies.doc, links), [nodes |-> copies.new, links |-> links])
  IN  linked(withChildren(FoldLeft(LAMBDA acc, path : copy(acc, path, parent),
                                   [doc |-> doc, old |-> <<>>, new |-> <<>>], paths)))

RevertDuplicate(doc, state) ==
  LET unlinked == FoldLeft(DeleteLink, doc.pipeline, state.links)
  IN  With(doc, FoldLeft(DeleteNode, unlinked,
                         SelectSeq(state.nodes, LAMBDA n : n \in Paths(unlinked))))

\* The container is made with the nodes under their old names, then each is
\* renamed into it.
ApplyGroup(doc, paths, parent) ==
  LET made == ApplyAddNode(doc, [type |-> "container", vt |-> "single",
                                 children |-> paths, parent |-> parent])
      into(acc, path) ==
        LET to == made.state \o path
            renamed(r) == Applied(r.doc, Append(acc.state, [from |-> path, to |-> to,
                                                            state |-> r.state]))
        IN  IF Ok(acc.doc) THEN renamed(ApplyRename(acc.doc, path, to)) ELSE acc
      grouped(acc) == Applied(acc.doc, [container |-> made.state, renames |-> acc.state])
  IN  IF Ok(made.doc) THEN grouped(FoldLeft(into, Applied(made.doc, <<>>), paths)) ELSE made

RevertGroup(doc, state) ==
  LET back == InTurn(LAMBDA d, r : RevertRename(d, r.from, r.to, r.state), doc, state.renames)
  IN  IF Ok(back) THEN RevertAddNode(back, state.container) ELSE back

\* A template of new nodes and links between them. Its links are asked for as
\* single whatever they carry, so a revert finds only those that are; the
\* others go with their nodes.
ApplyTemplate(doc, types, vt) ==
  LET add(acc, type) ==
        LET r == ApplyAddNode(acc.doc, [type |-> type, vt |-> vt, children |-> <<>>, parent |-> NoParent])
        IN  Applied(r.doc, Append(acc.state, r.state))
      nodes == FoldLeft(add, Applied(doc, <<>>), types)
      link  == [source |-> nodes.state[1], target |-> nodes.state[2], vt |-> "single"]
      r     == ApplyAddLink(nodes.doc, link)
  IN  Applied(r.doc, [nodes |-> nodes.state, link |-> link, previous |-> r.state])

RevertTemplate(doc, state) ==
  LET unlinked == RevertAddLink(doc, state.link, state.previous)
  IN  IF Ok(unlinked) THEN With(unlinked, FoldLeft(DeleteNode, unlinked.pipeline, state.nodes))
      ELSE unlinked

-----------------------------------------------------------------------------
(* Where a node stands, how it looks and how it is set. *)

ApplyShow(doc, c) ==
  LET p     == doc.pipeline
      node  == p.nodes[c.path]
      shown == [doc EXCEPT !.pipeline.nodes[c.path].designer.hidden = FALSE,
                           !.pipeline.nodes[c.path].designer.position = c.position]
  IN  IF ~ValidParent(p, c.parent) \/ c.path \notin Paths(p) THEN Applied(Failed(doc), NoState)
      ELSE Applied(PushChild(shown, c.parent, c.path),
                   [hidden |-> node.designer.hidden, position |-> node.designer.position])

RevertShow(doc, c, state) ==
  LET back == [doc EXCEPT !.pipeline.nodes[c.path].designer.hidden = state.hidden,
                          !.pipeline.nodes[c.path].designer.position = state.position]
  IN  IF c.path \notin Paths(doc.pipeline) THEN Failed(doc) ELSE RetainOthers(back, c.parent, c.path)

\* Swap one field of the designer of a node, or fail if it is gone.
SetDesigner(doc, path, field, value) ==
  IF path \in Paths(doc.pipeline)
  THEN [doc EXCEPT !.pipeline.nodes[path].designer[field] = value] ELSE Failed(doc)

Designer(doc, path, field) ==
  IF path \in Paths(doc.pipeline) THEN doc.pipeline.nodes[path].designer[field] ELSE NoState

ApplyHide(doc, path) ==
  Applied(SetDesigner(doc, path, "hidden", TRUE), Designer(doc, path, "hidden"))

ApplyColor(doc, path, color) ==
  Applied(SetDesigner(doc, path, "color", color), Designer(doc, path, "color"))

\* Nodes are moved one after the other, up to the first that is gone.
ApplyMove(doc, paths, position) ==
  Applied(InTurn(LAMBDA d, path : SetDesigner(d, path, "position", position), doc, paths),
          [path \in ToSet(paths) |-> Designer(doc, path, "position")])

RevertMove(doc, before) ==
  InTurn(LAMBDA d, path : SetDesigner(d, path, "position", before[path]),
         doc, SetToSeq(DOMAIN before))

ApplySetting(doc, path, vt) ==
  IF path \in Paths(doc.pipeline)
  THEN Applied([doc EXCEPT !.pipeline.nodes[path].vt = vt], Config(doc.pipeline.nodes[path]))
  ELSE Applied(Failed(doc), NoState)

-----------------------------------------------------------------------------

ApplyToNodes(doc, c) ==
  CASE c.op = "add"        -> ApplyAddNode(doc, c)
    [] c.op = "link"       -> ApplyAddLink(doc, c.link)
    [] c.op = "unlink"     -> ApplyRemoveLink(doc, c.link)
    [] c.op = "disconnectPort" -> ApplyDisconnectPort(doc, c.path)
    [] c.op = "disconnect" -> ApplyDisconnectPorts(doc, c.path)
    [] c.op = "delete"     -> ApplyDelete(doc, c.paths)
    [] c.op = "rename"     -> ApplyRename(doc, c.path, c.to)
    [] c.op = "duplicate"  -> ApplyDuplicate(doc, c.paths, c.parent)
    [] c.op = "group"      -> ApplyGroup(doc, c.paths, c.parent)
    [] c.op = "template"   -> ApplyTemplate(doc, c.types, c.vt)
    [] c.op = "show"       -> ApplyShow(doc, c)
    [] c.op = "hide"       -> ApplyHide(doc, c.path)
    [] c.op = "color"      -> ApplyColor(doc, c.path, c.color)
    [] c.op = "move"       -> ApplyMove(doc, c.paths, c.position)
    [] c.op = "set"        -> ApplySetting(doc, c.path, c.vt)

RevertOnNodes(doc, c, state) ==
  CASE c.op = "add"        -> RevertAddNode(doc, state)
    [] c.op = "link"       -> RevertAddLink(doc, c.link, state)
    [] c.op = "unlink"     -> RevertRemoveLink(doc, c.link)
    [] c.op \in {"disconnectPort", "disconnect"} -> AddLinks(doc, state)
    [] c.op = "delete"     -> RevertDelete(doc, c.paths, state)
    [] c.op = "rename"     -> RevertRename(doc, c.path, c.to, state)
    [] c.op = "duplicate"  -> RevertDuplicate(doc, state)
    [] c.op = "group"      -> RevertGroup(doc, state)
    [] c.op = "template"   -> RevertTemplate(doc, state)
    [] c.op = "show"       -> RevertShow(doc, c, state)
    [] c.op = "hide"       -> SetDesigner(doc, c.path, "hidden", state)
    [] c.op = "color"      -> SetDesigner(doc, c.path, "color", state)
    [] c.op = "move"       -> RevertMove(doc, state)
    [] c.op = "set"        -> UpdateNode(doc, c.path, state)
=============================================================================
