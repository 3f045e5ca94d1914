------------------------------ MODULE Pipeline ------------------------------
(* The node graph and the worker that runs it. The graph keeps its nodes   *)
(* and the links between their ports (runtime/src/pipeline.rs); the worker *)
(* keeps, beside them, a memory cell per connected output and the list of  *)
(* cells every input reads (runtime/pipeline/src/worker.rs, ports.rs). The *)
(* same call updates both, each with its own idea of what a node is called.*)
(*                                                                         *)
(* A pipeline is a value, and every operator maps a pipeline to the next   *)
(* one, because a command makes several of these calls in one step:        *)
(*   nodes    path -> [type, vt, children, ports, designer]                *)
(*            vt is the port type its settings ask for, ports the port     *)
(*            type it had when its ports were last listed                  *)
(*   links    sequence of [source, target, vt]                             *)
(*   cells    path -> type of the values of the cell its output writes     *)
(*   inputs   path -> [vt, transports], the receiver of its input          *)
(*   status   "ok", "error" (an Err was returned) or where it panicked      *)
(* A transport is [name, cell]: what the source was called when it was     *)
(* connected, and the node whose cell it reads now (Gone when that node    *)
(* was deleted). A node has at most one input and one output port.         *)
EXTENDS Naturals, Sequences, SequencesExt

Gone == <<>>
NoParent == <<>>

PortTypes == {"single", "color"}
NodeTypes == {"fader", "select", "container", "sequencer", "fixture", "group", "preset"}

\* Which ports a type has: a fader reads one value, a select any number
\* of values of the type it is set to, a container has no ports. The nodes
\* that stand for sequences, fixtures, groups and presets have some, which are
\* not linked here.
HasPorts(type) == type \in {"fader", "select"}
TakesMany(type) == type = "select"

\* A path is the sequence of its names; a name is [type, id] when the program
\* chose it, so that ids can be read back from it.
Named(type, id) == [type |-> type, id |-> id]
Paths(p) == DOMAIN p.nodes
DefaultDesigner == [hidden |-> FALSE, position |-> 0, color |-> 0]

EmptyPipeline ==
  [nodes |-> <<>>, links |-> <<>>, cells |-> <<>>, inputs |-> <<>>, status |-> "ok"]

IsPathPrefix(prefix, path) == IsPrefix(prefix, path)

\* NodePath::replace_prefix: every occurrence of the prefix is replaced, which
\* for names that are not repeated is the leading one.
ReplacePrefix(path, prefix, new) ==
  new \o SubSeq(path, Len(prefix) + 1, Len(path))

\* The members of a sequence that are in a set, in their order.
Among(seq, set) == FoldLeft(LAMBDA found, e : IF e \in set THEN Append(found, e) ELSE found, <<>>, seq)

Without(f, keys) == [k \in DOMAIN f \ keys |-> f[k]]
Inserted(f, key, value) == [k \in DOMAIN f \cup {key} |-> IF k = key THEN value ELSE f[k]]
RenameKey(f, from, to) ==
  IF from \in DOMAIN f THEN Inserted(Without(f, {from}), to, f[from]) ELSE f

Fail(p) == [p EXCEPT !.status = "error"]
Panic(p, at) == [p EXCEPT !.status = at]

\* Where the code unwraps what it expects to be there.
Panics == {"connect", "disconnect", "read", "write", "rename"}

-----------------------------------------------------------------------------
(* The worker. *)

Unconnected(vt) == [vt |-> vt, transports |-> <<>>]

\* A node is registered with a fresh receiver for its input; whatever was
\* registered under the path before is replaced.
RegisterNode(p, path, node) ==
  IF HasPorts(node.type)
  THEN [p EXCEPT !.inputs = Inserted(@, path, Unconnected(node.ports))]
  ELSE [p EXCEPT !.inputs = Without(@, {path})]

\* As a source is connected: by the name it has, to the cell that it writes.
Transport(source) == [name |-> source, cell |-> source]

\* The first link of an output makes its cell, later ones read the same cell,
\* which must hold values of the type of the link. A target without a receiver
\* is only warned about.
Connect(p, link) ==
  LET made == link.source \notin DOMAIN p.cells
      q    == IF made THEN [p EXCEPT !.cells = Inserted(@, link.source, link.vt)] ELSE p
      many == TakesMany(p.nodes[link.target].type)
      new  == Transport(link.source)
  IN  IF q.cells[link.source] # link.vt THEN Panic(q, "connect")
      ELSE IF link.target \notin DOMAIN q.inputs THEN q
      ELSE IF q.inputs[link.target].vt # link.vt THEN Panic(q, "connect")
      ELSE [q EXCEPT !.inputs[link.target].transports = IF many THEN Append(@, new) ELSE <<new>>]

\* Without the first transport from a source of this name.
Unplugged(transports, name) ==
  LET named == {n \in DOMAIN transports : transports[n].name = name}
  IN  IF named = {} THEN transports ELSE RemoveAt(transports, Min(named))

\* For the mutation checks: the transport is looked up by the wrong end.
DisconnectByTarget(p, link) ==
  IF link.target \notin DOMAIN p.inputs THEN p
  ELSE [p EXCEPT !.inputs[link.target].transports = Unplugged(@, link.target)]

\* The transport is looked up by the name of the source. A receiver of another
\* type has no such transport: one that takes many panics at the first it
\* looks at.
Disconnect(p, link) ==
  LET input == p.inputs[link.target]
      other == input.vt # link.vt
  IN  IF link.target \notin DOMAIN p.inputs \/ input.transports = <<>> THEN p
      ELSE IF other
           THEN IF TakesMany(p.nodes[link.target].type) THEN Panic(p, "disconnect") ELSE p
      ELSE [p EXCEPT !.inputs[link.target].transports = Unplugged(@, link.source)]

DisconnectAll(p, links) == FoldLeft(Disconnect, p, links)

\* For the mutation checks: the receiver of the input is kept.
RemoveNodeKeepingInput(p, path) == [p EXCEPT !.cells = Without(@, {path})]

\* A cell dies with the node that writes it; whoever still reads it reads its
\* last value.
RemoveNode(p, path) ==
  LET forget(t) == IF t.cell = path THEN [t EXCEPT !.cell = Gone] ELSE t
      left(i) == [i EXCEPT !.transports = [n \in DOMAIN i.transports |-> forget(i.transports[n])]]
      rest == Without(p.inputs, {path})
  IN  [p EXCEPT !.cells = Without(@, {path}),
                !.inputs = [target \in DOMAIN rest |-> left(rest[target])]]

\* The worker's entries move to the new path and the cell stays the same one,
\* so whoever read it reads it still, under the name it had.
RenameInWorker(p, from, to) ==
  LET follow(t) == IF t.cell = from THEN [t EXCEPT !.cell = to] ELSE t
      moved(i) == [i EXCEPT !.transports = [n \in DOMAIN i.transports |-> follow(i.transports[n])]]
      renamed == RenameKey(p.inputs, from, to)
  IN  [p EXCEPT !.cells = RenameKey(@, from, to),
                !.inputs = [target \in DOMAIN renamed |-> moved(renamed[target])]]

\* Before the nodes run, an input without a receiver, or with one of another
\* port type, is registered anew: what was connected to it is lost.
CheckReceivers(p) ==
  LET stale(path) == /\ HasPorts(p.nodes[path].type)
                     /\ \/ path \notin DOMAIN p.inputs
                        \/ p.inputs[path].vt # p.nodes[path].ports
      kept == DOMAIN p.inputs \cup {path \in Paths(p) : stale(path)}
  IN  [p EXCEPT !.inputs = [path \in kept |->
         IF path \in Paths(p) /\ stale(path) THEN Unconnected(p.nodes[path].ports) ELSE @[path]]]

\* Some of the nodes have work to do. One that takes many values reads them as
\* the type its settings ask for, and if it reads any writes as that type; the
\* others write in any case. A receiver or a cell of another type panics.
ProcessNodes(p, working) ==
  LET asked(path)   == p.nodes[path].vt
      many(path)    == TakesMany(p.nodes[path].type)
      reading       == {path \in working : many(path) /\ p.inputs[path].transports # <<>>}
      misread(path) == p.inputs[path].vt # asked(path)
      writing       == DOMAIN p.cells \cap ({path \in working : ~many(path)} \cup reading)
  IN  IF \E path \in reading : misread(path) THEN Panic(p, "read")
      ELSE IF \E path \in writing : p.cells[path] # asked(path) THEN Panic(p, "write")
      ELSE p

-----------------------------------------------------------------------------
(* The graph. *)

\* The next free number among all nodes whose last name is of this type.
NextId(p, type) ==
  LET ids == {path[Len(path)].id : path \in {q \in Paths(p) : q[Len(q)].type = type}}
  IN  IF ids = {} THEN 0 ELSE 1 + CHOOSE n \in ids : \A m \in ids : m <= n

\* A node copied into a container it is not in keeps its own name, whether or
\* not the container has a node of that name.
NewNodePath(p, type, parent, old) ==
  IF old # NoParent /\ parent # NoParent /\ ~IsPathPrefix(parent, old)
  THEN Append(parent, old[Len(old)])
  ELSE Append(parent, Named(type, NextId(p, type)))

IsContainer(p, path) == path \in Paths(p) /\ p.nodes[path].type = "container"

AddChild(p, parent, path) ==
  IF IsContainer(p, parent)
  THEN [p EXCEPT !.nodes[parent].children = Append(@, path)] ELSE p

InsertNode(p, path, node) ==
  [RegisterNode(p, path, node) EXCEPT !.nodes = Inserted(@, path, node)]

AddNodeAt(p, path, node, parent) == InsertNode(AddChild(p, parent, path), path, node)

DuplicateNode(p, path, new) == InsertNode(p, new, p.nodes[path])

\* Links follow the new name; a missing node is unwrapped.
RenameNode(p, from, to) ==
  LET rename(path) == IF path = from THEN to ELSE path
      renamed(l) == [l EXCEPT !.source = rename(@), !.target = rename(@)]
  IN  IF to \in Paths(p) THEN Fail(p)
      ELSE IF from \notin Paths(p) THEN Panic(p, "rename")
      ELSE RenameInWorker([p EXCEPT !.nodes = RenameKey(@, from, to),
                                    !.links = [n \in DOMAIN @ |-> renamed(@[n])]], from, to)

LinksWhere(p, Matches(_)) == SelectSeq(p.links, Matches)

RemoveLinks(p, gone) ==
  DisconnectAll([p EXCEPT !.links = Among(@, ToSet(@) \ gone)], Among(p.links, gone))

\* For the mutation checks: the links into a node are overlooked.
TouchesAsSource(path, link) == path = link.source

Touches(path, link) == path \in {link.source, link.target}
LinksOf(p, path) == {l \in ToSet(p.links) : Touches(path, l)}
RemoveLinksFromNode(p, path) == RemoveLinks(p, LinksOf(p, path))
RemoveLinksFromPort(p, path) == RemoveLinks(p, {l \in ToSet(p.links) : l.source = path})
DeleteLink(p, link) == RemoveLinks(p, {link})

\* The node leaves the graph before its links do, and the worker disconnects
\* those once more.
DeleteNode(p, path) ==
  LET links == Among(p.links, LinksOf(p, path))
      gone  == RemoveLinksFromNode(p, path)
  IN  [RemoveNode(DisconnectAll(gone, links), path) EXCEPT !.nodes = Without(@, {path})]

\* For the mutation checks: the type of the target is not looked at.
AddLinkUnchecked(p, link) ==
  LET typed == [link EXCEPT !.vt = p.nodes[link.source].ports]
      connected == Connect(p, typed)
  IN  IF ~({link.source, link.target} \subseteq Paths(p)) THEN Fail(p)
      ELSE IF connected.status # "ok" THEN connected
      ELSE [connected EXCEPT !.links = Append(@, typed)]

\* A link needs both ports and one type for both; it takes the type of its
\* source whatever the caller asked for.
AddLink(p, link) ==
  LET known == /\ {link.source, link.target} \subseteq Paths(p)
               /\ HasPorts(p.nodes[link.source].type)
               /\ HasPorts(p.nodes[link.target].type)
      typed == [link EXCEPT !.vt = p.nodes[link.source].ports]
      connected == Connect(p, typed)
  IN  IF ~known \/ p.nodes[link.source].ports # p.nodes[link.target].ports THEN Fail(p)
      ELSE IF connected.status # "ok" THEN connected
      ELSE [connected EXCEPT !.links = Append(@, typed)]

InputLinks(p, path) == SelectSeq(p.links, LAMBDA l : l.target = path)

\* Ports are listed again while a node view is open.
RefreshPorts(p) ==
  [p EXCEPT !.nodes = [path \in Paths(p) |-> [p.nodes[path] EXCEPT !.ports = p.nodes[path].vt]]]

-----------------------------------------------------------------------------
(* What the worker is for. *)

\* How often a sequence has a member of a set.
Times(seq, set) == Cardinality({n \in DOMAIN seq : seq[n] \in set})

Links(p) == [source : Paths(p), target : Paths(p), vt : PortTypes]
Between(source, target) == [source : {source}, target : {target}, vt : PortTypes]
Into(p, target) == [source : Paths(p), target : {target}, vt : PortTypes]

\* How often an input reads the cell of a node.
Reads(p, target, source) == Times(p.inputs[target].transports, {Transport(source)})

\* An input reads the cells of exactly the nodes that are linked to it, as often
\* as they are.
Mirrors(p) ==
  \A target \in DOMAIN p.inputs : \A source \in Paths(p) :
    Reads(p, target, source) = Times(p.links, Between(source, target))

Ported(p) == {path \in Paths(p) : HasPorts(p.nodes[path].type)}

IsNode(node) ==
  /\ node \in [type : NodeTypes, vt : {node.vt}, children : {node.children},
               ports : {node.ports}, designer : {node.designer}]
  /\ HasPorts(node.type) => {node.vt, node.ports} \subseteq PortTypes

\* The worker has an input for exactly the nodes with ports, cells of such nodes,
\* and transports from nodes that exist under the name they were connected by.
IsPipeline(p) ==
  /\ p.nodes = [path \in Paths(p) |-> p.nodes[path]]
  /\ p \in [nodes : {p.nodes}, links : Seq(Links(p)), cells : [DOMAIN p.cells -> PortTypes],
            inputs : [Ported(p) -> [vt : PortTypes, transports : Seq({Transport(path) : path \in Paths(p)})]],
            status : {p.status}]
  /\ DOMAIN p.cells \subseteq Ported(p)
  /\ \A path \in Paths(p) : IsNode(p.nodes[path])

\* What a node is set to and what its ports were listed as.
IsOfType(p, path, vt) == p.nodes[path].vt = vt /\ p.nodes[path].ports = vt

\* Along a link all are of one type: the settings of the nodes, the cell, the
\* link and the receiver.
TypesAgree(p) ==
  /\ \A l \in ToSet(p.links) :
       /\ l.source \in DOMAIN p.cells /\ p.cells[l.source] = l.vt
       /\ l.target \in DOMAIN p.inputs /\ p.inputs[l.target].vt = l.vt
       /\ IsOfType(p, l.target, l.vt)
  /\ \A path \in DOMAIN p.cells : IsOfType(p, path, p.cells[path])

OneLinkIntoSingles(p) ==
  \A target \in Ported(p) : TakesMany(p.nodes[target].type) \/ Times(p.links, Into(p, target)) <= 1

\* The graph and the worker are in step.
InStep(p) == IsPipeline(p) /\ TypesAgree(p) /\ OneLinkIntoSingles(p) /\ Mirrors(p)
=============================================================================
