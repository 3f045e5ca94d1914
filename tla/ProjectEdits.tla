---------------------------- MODULE ProjectEdits ----------------------------
(* An open project while users edit it: the node graph, layouts, plans,    *)
(* sequences, effects, the patch and the connections. Commands, undo and   *)
(* redo arrive in any order between the frames; a frame runs the nodes     *)
(* and, while a client shows the node view, lists the ports anew. Of the   *)
(* history only what it tells the commands matters here (Commander has the *)
(* rest): which state a command is reverted with, and that a command whose *)
(* redo failed has none.                                                   *)
EXTENDS ProjectRequests

CONSTANTS
  Sessions,     \* [ops, commands]: the commands of which users run some, and the
                \* bound on how many they run
  MaxRedos,     \* bound on the commands that are redone
  MaxNodes,     \* bound on the nodes of the graph
  MayShowNodes  \* whether clients show the node view

VARIABLES
  session,   \* what users do: one of Sessions
  doc,       \* the project
  done,      \* the commands in effect: [cmd, state, kept, before, after]
  undone,    \* the commands that were undone, the next to redo first
  count,     \* commands that were run
  redos,     \* commands that were redone
  flaws      \* ways out of a sound project that were taken so far

vars == <<session, doc, done, undone, count, redos, flaws>>

-----------------------------------------------------------------------------
(* Opening a project: first its nodes (in which order is immaterial), then  *)
(* its links. Ports are those that the settings ask for.                   *)

Loaded(nodes, links) ==
  LET settled(node) == [node EXCEPT !.ports = node.vt]
      all == FoldSet(LAMBDA path, p : InsertNode(p, path, settled(nodes[path])),
                     EmptyPipeline, DOMAIN nodes)
  IN  FoldLeft(LAMBDA p, l : IF p.status = "ok" THEN AddLink(p, l) ELSE p, all, links)

Link(source, target) == [source |-> source, target |-> target, vt |-> "single"]

\* A graph to edit, or a fader and the nodes that stand for what is edited.
Graph ==
     Fader(0)  :> NewNode("fader", "single", <<>>)
  @@ Fader(1)  :> NewNode("fader", "single", <<>>)
  @@ Select    :> NewNode("select", "single", <<>>)
  @@ Container :> NewNode("container", "single", <<Inner>>)
  @@ Inner     :> NewNode("fader", "single", <<>>)

GroupNode == Container \o <<Named("group", 0)>>
StandIns ==
     <<Named("sequencer", 0)>> :> NewNode("sequencer", 1, <<>>)
  @@ <<Named("fixture", 0)>> :> NewNode("fixture", 1, <<>>)
  @@ <<Named("preset", 0)>> :> NewNode("preset", 1, <<>>)
  @@ Container :> NewNode("container", "single", <<GroupNode>>)
  @@ GroupNode :> NewNode("group", 1, <<>>)

FirstPipeline(ops) ==
  LET fader == Fader(0) :> NewNode("fader", "single", <<>>)
  IN  IF ops \subseteq NodeOps THEN Loaded(Graph, <<Link(Fader(0), Fader(1)), Link(Inner, Select)>>)
      ELSE Loaded(IF "rename" \in ops THEN fader ELSE fader @@ StandIns, <<>>)

FirstLayouts(ops) ==
  LET main == [name |-> "main", controls |-> 1 :> NewControl(Fader(0))]
      other == [name |-> "other", controls |-> 2 :> NewControl(Inner)]
  IN  IF ops \subseteq NodeOps THEN <<main, other>> ELSE <<main>>

FirstPlan ==
  LET place(f, x, y) == [fixture |-> f, x |-> x * Unit, y |-> y * Unit]
  IN  [NewPlan("main") EXCEPT !.fixtures = <<place(1, 0, 0), place(2, 1, 0), place(3, 0, 1), place(4, 3, 2)>>,
                              !.screens = {1}, !.images = 3 :> [position |-> 0, size |-> 0]]

FirstSequence ==
  [NewSequence EXCEPT !.fixtures = {1},
     !.cues = <<[NewCue(1) EXCEPT !.controls = <<[value |-> 1, fixtures |-> {1, 2}]>>,
                                  !.effects = <<[effect |-> 1, offset |-> 0]>>],
                NewCue(2)>>]

FirstFixture == [name |-> 0, address |-> 1, configuration |-> 0]

FirstDoc(ops) ==
  [pipeline |-> FirstPipeline(ops), layouts |-> FirstLayouts(ops), plans |-> <<FirstPlan>>,
   fresh |-> 4, sequences |-> 1 :> FirstSequence, nextSequence |-> 2, effects |-> 1 :> <<<<0, 1>>>>,
   fixtures |-> 1 :> FirstFixture @@ 2 :> FirstFixture,
   groups |-> 1 :> [name |-> 0, selection |-> SelectionOf(<<1>>)],
   presets |-> 1 :> [name |-> 0, target |-> "universal", value |-> 1, values |-> <<>>]
            @@ 2 :> [name |-> 0, target |-> "selective", value |-> 0, values |-> 1 :> 1],
   connections |-> 0 :> 0 @@ 1 :> 0, inputs |-> 0 :> 0,
   outputs |-> "main" :> [type |-> "artnet", settings |-> 0],
   profiles |-> 1 :> 0, sections |-> 1 :> [input |-> 0, output |-> 0]]

Init ==
  /\ session \in Sessions
  /\ doc = FirstDoc(session.ops)
  /\ done = <<>> /\ undone = <<>> /\ count = 0 /\ redos = 0 /\ flaws = {}

-----------------------------------------------------------------------------
(* Six ways lead out of a sound project: a connected node is set to ports  *)
(* of another type, the source of a link is renamed, which its transports  *)
(* are not, a container lists a node that is gone, two layouts or plans of *)
(* one name are taken for one another, undoing that fixtures were added to *)
(* a plan takes the others away, and undoing a deletion one of whose nodes *)
(* was already gone puts the others back under the wrong names.            *)

Retyped(d) ==
  LET p == d.pipeline
      asked(path) == p.nodes[path].vt
  IN  \/ \E l \in ToSet(p.links) :
           \E path \in {l.source, l.target} \cap Paths(p) : asked(path) # l.vt
      \/ \E path \in DOMAIN p.cells \cap Paths(p) : p.cells[path] # asked(path)

Dangling(d) ==
  LET p == d.pipeline
  IN  \E path \in Paths(p) : ~(ToSet(p.nodes[path].children) \subseteq Paths(p))

Renamed(d) ==
  \E target \in DOMAIN d.pipeline.inputs :
    \E t \in ToSet(d.pipeline.inputs[target].transports) : t.name # t.cell

NamedOnce(seq) == \A m, n \in DOMAIN seq : seq[m].name = seq[n].name => m = n

Flaws(d) == (IF Retyped(d) THEN {"retyped"} ELSE {})
       \cup (IF Renamed(d) THEN {"renamed"} ELSE {})
       \cup (IF Dangling(d) THEN {"dangling"} ELSE {})
       \cup (IF NamedOnce(d.layouts) /\ NamedOnce(d.plans) THEN {} ELSE {"sameNames"})

UndoFlaws(e) ==
       (IF e.cmd.op = "addToPlan" THEN {"stripped"} ELSE {})
  \cup (IF e.cmd.op = "delete" /\ ~(ToSet(e.cmd.paths) \subseteq Paths(e.before.pipeline))
        THEN {"misplaced"} ELSE {})

Running == Status(doc) = "ok"
Settled(d) == IF Status(d) = "error" THEN [d EXCEPT !.pipeline.status = "ok"] ELSE d
WithPorts == {path \in Paths(doc.pipeline) : HasPorts(doc.pipeline.nodes[path].type)}

\* A command that fails leaves what it has changed, but no entry.
Execute(c) ==
  /\ Running /\ count < session.commands
  /\ \E r \in {Apply(doc, c)} :
       /\ Cardinality(Paths(r.doc.pipeline)) <= MaxNodes
       /\ doc' = Settled(r.doc)
       /\ IF Ok(r.doc)
          THEN /\ done' = Append(done, [cmd |-> c, state |-> r.state, kept |-> TRUE,
                                       before |-> doc, after |-> r.doc])
               /\ undone' = <<>>
          ELSE UNCHANGED <<done, undone>>
  /\ count' = count + 1
  /\ flaws' = flaws \cup Flaws(doc')
  /\ UNCHANGED <<session, redos>>

RunCommand == \E op \in session.ops : \E c \in Requests(doc, op) : Execute(c)

\* The entry moves even when the revert fails, and when it has no state.
Undo ==
  /\ Running /\ done # <<>>
  /\ LET e == Last(done)
     IN  /\ doc' = IF e.kept THEN Settled(Revert(doc, e.cmd, e.state)) ELSE doc
         /\ undone' = <<e>> \o undone
         /\ flaws' = flaws \cup Flaws(doc') \cup UndoFlaws(e)
  /\ done' = Front(done)
  /\ UNCHANGED <<session, count, redos>>

Redo ==
  /\ Running /\ undone # <<>> /\ redos < MaxRedos
  /\ \E r \in {Apply(doc, undone[1].cmd)} :
       /\ doc' = Settled(r.doc)
       /\ done' = Append(done, [undone[1] EXCEPT !.state = r.state, !.kept = Ok(r.doc),
                                                !.before = doc, !.after = doc'])
  /\ undone' = Tail(undone)
  /\ redos' = redos + 1
  /\ flaws' = flaws \cup Flaws(doc')
  /\ UNCHANGED <<session, count>>

\* The nodes run, some of them with work to do; the ports are listed
\* anew if the node view is shown; the next frame starts by checking receivers.
NextFrame ==
  /\ Running
  /\ \E working \in {{}, WithPorts} \cup {{path} : path \in WithPorts},
        shown \in {FALSE, MayShowNodes} :
       LET ran    == ProcessNodes(doc.pipeline, working)
           listed == IF shown THEN RefreshPorts(ran) ELSE ran
       IN  doc' = [doc EXCEPT !.pipeline = CheckReceivers(listed)]
  /\ UNCHANGED <<session, done, undone, count, redos, flaws>>

Next == RunCommand \/ Undo \/ Redo \/ NextFrame
Spec == Init /\ [][Next]_vars

-----------------------------------------------------------------------------
(* Properties. *)

\* The parts of a project fit together: the worker has an input for exactly the
\* nodes with ports, cells of such nodes, and transports from such cells or
\* dead ones; what the layouts show are nodes that exist; and no id is in use
\* that the next command would draw.
DocumentIsWhole ==
  LET p == doc.pipeline
  IN  /\ p.status \in Panics \cup {"ok", "plan", "effect"} /\ count \in 0 .. session.commands
      /\ \A path \in WithPorts : {p.nodes[path].vt, p.nodes[path].ports} \subseteq PortTypes
      /\ Running => DOMAIN p.inputs = WithPorts /\ DOMAIN p.cells \subseteq WithPorts
      /\ \A path \in DOMAIN p.inputs :
           \A t \in ToSet(p.inputs[path].transports) : t.cell \in DOMAIN p.cells \cup {Gone}
      /\ \A layout \in ToSet(doc.layouts) : \A id \in DOMAIN layout.controls :
           /\ id < doc.fresh
           /\ (Running /\ flaws \cap {"dangling", "sameNames", "misplaced"} = {}) => layout.controls[id].node \in Paths(p)
      /\ \A id \in ImageIds(doc) : id < doc.fresh
      /\ \A id \in DOMAIN doc.sequences : id < doc.nextSequence

BagOf(seq) == [e \in ToSet(seq) |-> Cardinality({n \in DOMAIN seq : seq[n] = e})]

SourcesOf(links) == BagOf([n \in DOMAIN links |-> links[n].source])

\* The worker carries what the graph shows: an input reads the cells of exactly
\* the nodes that are linked to it, as often as they are; a single input has at
\* most one link; and along a link the settings of both nodes, the cell, the link
\* and the receiver are of one type. (Pipeline::add_link, remove_links_if,
\* delete_node against PipelineWorker::connect_nodes, disconnect_port,
\* remove_node. Once a node in use was set to another type, or a node was renamed
\* that is read under its old name, no more is promised.)
TransportsMirrorLinks ==
  flaws \cap {"retyped", "renamed"} = {} => InStep(doc.pipeline)

\* Nothing that users do, undo and redo takes the main loop down as long as the
\* project is sound. (The expects of worker.rs, ports.rs and context.rs, the
\* unwraps of Pipeline::rename_node and of the reverts of the plan's commands,
\* Vec::remove and insert of the effect's.)
NoPanic == flaws = {} => Running

\* However it was edited, a project whose settings agree along its links can be
\* saved and loaded again with the same nodes and links. (Pipeline::save, load)
SavedProjectLoads ==
  LET p == doc.pipeline
      settled == \A l \in ToSet(p.links) : p.nodes[l.source].vt = p.nodes[l.target].vt
      q == Loaded(p.nodes, p.links)
  IN  /\ \A l \in ToSet(p.links) : {l.source, l.target} \subseteq Paths(p)
      /\ settled => /\ q.status = "ok"
                    /\ Paths(q) = Paths(p)
                    /\ SourcesOf(q.links) = SourcesOf(p.links)

-----------------------------------------------------------------------------
(* Undo and redo. *)

\* What a user sees of the project. The order of links, layouts and plans does
\* not count, nor do the counters of the ids.
Seen(d) ==
  [d EXCEPT !.pipeline = [nodes |-> d.pipeline.nodes, links |-> BagOf(d.pipeline.links)],
            !.layouts = BagOf(@), !.plans = BagOf(@), !.fresh = 0, !.nextSequence = 0]

PlacedOnce(plan) == \A m, n \in DOMAIN plan.fixtures :
                      plan.fixtures[m].fixture = plan.fixtures[n].fixture => m = n

\* Commands on the graph whose undo is exact. Not among them are those that
\* list a new node in a container (undo leaves it listed), a link as another
\* one, of which undo takes all, and deletions of a missing node, of a container
\* in a container or of linked children; a rename drops the shown nodes that are
\* not below the container.
ExactOnNodes(c, p) ==
  LET twice(link) == Cardinality({n \in DOMAIN p.links : p.links[n] = link})
      linked(path) == \E l \in ToSet(p.links) : Touches(path, l)
      below(path) == path \in Paths(p) => \A child \in ToSet(p.nodes[path].children) :
                                            IsPathPrefix(path, child)
      plain(child) == ~IsContainer(p, child) /\ ~linked(child)
  IN  CASE c.op \in {"add", "duplicate"} -> c.parent = NoParent
        [] c.op = "link" -> twice(c.link) = 0
        [] c.op = "unlink" -> twice(c.link) = 1
        [] c.op = "delete" ->
             \A path \in ToSet(c.paths) :
               path \in Paths(p) /\ \A child \in ToSet(p.nodes[path].children) : plain(child)
        [] c.op = "rename" -> below(c.path)
        [] c.op = "group" -> \A path \in ToSet(c.paths) : below(path)
        [] OTHER -> TRUE

\* Commands on the other parts. Adding to a plan, aligning and spreading are
\* not undone as they should be, nor is stopping on the last cue, which is set
\* to the other flag, nor the profile of a device that had one; what takes the
\* place of something of the same number or name does not give it back.
ExactElsewhere(c, d) ==
  CASE c.op \in {"addToPlan", "align", "spread"} -> FALSE
    [] c.op \in {"moveInPlan", "transform"} -> PlacedOnce(PlanOf(d, c.name))
    [] c.op = "setStopOnLastCue" -> d.sequences[c.id].stopOnLastCue = d.sequences[c.id].wrapAround
    [] c.op = "patch" -> Numbers(c) \cap DOMAIN d.fixtures = {}
    [] c.op = "addConnection" -> ~Holds(d, "connections", NextNumber(d, "connections"))
    [] c.op = "addInput" -> ~Holds(d, "inputs", NextNumber(d, "inputs"))
    [] c.op = "addOutput" -> ~Holds(d, "outputs", c.name)
    [] c.op = "configureOutput" -> c.name = c.id \/ ~Holds(d, "outputs", c.name)
    [] c.op = "changeProfile" -> d.profiles[c.device] = 0
    [] OTHER -> TRUE

\* Two layouts, or plans, of one name are taken for one another.
Exact(e) ==
  /\ \A d \in {e.before, e.after} : NamedOnce(d.layouts) /\ NamedOnce(d.plans)
  /\ IF e.cmd.op \in NodeOps THEN ExactOnNodes(e.cmd, e.before.pipeline)
     ELSE ExactElsewhere(e.cmd, e.before)

\* These draw an id that is new each time.
DrawsId(c) == c.op \in {"addControl", "addControlWithNode", "addImage", "duplicateSequence"}

Sound == flaws \subseteq {"renamed", "stripped", "sameNames"}

\* Which step it was: only undo takes an entry from the done ones.
Undid == Len(done') < Len(done)
Redid == redos' > redos

\* When the project is as a command left it, undo brings back what the command
\* found, and when it is as the command found it, redo brings back what the
\* command left, over all that commands and frames have done since: as long as
\* no connected node changed the type of its ports and no container lists what
\* is gone. (Command::apply, revert)
UndoAndRedoAreExact ==
  [][/\ (Undid /\ Sound /\ Last(done).kept /\ Seen(doc) = Seen(Last(done).after) /\ Exact(Last(done)))
          => Seen(doc') = Seen(Last(done).before)
     /\ (Redid /\ Sound /\ undone[1].kept /\ Seen(doc) = Seen(undone[1].before)
           /\ Exact(undone[1]) /\ ~DrawsId(undone[1].cmd))
          => Seen(doc') = Seen(undone[1].after)]_vars

\* "Commands have to be reversible." (docs, commands and queries): undo brings
\* back the project that the command found, whatever the command.
CommandsAreReversible ==
  [][(Undid /\ Last(done).kept /\ Seen(doc) = Seen(Last(done).after))
       => Seen(doc') = Seen(Last(done).before)]_vars
=============================================================================
