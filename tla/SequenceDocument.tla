-------------------------- MODULE SequenceDocument --------------------------
(***************************************************************************)
(* A document the commands of the console work on, small enough to check   *)
(* and rich enough to show what undo, redo and replay can get wrong: the   *)
(* sequences, the hidden pipeline node each sequence owns, and the counter *)
(* that hands out sequence ids.  The commands are AddSequenceCommand,      *)
(* RenameSequenceCommand, DeleteSequenceCommand and DeleteNodesCommand     *)
(* (for the node of a sequence).                                           *)
(*                                                                         *)
(* Apply and Revert return ok, the document afterwards (a command that     *)
(* fails half-way has changed it) and, for Apply, the state that revert    *)
(* will be given.                                                          *)
(***************************************************************************)
EXTENDS Naturals, FiniteSets, Functions, FiniteSetsExt

CONSTANTS
  Name,          \* names users give to sequences
  DefaultName    \* stands for "Sequence <id>"

Id   == Nat \ {0}       \* u32 sequence ids, counted from 1
Path == Nat             \* the number in the node path /sequencer-<n>

(* A finite map from some of D to R, the HashMap of the code.              *)
IsMap(f, D, R) ==
  /\ DOMAIN f \subseteq D
  /\ IsFiniteSet(DOMAIN f)
  /\ f \in [DOMAIN f -> R]

IsDocument(d) ==
  /\ d = [sequences |-> d.sequences, nodes |-> d.nodes, counter |-> d.counter]
  /\ IsMap(d.sequences, Id, Name \cup {DefaultName})
  /\ IsMap(d.nodes, Path, Id)      \* node path -> the sequence it plays
  /\ d.counter \in Id

EmptyDocument == [sequences |-> <<>>, nodes |-> <<>>, counter |-> 1]

(* What the user sees of a document.                                       *)
Content(d) == [sequences |-> d.sequences, nodes |-> d.nodes]

Without(f, x) == Restrict(f, DOMAIN f \ {x})
With(f, x, y) == [z \in DOMAIN f \cup {x} |-> IF z = x THEN y ELSE f[z]]
-----------------------------------------------------------------------------
Command ==
  [type : {"AddSequence"}]
    \cup [type : {"DeleteSequence"}, id : Id]
    \cup [type : {"RenameSequence"}, id : Id, name : Name]
    \cup [type : {"DeleteNode"}, path : Path]

Applied(d, state) == [ok |-> TRUE,  doc |-> d, state |-> state]
Failed(d)         == [ok |-> FALSE, doc |-> d]

(* Pipeline::get_next_id: one past the highest number in use.              *)
NextPath(d) ==
  IF DOMAIN d.nodes = {} THEN 0 ELSE 1 + Max(DOMAIN d.nodes)

ApplyAdd(d) ==
  LET id   == d.counter
      path == NextPath(d)
  IN  Applied([sequences |-> With(d.sequences, id, DefaultName),
               nodes     |-> With(d.nodes, path, id),
               counter   |-> id + 1],
              [id |-> id, path |-> path])

RevertAdd(d, state) ==
  [ok  |-> TRUE,
   doc |-> [sequences |-> Without(d.sequences, state.id),
            nodes     |-> Without(d.nodes, state.path),
            counter   |-> d.counter]]

(* For the mutation checks: remembers the new name instead of the old.     *)
ApplyRenameForgetting(d, id, name) ==
  IF id \in DOMAIN d.sequences
  THEN Applied([d EXCEPT !.sequences[id] = name], [name |-> name])
  ELSE Failed(d)

ApplyRename(d, id, name) ==
  IF id \in DOMAIN d.sequences
  THEN Applied([d EXCEPT !.sequences[id] = name], [name |-> d.sequences[id]])
  ELSE Failed(d)

RevertRename(d, id, state) ==
  IF id \in DOMAIN d.sequences
  THEN [ok |-> TRUE, doc |-> [d EXCEPT !.sequences[id] = state.name]]
  ELSE [ok |-> FALSE, doc |-> d]

(* The sequence goes first; a sequence whose node is missing makes the     *)
(* command fail with the sequence already gone.                            *)
ApplyDelete(d, id) ==
  LET removed == [d EXCEPT !.sequences = Without(@, id)]
      paths   == {p \in DOMAIN d.nodes : d.nodes[p] = id}
  IN  IF id \notin DOMAIN d.sequences \/ paths = {}
      THEN Failed(removed)
      ELSE LET path == Min(paths)
           IN  Applied([sequences |-> Without(d.sequences, id),
                        nodes     |-> Without(d.nodes, path),
                        counter   |-> d.counter],
                       [name |-> d.sequences[id], path |-> path, id |-> id])

RevertDelete(d, state) ==
  [ok  |-> TRUE,
   doc |-> [sequences |-> With(d.sequences, state.id, state.name),
            nodes     |-> With(d.nodes, state.path, state.id),
            counter   |-> d.counter]]

(* A path with no node is skipped: the command succeeds and its state is   *)
(* empty.                                                                  *)
ApplyDeleteNode(d, path) ==
  IF path \in DOMAIN d.nodes
  THEN Applied([d EXCEPT !.nodes = Without(@, path)],
               [plays |-> {d.nodes[path]}])
  ELSE Applied(d, [plays |-> {}])

RevertDeleteNode(d, path, state) ==
  [ok  |-> TRUE,
   doc |-> IF state.plays = {}
           THEN d
           ELSE [d EXCEPT !.nodes = With(@, path, CHOOSE id \in state.plays : TRUE)]]

Apply(cmd, d) ==
  CASE cmd.type = "AddSequence"    -> ApplyAdd(d)
    [] cmd.type = "DeleteSequence" -> ApplyDelete(d, cmd.id)
    [] cmd.type = "RenameSequence" -> ApplyRename(d, cmd.id, cmd.name)
    [] cmd.type = "DeleteNode"     -> ApplyDeleteNode(d, cmd.path)

Revert(cmd, d, state) ==
  CASE cmd.type = "AddSequence"    -> RevertAdd(d, state)
    [] cmd.type = "DeleteSequence" -> RevertDelete(d, state)
    [] cmd.type = "RenameSequence" -> RevertRename(d, cmd.id, state)
    [] cmd.type = "DeleteNode"     -> RevertDeleteNode(d, cmd.path, state)
-----------------------------------------------------------------------------
(* Saving writes the content; loading it restarts the id counter one past  *)
(* the highest id that is still in use.                                    *)
Loaded(content) ==
  [sequences |-> content.sequences,
   nodes     |-> content.nodes,
   counter   |-> IF DOMAIN content.sequences = {}
                 THEN 1
                 ELSE 1 + Max(DOMAIN content.sequences)]
=============================================================================
