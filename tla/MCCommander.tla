---------------------------- MODULE MCCommander ----------------------------
(* Small instances of Commander: command sets that make ids, names and     *)
(* nodes collide, and bounds that let every recovery path happen.          *)
EXTENDS Commander

CONSTANTS t1, t2, n1

AddSequence         == [type |-> "AddSequence"]
DeleteSequence(id)  == [type |-> "DeleteSequence", id |-> id]
RenameSequence(id)  == [type |-> "RenameSequence", id |-> id, name |-> n1]
DeleteNode(path)    == [type |-> "DeleteNode", path |-> path]

EditCommands == {AddSequence, RenameSequence(1), DeleteSequence(1)}
NodeCommands == EditCommands \cup {DeleteNode(0)}
AddAndRename == {AddSequence, RenameSequence(1)}
=============================================================================
