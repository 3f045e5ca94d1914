------------------------------ MODULE UndoRedo ------------------------------
(***************************************************************************)
(* The history on its own, driven by any order of new commands, undo and   *)
(* redo.  Commands never fail here; Commander composes the history with    *)
(* commands that do.                                                       *)
(***************************************************************************)
EXTENDS CommandHistory, SequencesExt

CONSTANTS
  Entry,         \* what is pushed: a command with its key
  MaxHistory     \* bound on the length of the vector

ASSUME MaxHistoryAssumption == MaxHistory \in Nat

VARIABLE history

TypeOK == IsHistory(history, Entry)

Init == history = EmptyHistory

Perform(e) ==
  /\ Len(history.commands) < MaxHistory
  /\ history' = Push(history, e)

Undo == history' = Back(history)

Redo == history' = Forward(history)

Next == (\E e \in Entry : Perform(e)) \/ Undo \/ Redo

Spec == Init /\ [][Next]_history
-----------------------------------------------------------------------------
(* The two stacks of the abstract history.                                 *)
UndoStack == INSTANCE UndoStack
               WITH done <- Done(history), undone <- Undone(history)

(* Every order of push, back and forward is a behaviour of the two stacks: *)
(* no step loses, alters or reorders an entry in effect, and a push drops  *)
(* exactly what was undone, even after redo was used past the end.  An     *)
(* undo or redo may do nothing; StepsTakeEffect says when it may not.      *)
ImplementsUndoStack == UndoStack!Spec

(* With the cursor on an entry, undo() hands out the last command in       *)
(* effect and takes it back; with something undone, redo() hands out the   *)
(* nearest and brings it back.  Neither may do nothing, so the one way to  *)
(* lose an undo is a cursor past the end.                                  *)
StepsTakeEffect ==
  /\ HasCurrent(history) =>
       /\ Done(history) # <<>> /\ Current(history) = Last(Done(history))
       /\ Done(Back(history)) = Front(Done(history))
       /\ Undone(Back(history)) = <<Current(history)>> \o Undone(history)
  /\ Undone(history) # <<>> =>
       LET h == Forward(history)
       IN  /\ HasCurrent(h) /\ Current(h) = Head(Undone(history))
           /\ Done(h) = Append(Done(history), Current(h))
           /\ Undone(h) = Tail(Undone(history))
=============================================================================
