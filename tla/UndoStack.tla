----------------------------- MODULE UndoStack -----------------------------
(***************************************************************************)
(* What an undo history promises to the user, with no cursor and no        *)
(* vector: the commands in effect, most recent last, and those that were   *)
(* undone, the next one to redo first.                                     *)
(***************************************************************************)
EXTENDS Sequences, SequencesExt

CONSTANT Entry

VARIABLES
  done,     \* entries in effect, oldest first
  undone    \* undone entries, the one redo would bring back first

vars == <<done, undone>>

Init == done = <<>> /\ undone = <<>>

Perform(e) == done' = Append(done, e) /\ undone' = <<>>

Undo ==
  /\ done # <<>>
  /\ done' = Front(done)
  /\ undone' = <<Last(done)>> \o undone

Redo ==
  /\ undone # <<>>
  /\ done' = Append(done, Head(undone))
  /\ undone' = Tail(undone)

Next == (\E e \in Entry : Perform(e)) \/ Undo \/ Redo

Spec == Init /\ [][Next]_vars
=============================================================================
