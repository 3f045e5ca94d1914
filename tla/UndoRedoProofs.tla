--------------------------- MODULE UndoRedoProofs ---------------------------
(***************************************************************************)
(* Proofs that the history of history.rs keeps its cursor in bounds and    *)
(* implements the two stacks of UndoStack, for every set of entries and    *)
(* every length.                                                           *)
(***************************************************************************)
EXTENDS UndoRedo, CommandHistoryProofs

(* The cursor stays between nothing and one past the length of the vector, *)
(* whatever the order of push, back and forward.                           *)
THEOREM TypeCorrect == Spec => []TypeOK
<1>1. Init => TypeOK
  BY DEF Init, TypeOK, IsHistory, EmptyHistory, None
<1>2. TypeOK /\ [Next]_history => TypeOK'
  <2> SUFFICES ASSUME TypeOK, [Next]_history PROVE TypeOK'
    OBVIOUS
  <2>1. CASE \E e \in Entry : Perform(e)
    BY <2>1, PushShape DEF TypeOK, Perform
  <2>2. CASE Undo
    BY <2>2, BackShape DEF TypeOK, Undo
  <2>3. CASE Redo
    BY <2>3, ForwardShape DEF TypeOK, Redo
  <2>4. CASE UNCHANGED history
    BY <2>4 DEF TypeOK
  <2> QED BY <2>1, <2>2, <2>3, <2>4 DEF Next
<1> QED BY <1>1, <1>2, PTL DEF Spec
-----------------------------------------------------------------------------
(* Every step of the history is a step of the two stacks or leaves both    *)
(* alone.                                                                  *)
LEMMA StepRefines ==
  TypeOK /\ [Next]_history => [UndoStack!Next]_(UndoStack!vars)
<1> SUFFICES ASSUME TypeOK, [Next]_history
             PROVE  [UndoStack!Next]_(UndoStack!vars)
  OBVIOUS
<1>1. IsHistory(history, Entry)
  BY DEF TypeOK
<1>2. ASSUME NEW e \in Entry, Perform(e) PROVE UndoStack!Perform(e)
  BY <1>1, <1>2, PushDropsTheUndone DEF Perform, UndoStack!Perform
<1>3. CASE Undo
  <2>1. CASE HasCurrent(history)
    BY <1>1, <1>3, <2>1, BackMovesTheLast
    DEF Undo, UndoStack!Next, UndoStack!Undo, UndoStack!Front, UndoStack!Last,
        Front, Last
  <2>2. CASE ~HasCurrent(history)
    BY <1>1, <1>3, <2>2, BackElsewhere DEF Undo, UndoStack!vars
  <2> QED BY <2>1, <2>2
<1>4. CASE Redo
  <2>1. CASE Undone(history) # <<>>
    BY <1>1, <1>4, <2>1, ForwardMovesTheNearest
    DEF Redo, UndoStack!Next, UndoStack!Redo
  <2>2. CASE Undone(history) = <<>>
    BY <1>1, <1>4, <2>2, ForwardAtTheEnd DEF Redo, UndoStack!vars
  <2> QED BY <2>1, <2>2
<1>5. CASE UNCHANGED history
  BY <1>5 DEF UndoStack!vars, Done, Undone
<1> QED BY <1>2, <1>3, <1>4, <1>5 DEF Next, UndoStack!Next

(* The history implements the two stacks of UndoStack: no order of push,   *)
(* back and forward loses, alters or reorders an entry in effect, and a    *)
(* push drops exactly what was undone.                                     *)
THEOREM HistoryImplementsUndoStack == Spec => ImplementsUndoStack
<1>1. Init => UndoStack!Init
  BY DEF Init, EmptyHistory, None, Done, Undone, Truncate, Index,
         UndoStack!Init
<1> QED BY <1>1, StepRefines, TypeCorrect, PTL
        DEF Spec, ImplementsUndoStack, UndoStack!Spec

(* Undo from an entry takes that entry back, and redo with something       *)
(* undone brings the nearest back; neither may do nothing.                 *)
THEOREM UndoAndRedoTakeEffect == Spec => []StepsTakeEffect
<1>1. TypeOK => StepsTakeEffect
  <2> SUFFICES ASSUME TypeOK PROVE StepsTakeEffect
    OBVIOUS
  <2>1. IsHistory(history, Entry)
    BY DEF TypeOK
  <2> QED BY <2>1, BackMovesTheLast, ForwardMovesTheNearest DEF StepsTakeEffect
<1> QED BY <1>1, TypeCorrect, PTL
=============================================================================
