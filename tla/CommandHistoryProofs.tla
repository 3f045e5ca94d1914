------------------------ MODULE CommandHistoryProofs ------------------------
(***************************************************************************)
(* What push, back and forward of history.rs do to a history of any length *)
(* with the cursor anywhere they can take it.  UndoRedoProofs and          *)
(* CommanderProofs cite these facts.                                       *)
(***************************************************************************)
EXTENDS CommandHistory, SequencesExt, TLAPS

(* The entries a push keeps: those at or below the cursor.                 *)
Kept(h) == IF Index(h) < Len(h.commands) THEN Index(h) ELSE Len(h.commands)

(* Cutting at the cursor yields the kept entries, in order.                *)
LEMMA TruncateAtCursor ==
  ASSUME NEW S, NEW h, IsHistory(h, S)
  PROVE  /\ Kept(h) \in 0 .. Len(h.commands)
         /\ Done(h) \in Seq(S)
         /\ Done(h) = SubSeq(h.commands, 1, Kept(h))
         /\ Len(Done(h)) = Kept(h)
         /\ \A i \in 1 .. Kept(h) : Done(h)[i] = h.commands[i]
<1>1. h.commands \in Seq(S) /\ h.cursor \in Int /\ Len(h.commands) \in Nat
  BY DEF IsHistory
<1>2. h.cursor >= -1
  BY DEF IsHistory, None
<1>3. Kept(h) \in 0 .. Len(h.commands)
  BY <1>1, <1>2 DEF Kept, Index
<1>4. SubSeq(h.commands, 1, Len(h.commands)) = h.commands
  BY <1>1
<1>5. Done(h) = SubSeq(h.commands, 1, Kept(h))
  BY <1>1, <1>4 DEF Done, Truncate, Kept, Index
<1>6. /\ SubSeq(h.commands, 1, Kept(h)) \in Seq(S)
      /\ Len(SubSeq(h.commands, 1, Kept(h))) = Kept(h)
      /\ \A i \in 1 .. Kept(h) :
           SubSeq(h.commands, 1, Kept(h))[i] = h.commands[i]
  BY <1>1, <1>3
<1> QED BY <1>3, <1>5, <1>6

(* push() appends to the kept entries and leaves the new entry at or below *)
(* the cursor.                                                             *)
LEMMA PushShape ==
  ASSUME NEW S, NEW h, IsHistory(h, S), NEW e \in S
  PROVE  /\ IsHistory(Push(h, e), S)
         /\ Push(h, e).commands = Append(Done(h), e)
         /\ Len(Push(h, e).commands) = Kept(h) + 1
         /\ Push(h, e).cursor >= Kept(h)
<1>1. h.commands \in Seq(S) /\ h.cursor \in Int /\ Len(h.commands) \in Nat
  BY DEF IsHistory
<1>2. h.cursor >= -1 /\ h.cursor <= Len(h.commands) + 1
  BY DEF IsHistory, None
<1>3. /\ Kept(h) \in 0 .. Len(h.commands) /\ Done(h) \in Seq(S)
      /\ Len(Done(h)) = Kept(h)
  BY TruncateAtCursor
<1>4. /\ Append(Done(h), e) \in Seq(S)
      /\ Len(Append(Done(h), e)) = Kept(h) + 1
  BY <1>3
<1>5. CASE h.commands = <<>>
  <2>1. Len(h.commands) = 0
    BY <1>5
  <2>2. Kept(h) = 0 /\ Done(h) = <<>>
    BY <1>3, <2>1
  <2>3. Append(Done(h), e) = <<e>>
    BY <2>2
  <2>4. Push(h, e) = [commands |-> <<e>>, cursor |-> 0]
    BY <1>5 DEF Push
  <2> QED BY <1>4, <2>2, <2>3, <2>4 DEF IsHistory, None
<1>6. CASE h.commands # <<>>
  <2>1. Push(h, e) = [commands |-> Append(Done(h), e), cursor |-> h.cursor + 1]
    BY <1>6 DEF Push, Done, Index
  <2>2. Kept(h) <= h.cursor + 1 /\ h.cursor + 1 <= Kept(h) + 2
    BY <1>1, <1>2 DEF Kept, Index
  <2> QED BY <1>1, <1>2, <1>3, <1>4, <2>1, <2>2 DEF IsHistory, None
<1> QED BY <1>5, <1>6

(* back() keeps the entries and moves the cursor down by one, or not at    *)
(* all below the first entry.                                              *)
LEMMA BackShape ==
  ASSUME NEW S, NEW h, IsHistory(h, S)
  PROVE  /\ IsHistory(Back(h), S)
         /\ Back(h).commands = h.commands
         /\ Back(h).cursor = IF h.cursor = None THEN None ELSE h.cursor - 1
  BY DEF IsHistory, Back, None

(* forward() keeps the entries and moves the cursor up by one, or not at   *)
(* all once it is beyond the end.                                          *)
LEMMA ForwardShape ==
  ASSUME NEW S, NEW h, IsHistory(h, S)
  PROVE  /\ IsHistory(Forward(h), S)
         /\ Forward(h).commands = h.commands
         /\ Forward(h).cursor = IF h.cursor > Len(h.commands)
                                THEN h.cursor ELSE h.cursor + 1
  BY DEF IsHistory, Forward, None
-----------------------------------------------------------------------------
(* What the stacks are when the cursor is on an entry, and when it is not.  *)
LEMMA StackShape ==
  ASSUME NEW S, NEW h, IsHistory(h, S)
  PROVE  /\ Index(h) \in 0 .. Len(h.commands) + 2
         /\ Undone(h) \in Seq(S)
         /\ Len(Undone(h)) = Len(h.commands) - Kept(h)
         /\ \A i \in 1 .. Len(Undone(h)) : Undone(h)[i] = h.commands[Kept(h) + i]
<1>1. h.commands \in Seq(S) /\ h.cursor \in Int /\ Len(h.commands) \in Nat
  BY DEF IsHistory
<1>2. h.cursor >= -1 /\ h.cursor <= Len(h.commands) + 1
  BY DEF IsHistory, None
<1>3. Index(h) \in 0 .. Len(h.commands) + 2
  BY <1>1, <1>2 DEF Index
<1>4. CASE Index(h) < Len(h.commands)
  <2>1. Kept(h) = Index(h)
    BY <1>4 DEF Kept
  <2> QED BY SMTT(30), <1>1, <1>3, <1>4, <2>1 DEF Undone
<1>5. CASE ~(Index(h) < Len(h.commands))
  <2>1. Kept(h) = Len(h.commands)
    BY <1>5 DEF Kept
  <2>2. Undone(h) = <<>>
    BY <1>1, <1>3, <1>5 DEF Undone
  <2> QED BY <1>1, <1>3, <2>1, <2>2
<1> QED BY <1>4, <1>5

(* Two sequences with the same length and the same elements are equal.     *)
LEMMA SameSequence ==
  ASSUME NEW S, NEW s \in Seq(S), NEW t \in Seq(S), Len(s) = Len(t),
         \A i \in 1 .. Len(s) : s[i] = t[i]
  PROVE  s = t
  OBVIOUS

(* A push lands on what was in effect, and what was undone is gone.        *)
LEMMA PushDropsTheUndone ==
  ASSUME NEW S, NEW h, IsHistory(h, S), NEW e \in S
  PROVE  Done(Push(h, e)) = Append(Done(h), e) /\ Undone(Push(h, e)) = <<>>
<1> DEFINE p == Push(h, e)
<1>1. /\ p.commands = Append(Done(h), e) /\ p.commands \in Seq(S)
      /\ Len(p.commands) \in Nat /\ p.cursor \in Int
      /\ Index(p) >= Len(p.commands)
  <2>1. IsHistory(p, S) /\ p.commands = Append(Done(h), e)
    BY PushShape
  <2>2. Len(p.commands) = Kept(h) + 1 /\ p.cursor >= Kept(h)
    BY PushShape
  <2>3. Kept(h) \in Nat
    BY TruncateAtCursor DEF IsHistory
  <2> HIDE DEF p
  <2>4. p.commands \in Seq(S) /\ p.cursor \in Int
    BY <2>1 DEF IsHistory
  <2> QED BY <2>1, <2>2, <2>3, <2>4 DEF Index, p
<1> HIDE DEF p
<1>2. Done(p) = p.commands
  BY <1>1 DEF Done, Truncate, Index
<1>3. Undone(p) = <<>>
  BY <1>1 DEF Undone, Index
<1> QED BY <1>1, <1>2, <1>3 DEF p

(* back() from an entry moves that entry to the undone ones.               *)
LEMMA BackMovesTheLast ==
  ASSUME NEW S, NEW h, IsHistory(h, S), HasCurrent(h)
  PROVE  /\ Done(h) # <<>> /\ Current(h) = Last(Done(h))
         /\ Done(Back(h)) = Front(Done(h))
         /\ Undone(Back(h)) = <<Last(Done(h))>> \o Undone(h)
<1> DEFINE b == Back(h)
           k == h.cursor + 1
           u == <<Last(Done(h))>> \o Undone(h)
<1>1. /\ IsHistory(b, S) /\ b.commands = h.commands
      /\ h.cursor \in 0 .. Len(h.commands) - 1
      /\ b.cursor = h.cursor - 1
      /\ h.commands \in Seq(S) /\ Len(h.commands) \in Nat
  BY BackShape DEF HasCurrent, IsHistory, None
<1> HIDE DEF b
<1>2. k \in 1 .. Len(h.commands) /\ Kept(h) = k /\ Kept(b) = k - 1
  BY <1>1 DEF Kept, Index
<1>3. /\ Done(h) \in Seq(S) /\ Len(Done(h)) = k
      /\ \A i \in 1 .. k : Done(h)[i] = h.commands[i]
  BY <1>2, TruncateAtCursor
<1>4. /\ Done(b) \in Seq(S) /\ Len(Done(b)) = k - 1
      /\ \A i \in 1 .. k - 1 : Done(b)[i] = h.commands[i]
  BY <1>1, <1>2, TruncateAtCursor
<1>5. /\ Undone(h) \in Seq(S) /\ Len(Undone(h)) = Len(h.commands) - k
      /\ \A i \in 1 .. Len(Undone(h)) : Undone(h)[i] = h.commands[k + i]
  BY <1>2, StackShape
<1>6. /\ Undone(b) \in Seq(S)
      /\ Len(Undone(b)) = Len(h.commands) - (k - 1)
      /\ \A i \in 1 .. Len(Undone(b)) :
           Undone(b)[i] = h.commands[(k - 1) + i]
  <2>1. /\ Undone(b) \in Seq(S)
        /\ Len(Undone(b)) = Len(b.commands) - Kept(b)
        /\ \A i \in 1 .. Len(Undone(b)) :
             Undone(b)[i] = b.commands[Kept(b) + i]
    BY <1>1, StackShape
  <2> QED BY <1>1, <1>2, <2>1
<1>7. Last(Done(h)) = h.commands[k] /\ h.commands[k] \in S
  BY <1>1, <1>2, <1>3 DEF Last
<1>8. Done(b) = Front(Done(h))
  <2>1. /\ Front(Done(h)) \in Seq(S) /\ Len(Front(Done(h))) = k - 1
        /\ \A i \in 1 .. k - 1 : Front(Done(h))[i] = Done(h)[i]
    BY <1>2, <1>3 DEF Front
  <2> QED BY <1>2, <1>3, <1>4, <2>1, SameSequence
<1>9. Undone(b) = u
  <2>1. <<Last(Done(h))>> \in Seq(S) /\ Len(<<Last(Done(h))>>) = 1
    BY <1>7
  <2>2. u \in Seq(S) /\ Len(u) = 1 + Len(Undone(h))
    BY <1>5, <2>1
  <2>3. ASSUME NEW i \in 1 .. Len(u) PROVE u[i] = h.commands[(k - 1) + i]
    <3>1. CASE i = 1
      BY <1>2, <1>5, <1>7, <2>1, <3>1
    <3>2. CASE i # 1
      <4>1. i - 1 \in 1 .. Len(Undone(h))
        BY <1>1, <1>2, <1>5, <2>2, <3>2
      <4>2. u[i] = Undone(h)[i - 1]
        BY <1>5, <2>1, <4>1
      <4>3. Undone(h)[i - 1] = h.commands[k + (i - 1)]
        BY <1>5, <4>1
      <4>4. k + (i - 1) = (k - 1) + i
        BY <1>1, <1>2, <1>5, <2>2
      <4> QED BY <4>2, <4>3, <4>4
    <3> QED BY <3>1, <3>2
  <2>4. Len(u) = Len(Undone(b))
    BY SMTT(30), <1>1, <1>2, <1>5, <1>6, <2>2
  <2> HIDE DEF u
  <2> QED BY <1>6, <2>2, <2>3, <2>4, SameSequence
<1>10. Done(h) # <<>>
  BY <1>2, <1>3
<1>11. Current(h) = Last(Done(h))
  BY <1>7 DEF Current
<1> QED BY <1>8, <1>9, <1>10, <1>11 DEF b, u

(* back() from anywhere else changes neither stack.                        *)
LEMMA BackElsewhere ==
  ASSUME NEW S, NEW h, IsHistory(h, S), ~HasCurrent(h)
  PROVE  Done(Back(h)) = Done(h) /\ Undone(Back(h)) = Undone(h)
<1> DEFINE b == Back(h)
<1>1. /\ b.commands = h.commands
      /\ h.commands \in Seq(S) /\ Len(h.commands) \in Nat
      /\ h.cursor \in Int /\ b.cursor \in Int
      /\ \/ h.cursor = None /\ b.cursor = None
         \/ h.cursor >= Len(h.commands) /\ b.cursor = h.cursor - 1
  BY BackShape DEF HasCurrent, IsHistory, None
<1> HIDE DEF b
<1>2. Done(b) = Done(h) /\ Undone(b) = Undone(h)
  <2>1. CASE h.cursor = None /\ b.cursor = None
    BY <1>1, <2>1 DEF Done, Undone, Index
  <2>2. CASE h.cursor >= Len(h.commands) /\ b.cursor = h.cursor - 1
    BY <1>1, <2>2 DEF Done, Undone, Index, Truncate
  <2> QED BY <1>1, <2>1, <2>2
<1> QED BY <1>2 DEF b

(* forward() with undone entries brings back the nearest of them.          *)
LEMMA ForwardMovesTheNearest ==
  ASSUME NEW S, NEW h, IsHistory(h, S), Undone(h) # <<>>
  PROVE  /\ HasCurrent(Forward(h)) /\ Current(Forward(h)) = Head(Undone(h))
         /\ Done(Forward(h)) = Append(Done(h), Head(Undone(h)))
         /\ Undone(Forward(h)) = Tail(Undone(h))
<1> DEFINE f == Forward(h)
           k == h.cursor + 1
<1>1. /\ h.commands \in Seq(S) /\ Len(h.commands) \in Nat
      /\ h.cursor \in Int /\ h.cursor >= -1
  BY DEF IsHistory, None
<1>2. k \in 0 .. Len(h.commands) - 1
  BY <1>1 DEF Undone, Index
<1>3. /\ IsHistory(f, S) /\ f.commands = h.commands
      /\ f.cursor = h.cursor + 1
  <2>1. ~(h.cursor > Len(h.commands))
    BY <1>1, <1>2
  <2> QED BY <2>1, ForwardShape
<1> HIDE DEF f
<1>4. Kept(h) = k /\ Kept(f) = k + 1
  BY <1>1, <1>2, <1>3 DEF Kept, Index
<1>5. /\ Done(h) \in Seq(S) /\ Len(Done(h)) = k
      /\ \A i \in 1 .. k : Done(h)[i] = h.commands[i]
  BY <1>4, TruncateAtCursor
<1>6. /\ Done(f) \in Seq(S) /\ Len(Done(f)) = k + 1
      /\ \A i \in 1 .. k + 1 : Done(f)[i] = h.commands[i]
  BY <1>3, <1>4, TruncateAtCursor
<1>7. /\ Undone(h) \in Seq(S) /\ Len(Undone(h)) = Len(h.commands) - k
      /\ \A i \in 1 .. Len(Undone(h)) : Undone(h)[i] = h.commands[k + i]
  BY <1>4, StackShape
<1>8. /\ Undone(f) \in Seq(S)
      /\ Len(Undone(f)) = Len(h.commands) - (k + 1)
      /\ \A i \in 1 .. Len(Undone(f)) :
           Undone(f)[i] = h.commands[(k + 1) + i]
  <2>1. /\ Undone(f) \in Seq(S)
        /\ Len(Undone(f)) = Len(f.commands) - Kept(f)
        /\ \A i \in 1 .. Len(Undone(f)) :
             Undone(f)[i] = f.commands[Kept(f) + i]
    BY <1>3, StackShape
  <2> QED BY <1>3, <1>4, <2>1
<1>9. Head(Undone(h)) = h.commands[k + 1] /\ h.commands[k + 1] \in S
  BY <1>1, <1>2, <1>7
<1>10. Done(f) = Append(Done(h), Head(Undone(h)))
  <2> DEFINE d == Append(Done(h), Head(Undone(h)))
  <2>1. /\ d \in Seq(S) /\ Len(d) = k + 1
        /\ \A i \in 1 .. k + 1 : d[i] = h.commands[i]
    BY <1>2, <1>5, <1>9
  <2> HIDE DEF d
  <2>2. Done(f) = d
    BY <1>2, <1>6, <2>1, SameSequence
  <2> QED BY <2>2 DEF d
<1>11. Undone(f) = Tail(Undone(h))
  <2> DEFINE u == Tail(Undone(h))
  <2>1. u \in Seq(S) /\ Len(u) = Len(h.commands) - (k + 1)
    BY <1>1, <1>2, <1>7
  <2>2. ASSUME NEW i \in 1 .. Len(u) PROVE u[i] = h.commands[(k + 1) + i]
    <3>1. i + 1 \in 1 .. Len(Undone(h)) /\ k + (i + 1) = (k + 1) + i
      <4> HIDE DEF u
      <4>1. i \in Nat /\ i >= 1 /\ i <= Len(h.commands) - (k + 1)
        BY <1>1, <1>2, <2>1
      <4> QED BY <1>1, <1>2, <1>7, <4>1
    <3>2. u[i] = Undone(h)[i + 1]
      BY <1>7, <2>1, <3>1
    <3>3. Undone(h)[i + 1] = h.commands[k + (i + 1)]
      BY <1>7, <3>1
    <3> QED BY <3>1, <3>2, <3>3
  <2> HIDE DEF u
  <2>3. Undone(f) = u
    BY <1>8, <2>1, <2>2, SameSequence
  <2> QED BY <2>3 DEF u
<1>12. HasCurrent(f) /\ Current(f) = Head(Undone(h))
  BY <1>1, <1>2, <1>3, <1>9 DEF HasCurrent, Current
<1> QED BY <1>10, <1>11, <1>12 DEF f

(* forward() with nothing undone changes neither stack.                    *)
LEMMA ForwardAtTheEnd ==
  ASSUME NEW S, NEW h, IsHistory(h, S), Undone(h) = <<>>
  PROVE  Done(Forward(h)) = Done(h) /\ Undone(Forward(h)) = Undone(h)
<1> DEFINE f == Forward(h)
<1>1. /\ h.commands \in Seq(S) /\ Len(h.commands) \in Nat
      /\ h.cursor \in Int /\ h.cursor >= -1
      /\ f.commands = h.commands /\ f.cursor \in Int
      /\ f.cursor >= h.cursor
  BY ForwardShape DEF IsHistory, None
<1> HIDE DEF f
<1>2. Index(h) >= Len(h.commands)
  <2>1. Len(Undone(h)) = Len(h.commands) - Kept(h) /\ Len(Undone(h)) = 0
    BY StackShape
  <2> QED BY <1>1, <2>1 DEF Kept, Index
<1>3. Done(f) = Done(h) /\ Undone(f) = Undone(h)
  BY SMTT(30), <1>1, <1>2 DEF Done, Undone, Truncate, Index
<1> QED BY <1>3 DEF f
=============================================================================
