--------------------------- MODULE CommandHistory ---------------------------
(***************************************************************************)
(* CommandCursor of commander/executor/src/history.rs: the vector of the   *)
(* commands run in this session and an optional index into it.             *)
(*                                                                         *)
(* OptionIndex(None) is -1 and Some(i) is i, so the index is 0-based as in *)
(* the code while sequences are 1-based.  Nothing here keeps the cursor    *)
(* inside the vector: forward() may leave it one or two past the last      *)
(* entry.                                                                  *)
(***************************************************************************)
EXTENDS Integers, Sequences

None == -1

(* A history of entries of S, the cursor where push, back and forward can  *)
(* take it.                                                                *)
IsHistory(h, S) ==
  /\ h \in [commands : Seq(S), cursor : Int]
  /\ h.cursor \in None .. Len(h.commands) + 1

EmptyHistory == [commands |-> <<>>, cursor |-> None]

(* The entry under the cursor, Vec::get with an Option in front of it.     *)
HasCurrent(h) == h.cursor \in 0 .. Len(h.commands) - 1
Current(h)    == h.commands[h.cursor + 1]

(* Vec::truncate leaves a vector alone that is already shorter.            *)
Truncate(s, n) == IF n < Len(s) THEN SubSeq(s, 1, n) ELSE s

(* A wrong push, for the mutation checks: the entry above the cursor is    *)
(* kept.                                                                   *)
PushKeepingNext(h, e) ==
  [commands |-> Append(Truncate(h.commands, h.cursor + 2), e),
   cursor   |-> h.cursor + 1]

(* A push drops the entries above the cursor, appends, and advances the    *)
(* cursor by one whatever it was.                                          *)
Push(h, e) ==
  IF h.commands = <<>>
  THEN [commands |-> <<e>>, cursor |-> 0]
  ELSE [commands |-> Append(Truncate(h.commands, h.cursor + 1), e),
        cursor   |-> h.cursor + 1]

(* A back() that stops at the first entry, for the mutation checks.        *)
BackToFirst(h) == IF h.cursor <= 0 THEN h ELSE [h EXCEPT !.cursor = @ - 1]

(* back() hands out the entry under the cursor, then steps back; it is the *)
(* caller that looks at HasCurrent(h) and Current(h).                      *)
Back(h) == IF h.cursor = None THEN h ELSE [h EXCEPT !.cursor = @ - 1]

(* A forward() without its bound, for the mutation checks.                 *)
ForwardUnchecked(h) == [h EXCEPT !.cursor = @ + 1]

(* forward() steps first and hands out the entry it arrives at, if any.    *)
Forward(h) ==
  IF h.cursor > Len(h.commands) THEN h ELSE [h EXCEPT !.cursor = @ + 1]

(* The number of entries in effect as the UI shows it.                     *)
Index(h) == h.cursor + 1

(* What lies at or below the cursor, and what lies above it.               *)
Done(h)   == Truncate(h.commands, Index(h))
Undone(h) == SubSeq(h.commands, Index(h) + 1, Len(h.commands))
=============================================================================
