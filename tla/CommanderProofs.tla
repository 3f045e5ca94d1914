--------------------------- MODULE CommanderProofs ---------------------------
(***************************************************************************)
(* Proofs about the executor, for every set of callers, commands and       *)
(* operations, with failing commands, crashes, restarts and replays: first *)
(* of the keys that tie the entries of the history to the states that are  *)
(* kept for undo, resting on nothing a command does to the document; then  *)
(* of what commands, undo, redo and replay do to the document.             *)
(***************************************************************************)
EXTENDS Commander, CommandHistoryProofs, FiniteSetTheorems

(* The entry e has the fields the code gives it, and a key handed out.     *)
IsEntry(e, n) ==
  /\ e = [cmd |-> e.cmd, key |-> e.key, before |-> e.before]
  /\ e.key \in 0 .. n - 1

(* The inductive invariant, of a history h, states s and a key counter n:  *)
(* besides what is to be shown, keys lie below the counter and the cursor  *)
(* stays where push, back and forward can take it.                         *)
Linked(h, s, n) ==
  /\ n \in Nat
  /\ IsHistory(h, Range(h.commands))
  /\ \A i \in DOMAIN h.commands : IsEntry(h.commands[i], n)
  /\ \A i, j \in DOMAIN h.commands :
       h.commands[i].key = h.commands[j].key => i = j
  /\ \A k \in DOMAIN s : \E i \in DOMAIN h.commands :
       i <= Index(h) /\ h.commands[i].key = k

IInv == Linked(history, states, nextKey)

(* A history of entries of any set is one of its own entries ...           *)
LEMMA OwnEntries ==
  ASSUME NEW S, NEW h, IsHistory(h, S)
  PROVE  IsHistory(h, Range(h.commands))
<1>1. /\ h.commands \in Seq(S) /\ h \in [commands : Seq(S), cursor : Int]
      /\ h.cursor \in None .. Len(h.commands) + 1
  BY DEF IsHistory
<1>2. h.commands \in Seq(Range(h.commands))
  BY <1>1 DEF Range
<1> QED BY <1>1, <1>2 DEF IsHistory

(* ... and of those of any larger set.                                     *)
LEMMA MoreEntries ==
  ASSUME NEW S, NEW T, S \subseteq T, NEW h, IsHistory(h, S)
  PROVE  IsHistory(h, T)
<1>1. /\ h.commands \in Seq(S) /\ h \in [commands : Seq(S), cursor : Int]
      /\ h.cursor \in None .. Len(h.commands) + 1
  BY DEF IsHistory
<1>2. h.commands \in Seq(T)
  BY <1>1
<1> QED BY <1>1, <1>2 DEF IsHistory

(* Before the first command there is nothing to tie together.              *)
LEMMA EmptyLinked == Linked(EmptyHistory, <<>>, 0)
  BY DEF Linked, EmptyHistory, IsHistory, None, Range

(* A new command takes the next key.  The states of the entries that push  *)
(* keeps stay, and those push drops have none.                             *)
LEMMA ExecuteLinked ==
  ASSUME NEW h, NEW s, NEW n, Linked(h, s, n), NEW c, NEW b, NEW x
  PROVE  Linked(Push(h, [cmd |-> c, key |-> n, before |-> b]),
                With(s, n, x), n + 1)
<1> DEFINE e == [cmd |-> c, key |-> n, before |-> b]
           p == Push(h, e)
           m == Kept(h)
           S == Range(h.commands) \cup {e}
<1>1. n \in Nat /\ IsHistory(h, S)
  BY MoreEntries DEF Linked
<1>2. IsEntry(e, n + 1) /\ e.key = n
  BY <1>1 DEF IsEntry
<1>3. /\ IsHistory(p, S)
      /\ p.commands = Append(Done(h), e)
      /\ Len(p.commands) = m + 1
      /\ p.cursor >= m
  BY <1>1, PushShape
<1>4. /\ m \in 0 .. Len(h.commands)
      /\ Done(h) \in Seq(S) /\ Len(Done(h)) = m
      /\ \A i \in 1 .. m : Done(h)[i] = h.commands[i]
      /\ Len(h.commands) \in Nat /\ DOMAIN h.commands = 1 .. Len(h.commands)
  BY <1>1, TruncateAtCursor DEF IsHistory
<1> HIDE DEF p, m, e, S
<1>5. /\ DOMAIN p.commands = 1 .. m + 1
      /\ p.commands[m + 1] = e
      /\ \A i \in 1 .. m : p.commands[i] = h.commands[i]
      /\ 1 .. m \subseteq DOMAIN h.commands
  <2>1. e \in S
    BY DEF S
  <2> QED BY <1>3, <1>4, <2>1
<1>6. Index(p) \in Int /\ Index(p) >= m + 1
  BY <1>3, <1>4 DEF IsHistory, Index
<1>7. ASSUME NEW i \in 1 .. m PROVE IsEntry(p.commands[i], n + 1)
                                    /\ p.commands[i].key # n
  <2>1. p.commands[i] = h.commands[i] /\ IsEntry(h.commands[i], n)
    BY <1>5 DEF Linked
  <2> QED BY <1>1, <2>1 DEF IsEntry
<1>8. ASSUME NEW i \in 1 .. m + 1, NEW j \in 1 .. m + 1,
             p.commands[i].key = p.commands[j].key
      PROVE  i = j
  <2>1. CASE i = m + 1 \/ j = m + 1
    BY <1>2, <1>4, <1>5, <1>7, <1>8, <2>1
  <2>2. CASE i \in 1 .. m /\ j \in 1 .. m
    BY <1>5, <1>8, <2>2 DEF Linked
  <2> QED BY <1>4, <2>1, <2>2
<1>9. ASSUME NEW k \in DOMAIN With(s, n, x)
      PROVE  \E i \in 1 .. m + 1 : i <= Index(p) /\ p.commands[i].key = k
  <2>1. CASE k = n
    BY <1>2, <1>4, <1>5, <1>6, <2>1
  <2>2. CASE k \in DOMAIN s
    <3>1. PICK i \in DOMAIN h.commands :
            i <= Index(h) /\ h.commands[i].key = k
      BY <2>2 DEF Linked
    <3>2. i \in 1 .. m
      BY <1>1, <1>4, <3>1 DEF m, Kept, Index, IsHistory
    <3> QED BY <1>4, <1>5, <1>6, <3>1, <3>2
  <2> QED BY <2>1, <2>2 DEF With
<1>10. \A i \in 1 .. m + 1 : IsEntry(p.commands[i], n + 1)
  BY <1>2, <1>4, <1>5, <1>7
<1>11. Linked(p, With(s, n, x), n + 1)
  <2>1. IsHistory(p, Range(p.commands))
    BY <1>3, OwnEntries
  <2>2. n + 1 \in Nat
    BY <1>1
  <2> QED BY <1>5, <1>8, <1>9, <1>10, <2>1, <2>2 DEF Linked
<1> QED BY <1>11 DEF p, e

(* Undo of an entry: the state goes, and with it the only reason to keep   *)
(* the entry at or below the cursor.                                       *)
LEMMA UndoLinked ==
  ASSUME NEW h, NEW s, NEW n, Linked(h, s, n), HasCurrent(h)
  PROVE  Linked(Back(h), Without(s, Current(h).key), n)
<1> DEFINE b == Back(h)
           t == Without(s, Current(h).key)
<1>1. /\ IsHistory(b, Range(h.commands))
      /\ b.commands = h.commands
      /\ h.cursor \in 0 .. Len(h.commands) - 1
      /\ b.cursor = h.cursor - 1
      /\ Len(h.commands) \in Nat /\ DOMAIN h.commands = 1 .. Len(h.commands)
  BY BackShape DEF Linked, HasCurrent, IsHistory, None
<1>2. DOMAIN t = DOMAIN s \ {h.commands[h.cursor + 1].key}
  BY DEF Without, Restrict, Current
<1> HIDE DEF b, t
<1>3. ASSUME NEW k \in DOMAIN t
      PROVE  \E i \in DOMAIN b.commands :
               i <= Index(b) /\ b.commands[i].key = k
  <2>1. PICK i \in DOMAIN h.commands :
          i <= Index(h) /\ h.commands[i].key = k
    BY <1>2 DEF Linked
  <2>2. i # h.cursor + 1
    BY <1>2, <2>1
  <2>3. i <= Index(b)
    BY <1>1, <2>1, <2>2 DEF Index
  <2> QED BY <1>1, <2>1, <2>3
<1>4. Linked(b, t, n)
  BY <1>1, <1>3 DEF Linked
<1> QED BY <1>4 DEF b, t

(* Undo with no entry under the cursor, or none that has a state.          *)
LEMMA BackLinked ==
  ASSUME NEW h, NEW s, NEW n, Linked(h, s, n),
         HasCurrent(h) => Current(h).key \notin DOMAIN s
  PROVE  Linked(Back(h), s, n)
<1> DEFINE b == Back(h)
<1>1. /\ IsHistory(b, Range(h.commands))
      /\ b.commands = h.commands
      /\ h.cursor \in Int /\ h.cursor >= -1
      /\ b.cursor = IF h.cursor = -1 THEN -1 ELSE h.cursor - 1
      /\ Len(h.commands) \in Nat /\ DOMAIN h.commands = 1 .. Len(h.commands)
  BY BackShape DEF Linked, IsHistory, None
<1> HIDE DEF b
<1>2. ASSUME NEW k \in DOMAIN s
      PROVE  \E i \in DOMAIN b.commands :
               i <= Index(b) /\ b.commands[i].key = k
  <2>1. PICK i \in DOMAIN h.commands :
          i <= Index(h) /\ h.commands[i].key = k
    BY DEF Linked
  <2>2. i # h.cursor + 1
    BY <1>1, <2>1 DEF HasCurrent, Current
  <2>3. i <= Index(b)
    BY <1>1, <2>1, <2>2 DEF Index
  <2> QED BY <1>1, <2>1, <2>3
<1>3. Linked(b, s, n)
  BY <1>1, <1>2 DEF Linked
<1> QED BY <1>3 DEF b

(* Redo that fails or finds nothing: the cursor only moves up.             *)
LEMMA ForwardLinked ==
  ASSUME NEW h, NEW s, NEW n, Linked(h, s, n)
  PROVE  Linked(Forward(h), s, n)
<1> DEFINE f == Forward(h)
<1>1. /\ IsHistory(f, Range(h.commands))
      /\ f.commands = h.commands
      /\ h.cursor \in Int /\ f.cursor \in Int /\ f.cursor >= h.cursor
      /\ DOMAIN h.commands \subseteq Int
  BY ForwardShape DEF Linked, IsHistory, None
<1> HIDE DEF f
<1>2. \A k \in DOMAIN s : \E i \in DOMAIN f.commands :
        i <= Index(f) /\ f.commands[i].key = k
  BY <1>1 DEF Linked, Index
<1>3. Linked(f, s, n)
  BY <1>1, <1>2 DEF Linked
<1> QED BY <1>3 DEF f

(* Redo of an entry gives it a state again, under the key it had.          *)
LEMMA RedoLinked ==
  ASSUME NEW h, NEW s, NEW n, Linked(h, s, n), HasCurrent(h), NEW x, NEW v
  PROVE  Linked([h EXCEPT !.commands[h.cursor + 1].before = v],
                With(s, Current(h).key, x), n)
<1> DEFINE c == h.cursor + 1
           e == [h.commands[c] EXCEPT !.before = v]
           q == [h.commands EXCEPT ![c] = e]
           r == [h EXCEPT !.commands = q]
           S == Range(h.commands) \cup {e}
<1>1. /\ h \in [commands : Seq(Range(h.commands)), cursor : Int]
      /\ h.cursor \in None .. Len(h.commands) + 1
      /\ h.commands \in Seq(Range(h.commands))
      /\ c \in 1 .. Len(h.commands)
      /\ DOMAIN h.commands = 1 .. Len(h.commands)
      /\ DOMAIN h.commands \subseteq Int /\ c \in Int
  BY DEF Linked, IsHistory, HasCurrent
<1>2. IsEntry(h.commands[c], n)
  BY <1>1 DEF Linked
<1>3. e.key = h.commands[c].key /\ IsEntry(e, n)
  BY <1>2 DEF IsEntry
<1> HIDE DEF e
<1>4. /\ q \in Seq(S) /\ Len(q) = Len(h.commands)
      /\ DOMAIN q = DOMAIN h.commands
      /\ \A i \in DOMAIN q : q[i] = IF i = c THEN e ELSE h.commands[i]
  BY <1>1
<1> HIDE DEF q, S
<1>5. r \in [commands : Seq(S), cursor : Int] /\ r.commands = q
      /\ r.cursor = h.cursor
  BY <1>1, <1>4
<1>6. IsHistory(r, S)
  BY <1>1, <1>4, <1>5 DEF IsHistory
<1> HIDE DEF r
<1>7. \A i \in DOMAIN q : q[i].key = h.commands[i].key /\ IsEntry(q[i], n)
  BY <1>3, <1>4 DEF Linked
<1>8. ASSUME NEW k \in DOMAIN With(s, Current(h).key, x)
      PROVE  \E i \in DOMAIN q : i <= Index(r) /\ q[i].key = k
  <2>1. CASE k = Current(h).key
    <3>1. c \in DOMAIN q /\ q[c].key = k /\ c <= Index(r)
      BY <1>1, <1>4, <1>5, <1>7, <2>1 DEF Current, Index
    <3> QED BY <3>1
  <2>2. CASE k \in DOMAIN s
    <3>1. PICK i \in DOMAIN h.commands :
            i <= Index(h) /\ h.commands[i].key = k
      BY <2>2 DEF Linked
    <3> QED BY <1>4, <1>5, <1>7, <3>1 DEF Index
  <2> QED BY <2>1, <2>2 DEF With
<1>9. IsHistory(r, Range(r.commands))
  BY <1>6, OwnEntries
<1>10. Linked(r, With(s, Current(h).key, x), n)
  BY <1>4, <1>5, <1>7, <1>8, <1>9 DEF Linked
<1>11. r = [h EXCEPT !.commands[h.cursor + 1].before = v]
  BY <1>1 DEF r, q, e
<1> QED BY <1>10, <1>11
-----------------------------------------------------------------------------
(* Handling a callback, in any state of the queues, the log and the        *)
(* document, keeps history, states and key counter tied together.          *)
LEMMA HandleCallbackKeeps == IInv /\ HandleCallback => IInv'
<1> SUFFICES ASSUME IInv, HandleCallback PROVE IInv'
  OBVIOUS
<1>1. CASE Run
  BY <1>1, ExecuteLinked DEF Run, Execute, IInv
<1>2. CASE ApplyLogged
  BY <1>2, ExecuteLinked DEF ApplyLogged, Execute, IInv
<1>3. CASE Refuse
  BY <1>3 DEF Refuse, ExecuteFails, IInv
<1>4. CASE UndoNothing
  BY <1>4, BackLinked DEF UndoNothing, IInv
<1>5. CASE UndoWithoutState
  BY <1>5, BackLinked DEF UndoWithoutState, IInv
<1>6. CASE Undo
  BY <1>6, UndoLinked DEF Undo, IInv
<1>7. CASE RedoNothing
  BY <1>7, ForwardLinked DEF RedoNothing, IInv
<1>8. CASE Redo
  <2> DEFINE h == Forward(history)
  <2>1. Linked(h, states, nextKey) /\ HasCurrent(h)
    BY <1>8, ForwardLinked DEF Redo, IInv
  <2>2. PICK x, v :
          /\ history' = [h EXCEPT !.commands[h.cursor + 1].before = v]
          /\ states' = With(states, Current(h).key, x)
          /\ nextKey' = nextKey
    BY <1>8 DEF Redo
  <2> HIDE DEF h
  <2> QED BY <2>1, <2>2, RedoLinked DEF IInv
<1>9. CASE RedoFails
  BY <1>9, ForwardLinked DEF RedoFails, IInv
<1> QED BY <1>1, <1>2, <1>3, <1>4, <1>5, <1>6, <1>7, <1>8, <1>9
        DEF HandleCallback

(* A process that dies forgets all three together.                         *)
LEMMA DieKeeps == Die => IInv'
  BY EmptyLinked DEF Die, IInv

(* Every step keeps history, states and key counter tied together.         *)
LEMMA StepKeeps == IInv /\ [Next]_vars => IInv'
<1> SUFFICES ASSUME IInv, [Next]_vars PROVE IInv'
  OBVIOUS
<1>1. CASE \E t \in Caller : Call(t) \/ SendNext(t)
  BY <1>1 DEF Call, SendNext, sessionVars, IInv
<1>2. CASE HandleCallback
  BY <1>2, HandleCallbackKeeps
<1>3. CASE HandleProject
  <2>1. UNCHANGED <<states, nextKey, history>>
    BY <1>3 DEF HandleProject, NewProject, LoadProject, SaveNothing, BeginSave,
                FinishSave, SaveFails, TruncateLog, sessionVars
  <2> QED BY <2>1 DEF IInv
<1>4. CASE EndProject \/ EndFrame
  BY <1>4 DEF EndProject, EndFrame, sessionVars, IInv
<1>5. CASE StartNew \/ StartWithFile \/ EndReplay
  BY <1>5 DEF StartNew, StartWithFile, EndReplay, sessionVars, IInv
<1>6. CASE ReplayNext
  BY <1>6, ExecuteLinked DEF ReplayNext, Execute, IInv
<1>7. CASE ReplayFails
  BY <1>7 DEF ReplayFails, IInv
<1>8. CASE Crash \/ CrashInAppend
  BY <1>8, DieKeeps DEF Crash, CrashInAppend
<1>9. CASE UNCHANGED vars
  BY <1>9 DEF vars, sessionVars, IInv
<1> QED BY <1>1, <1>2, <1>3, <1>4, <1>5, <1>6, <1>7, <1>8, <1>9
        DEF Next, MainLoop, Startup

(* What ties history, states and key counter together holds in every state *)
(* the program reaches.                                                    *)
THEOREM AlwaysLinked == Spec => []IInv
<1>1. Init => IInv
  BY EmptyLinked DEF Init, IInv
<1> QED BY <1>1, StepKeeps, PTL DEF Spec

(* No two entries of the history share a key, for any callers and          *)
(* commands, however many of them fail, and across crashes and replays.    *)
THEOREM KeysStayUnique == Spec => []KeysAreUnique
<1>1. IInv => KeysAreUnique
  BY DEF IInv, Linked, KeysAreUnique
<1> QED BY <1>1, AlwaysLinked, PTL

(* The executor keeps a state only for an entry at or below the cursor: a  *)
(* command dropped from the history, or undone, leaves none behind.        *)
THEOREM StatesStayInEffect == Spec => []StatesBelongToEntriesInEffect
<1>1. IInv => StatesBelongToEntriesInEffect
  BY DEF IInv, Linked, StatesBelongToEntriesInEffect
<1> QED BY <1>1, AlwaysLinked, PTL
-----------------------------------------------------------------------------
(* The inductive invariant behind LogIsKeptUntilSaved: the log is a        *)
(* sequence of lines with an end, and once the file is written it holds    *)
(* the document, which nothing changes before the log is dropped.          *)
IsLog(l) == /\ l = [lines |-> l.lines, tail |-> l.tail]
            /\ l.lines \in Seq(Range(l.lines))

LogInv == IsLog(log) /\ (phase = "saved" => file = Saved(document))

(* An append, cut short or not, takes no line away.                        *)
LEMMA AppendKeepsLines ==
  ASSUME NEW l, IsLog(l), NEW c, NEW m \in {l, Appended(l, c)} \cup CutShort(l, c)
  PROVE  IsLog(m) /\ (m.lines = <<>> => l.lines = <<>>)
<1> DEFINE more == Append(l.lines, c)
           S == Range(l.lines) \cup {c}
<1>1. l.lines \in Seq(S)
  BY DEF IsLog
<1>2. more \in Seq(S) /\ Len(more) = Len(l.lines) + 1 /\ Len(l.lines) \in Nat
  BY <1>1
<1>3. more \in Seq(Range(more)) /\ more # <<>>
  <2> HIDE DEF more, S
  <2>1. more \in Seq(Range(more))
    BY <1>2 DEF Range
  <2> QED BY <1>2, <2>1
<1>4. \/ m.lines = l.lines /\ m = [lines |-> l.lines, tail |-> m.tail]
      \/ m.lines = more /\ m = [lines |-> more, tail |-> m.tail]
  BY DEF IsLog, Appended, CutShort
<1> QED BY <1>3, <1>4 DEF IsLog

LEMMA EmptyLogIsLog == IsLog(EmptyLog)
  BY DEF IsLog, EmptyLog, Range

(* Answering a callback neither shrinks the log nor touches the file.      *)
LEMMA HandleCallbackKeepsLog ==
  ASSUME LogInv, HandleCallback
  PROVE  IsLog(log') /\ (log'.lines = <<>> => log.lines = <<>>)
         /\ phase = "commands" /\ phase' = phase
<1>1. phase = "commands" /\ phase' = phase
  BY DEF HandleCallback, Run, ApplyLogged, Refuse, UndoNothing, UndoWithoutState,
         Undo, RedoNothing, Redo, RedoFails, Handling, Answer
<1>2. CASE Run
  <2>1. PICK c : log' \in {log, Appended(log, c)} \cup CutShort(log, c)
    BY <1>2 DEF Run
  <2> QED BY <1>1, <2>1, AppendKeepsLines DEF LogInv
<1>3. CASE ~Run
  <2>1. log' = log
    BY <1>3 DEF HandleCallback, ApplyLogged, Refuse, UndoNothing,
                UndoWithoutState, Undo, RedoNothing, Redo, RedoFails, diskVars
  <2> QED BY <1>1, <2>1 DEF LogInv
<1> QED BY <1>2, <1>3

(* Every step keeps the invariant, and drops lines only where it may.      *)
LEMMA StepKeepsLog ==
  ASSUME LogInv, [Next]_vars
  PROVE  /\ LogInv'
         /\ log.lines # <<>> /\ log'.lines = <<>> =>
              file' = Saved(document') \/ NewProject \/ StartNew
<1>1. CASE \E t \in Caller : Call(t) \/ SendNext(t)
  BY <1>1 DEF Call, SendNext, sessionVars, diskVars, LogInv
<1>2. CASE HandleCallback
  BY <1>2, HandleCallbackKeepsLog DEF LogInv
<1>3. CASE NewProject
  BY <1>3, EmptyLogIsLog DEF NewProject, HandlingProject, LogInv
<1>4. CASE LoadProject \/ SaveNothing
  BY <1>4 DEF LoadProject, SaveNothing, HandlingProject, sessionVars, diskVars,
              LogInv
<1>5. CASE BeginSave
  BY <1>5 DEF BeginSave, LogInv
<1>6. CASE FinishSave
  BY <1>6 DEF FinishSave, sessionVars, LogInv
<1>7. CASE SaveFails
  BY <1>7 DEF SaveFails, sessionVars, diskVars, LogInv
<1>8. CASE TruncateLog
  BY <1>8, EmptyLogIsLog DEF TruncateLog, sessionVars, LogInv
<1>9. CASE EndProject \/ EndFrame
  BY <1>9 DEF EndProject, EndFrame, sessionVars, diskVars, LogInv
<1>10. CASE StartNew
  BY <1>10, EmptyLogIsLog DEF StartNew, LogInv
<1>11. CASE StartWithFile
  BY <1>11 DEF StartWithFile, diskVars, LogInv
<1>12. CASE ReplayNext \/ ReplayFails \/ EndReplay
  BY <1>12 DEF ReplayNext, ReplayFails, EndReplay, loopVars, sessionVars,
               diskVars, LogInv
<1>13. CASE Crash
  BY <1>13 DEF Crash, Die, LogInv
<1>14. CASE CrashInAppend
  <2>1. PICK c : log' \in CutShort(log, c)
    BY <1>14 DEF CrashInAppend
  <2>2. phase' = "down"
    BY <1>14 DEF CrashInAppend, Die
  <2> QED BY <2>1, <2>2, AppendKeepsLines DEF LogInv
<1>15. CASE UNCHANGED vars
  BY <1>15 DEF vars, loopVars, sessionVars, diskVars, LogInv
<1> QED BY <1>1, <1>2, <1>3, <1>4, <1>5, <1>6, <1>7, <1>8, <1>9, <1>10, <1>11,
           <1>12, <1>13, <1>14, <1>15
        DEF Next, MainLoop, Startup, HandleProject

(* Lines of the log are dropped only when the project file holds the       *)
(* document, when the user asks for a new project, or at a start without a *)
(* project: for any commands, with failing appends and saves and a crash   *)
(* at any step.                                                            *)
THEOREM LogStaysUntilSaved == Spec => LogIsKeptUntilSaved
<1>1. Init => LogInv
  BY EmptyLogIsLog DEF Init, LogInv
<1>2. LogInv /\ [Next]_vars => LogInv'
  BY StepKeepsLog
<1>3. LogInv /\ [Next]_vars =>
        [log.lines # <<>> /\ log'.lines = <<>> =>
           file' = Saved(document') \/ NewProject \/ StartNew]_vars
  BY StepKeepsLog
<1> QED BY <1>1, <1>2, <1>3, PTL DEF Spec, LogIsKeptUntilSaved

-----------------------------------------------------------------------------
(* Commands and the document *)

(* Least and greatest members, which Min and Max choose.                   *)

LEMMA LeastExists ==
  ASSUME NEW T, T \subseteq Nat, T # {}
  PROVE  \E x \in T : \A y \in T : x <= y
<1> DEFINE R == OpToRel(<, Nat)
<1>1. IsWellFoundedOn(R, Nat)
  BY NatLessThanWellFounded
<1>2. \A x, y \in Nat : x < y <=> <<x, y>> \in R
  BY DEF OpToRel
<1> HIDE DEF R
<1>3. PICK x \in T : \A y \in T : ~(<<y, x>> \in R)
  BY <1>1, WFMin
<1>4. ASSUME NEW y \in T PROVE x <= y
  <2>1. x \in Nat /\ y \in Nat
    OBVIOUS
  <2>2. ~(y < x)
    BY <2>1, <1>2, <1>3
  <2> QED BY <2>1, <2>2, SMT
<1> QED BY <1>4

(* A finite set of numbers has a greatest one: of the finite sets without, *)
(* a smallest would still lack one after losing a member.                  *)
LEMMA GreatestExists ==
  ASSUME NEW T, T \subseteq Nat, IsFiniteSet(T), T # {}
  PROVE  \E x \in T : \A y \in T : y <= x
<1> DEFINE HasGreatest(S) == \E x \in S : \A y \in S : y <= x
           Bad == {S \in SUBSET T : S # {} /\ ~HasGreatest(S)}
           Sizes == {Cardinality(S) : S \in Bad}
<1>1. \A S \in SUBSET T : IsFiniteSet(S) /\ Cardinality(S) \in Nat
  BY FS_Subset, FS_CardinalityType
<1>2. SUFFICES ASSUME Bad # {} PROVE FALSE
  <2>1. T \in SUBSET T
    OBVIOUS
  <2>2. Bad = {} => HasGreatest(T)
    BY <2>1
  <2> QED BY <2>2
<1>3. PICK n \in Sizes : \A m \in Sizes : n <= m
  <2>1. Sizes \subseteq Nat /\ Sizes # {}
    BY <1>1, <1>2
  <2> HIDE DEF Sizes
  <2> QED BY <2>1, LeastExists
<1>4. PICK S \in Bad : n = Cardinality(S)
  BY <1>3
<1>5. PICK x \in S : TRUE
  BY <1>4
<1> DEFINE U == S \ {x}
<1>6. IsFiniteSet(S) /\ Cardinality(S) \in Nat
  BY <1>1, <1>4
<1>7. Cardinality(U) = n - 1
  BY <1>4, <1>5, <1>6, FS_RemoveElement
<1>8. U \notin Bad
  <2>1. U \in Bad => Cardinality(U) \in Sizes
    OBVIOUS
  <2>2. n \in Nat /\ ~(n <= n - 1)
    BY <1>4, <1>6
  <2> HIDE DEF U, Bad, Sizes
  <2> QED BY <1>3, <1>7, <2>1, <2>2
<1>9. U = {} \/ HasGreatest(U)
  BY <1>8
<1>10. CASE U = {}
  <2>1. HasGreatest(S)
    BY <1>5, <1>10
  <2> QED BY <2>1, <1>4
<1>11. CASE HasGreatest(U)
  <2>1. PICK z \in U : \A y \in U : y <= z
    BY <1>11
  <2>2. x \in Nat /\ z \in Nat
    BY <1>4, <1>5
  <2>3. CASE x <= z
    <3>1. \A y \in S : y <= z
      BY <2>1, <2>3
    <3> QED BY <3>1, <2>1, <1>4
  <2>4. CASE z <= x
    <3>1. \A y \in S : y \in Nat
      BY <1>4
    <3>2. \A y \in S : y <= x
      BY <2>1, <2>2, <2>4, <3>1
    <3> QED BY <3>2, <1>4, <1>5
  <2> QED BY <2>2, <2>3, <2>4
<1> QED BY <1>9, <1>10, <1>11

LEMMA MaxIsGreatest ==
  ASSUME NEW T, T \subseteq Nat, IsFiniteSet(T), T # {}
  PROVE  Max(T) \in T /\ \A y \in T : y <= Max(T)
<1>1. PICK x \in T : \A y \in T : y <= x
  BY GreatestExists
<1>2. \A y \in T : x >= y
  BY <1>1
<1>3. Max(T) \in T /\ \A y \in T : Max(T) >= y
  BY <1>2 DEF Max
<1> QED BY <1>3

LEMMA MinIsLeast ==
  ASSUME NEW T, T \subseteq Nat, T # {}
  PROVE  Min(T) \in T /\ \A y \in T : Min(T) <= y
<1>1. PICK x \in T : \A y \in T : x =< y
  BY LeastExists
<1> QED BY <1>1 DEF Min
-----------------------------------------------------------------------------
(* Maps: what a key maps to is set and taken away, and back.               *)

LEMMA WithIsMap ==
  ASSUME NEW D, NEW R, NEW f, IsMap(f, D, R), NEW x \in D, NEW y \in R
  PROVE  IsMap(With(f, x, y), D, R) /\ DOMAIN With(f, x, y) = DOMAIN f \cup {x}
<1>1. IsFiniteSet(DOMAIN f \cup {x})
  BY FS_AddElement DEF IsMap
<1> QED BY <1>1 DEF IsMap, With

LEMMA WithoutIsMap ==
  ASSUME NEW D, NEW R, NEW f, IsMap(f, D, R), NEW x
  PROVE  IsMap(Without(f, x), D, R) /\ DOMAIN Without(f, x) = DOMAIN f \ {x}
<1>1. IsFiniteSet(DOMAIN f \ {x})
  BY FS_RemoveElement DEF IsMap
<1> QED BY <1>1 DEF IsMap, Without, Restrict

LEMMA ExceptIsMap ==
  ASSUME NEW D, NEW R, NEW f, IsMap(f, D, R), NEW x, NEW y \in R
  PROVE  IsMap([f EXCEPT ![x] = y], D, R) /\ DOMAIN [f EXCEPT ![x] = y] = DOMAIN f
  BY DEF IsMap

LEMMA WithoutWith ==
  ASSUME NEW D, NEW R, NEW f, IsMap(f, D, R), NEW x, x \notin DOMAIN f, NEW y
  PROVE  Without(With(f, x, y), x) = f
<1>1. f = [z \in DOMAIN f |-> f[z]]
  BY DEF IsMap
<1>2. DOMAIN With(f, x, y) \ {x} = DOMAIN f
  BY DEF With
<1> QED BY <1>1, <1>2 DEF With, Without, Restrict

LEMMA WithWithout ==
  ASSUME NEW D, NEW R, NEW f, IsMap(f, D, R), NEW x \in DOMAIN f
  PROVE  With(Without(f, x), x, f[x]) = f
<1>1. f = [z \in DOMAIN f |-> f[z]]
  BY DEF IsMap
<1>2. DOMAIN Without(f, x) \cup {x} = DOMAIN f
  BY DEF Without, Restrict
<1> QED BY <1>1, <1>2 DEF With, Without, Restrict

LEMMA ExceptBack ==
  ASSUME NEW D, NEW R, NEW f, IsMap(f, D, R), NEW x \in DOMAIN f, NEW y
  PROVE  [[f EXCEPT ![x] = y] EXCEPT ![x] = f[x]] = f
<1>1. f = [z \in DOMAIN f |-> f[z]]
  BY DEF IsMap
<1> QED BY <1>1
-----------------------------------------------------------------------------
(* Every name a sequence can have.                                         *)
Names == Name \cup {DefaultName}

(* The parts of a document.                                                *)
LEMMA DocumentParts ==
  ASSUME NEW d
  PROVE  IsDocument(d) <=>
           /\ d = [sequences |-> d.sequences, nodes |-> d.nodes, counter |-> d.counter]
           /\ IsMap(d.sequences, Id, Names) /\ IsMap(d.nodes, Path, Id)
           /\ d.counter \in Id
  BY DEF IsDocument, Names

(* Replacing one part of a document, in the notation of the commands.      *)
LEMMA DocumentExcept ==
  ASSUME NEW d, IsDocument(d), NEW s, NEW n, NEW id, NEW name
  PROVE  /\ [d EXCEPT !.sequences = s] =
              [sequences |-> s, nodes |-> d.nodes, counter |-> d.counter]
         /\ [d EXCEPT !.nodes = n] =
              [sequences |-> d.sequences, nodes |-> n, counter |-> d.counter]
         /\ [d EXCEPT !.sequences[id] = name] =
              [sequences |-> [d.sequences EXCEPT ![id] = name],
               nodes |-> d.nodes, counter |-> d.counter]
<1>1. PICK x, y, z : d = [sequences |-> x, nodes |-> y, counter |-> z]
  BY DEF IsDocument
<1>2. d.sequences = x /\ d.nodes = y /\ d.counter = z
  BY <1>1
<1>3. [d EXCEPT !.sequences = s] = [sequences |-> s, nodes |-> y, counter |-> z]
  BY <1>1
<1>4. [d EXCEPT !.nodes = n] = [sequences |-> x, nodes |-> n, counter |-> z]
  BY <1>1
<1>5. [d EXCEPT !.sequences[id] = name] =
        [sequences |-> [x EXCEPT ![id] = name], nodes |-> y, counter |-> z]
  BY <1>1
<1> QED BY <1>2, <1>3, <1>4, <1>5

(* No id is given out twice: those in use lie below the counter.           *)
Fresh(d) == \A id \in DOMAIN d.sequences : id < d.counter

(* A document in which nothing but the content is said otherwise.          *)
LEMMA RebuiltDocument ==
  ASSUME NEW s, IsMap(s, Id, Names), NEW n, IsMap(n, Path, Id), NEW c \in Id
  PROVE  IsDocument([sequences |-> s, nodes |-> n, counter |-> c])
  BY DEF IsDocument, Names

(* Undoing cmd with this state leads from any document with the content    *)
(* after to one with the content before, and leaves the counter alone.     *)
Undoes(cmd, before, after, state) ==
  \A d : IsDocument(d) /\ Content(d) = after =>
    LET r == Revert(cmd, d, state)
    IN  r.ok /\ IsDocument(r.doc) /\ Content(r.doc) = before
        /\ r.doc.counter = d.counter

(* Undoing cmd with this state leaves a document of any document.          *)
Safe(cmd, state) ==
  \A d : IsDocument(d) =>
    /\ IsDocument(Revert(cmd, d, state).doc)
    /\ Revert(cmd, d, state).ok \in BOOLEAN

(* What applying a command promises: a document whatever happens, ids that *)
(* are given out once, and, if it succeeds, a state with which undo can    *)
(* bring back the content it found.                                        *)
Promises(cmd, d, r) ==
  /\ r.ok \in BOOLEAN /\ IsDocument(r.doc)
  /\ r.doc.counter >= d.counter
  /\ Fresh(d) => Fresh(r.doc)
  /\ r.ok => Safe(cmd, r.state)
  /\ r.ok /\ Fresh(d) => Undoes(cmd, Content(d), Content(r.doc), r.state)

LEMMA NextPathIsFree ==
  ASSUME NEW d, IsDocument(d)
  PROVE  NextPath(d) \in Path /\ NextPath(d) \notin DOMAIN d.nodes
<1>1. DOMAIN d.nodes \subseteq Nat /\ IsFiniteSet(DOMAIN d.nodes)
  BY DEF IsDocument, IsMap, Path
<1>2. CASE DOMAIN d.nodes = {}
  BY <1>2 DEF NextPath, Path
<1>3. CASE DOMAIN d.nodes # {}
  <2>1. /\ Max(DOMAIN d.nodes) \in Nat
        /\ \A y \in DOMAIN d.nodes : y \in Nat /\ y <= Max(DOMAIN d.nodes)
    BY <1>1, <1>3, MaxIsGreatest
  <2>2. NextPath(d) = 1 + Max(DOMAIN d.nodes)
    BY <1>3 DEF NextPath
  <2> QED BY <2>1, <2>2 DEF Path
<1> QED BY <1>2, <1>3

LEMMA AddPromises ==
  ASSUME NEW cmd \in Command, cmd.type = "AddSequence", NEW d, IsDocument(d)
  PROVE  Promises(cmd, d, Apply(cmd, d))
<1> DEFINE id    == d.counter
           path  == NextPath(d)
           state == [id |-> id, path |-> path]
           e     == [sequences |-> With(d.sequences, id, DefaultName),
                     nodes |-> With(d.nodes, path, id), counter |-> id + 1]
<1>1. Apply(cmd, d) = [ok |-> TRUE, doc |-> e, state |-> state]
  BY DEF Apply, ApplyAdd, Applied
<1>2. /\ d = [sequences |-> d.sequences, nodes |-> d.nodes, counter |-> d.counter]
      /\ IsMap(d.sequences, Id, Names) /\ IsMap(d.nodes, Path, Id)
      /\ id \in Id
  BY DocumentParts
<1>3. path \in Path /\ path \notin DOMAIN d.nodes
  BY NextPathIsFree
<1> HIDE DEF path
<1>4. /\ IsMap(With(d.sequences, id, DefaultName), Id, Names)
      /\ DOMAIN With(d.sequences, id, DefaultName) = DOMAIN d.sequences \cup {id}
  <2>1. DefaultName \in Names
    BY DEF Names
  <2> QED BY <1>2, <2>1, WithIsMap
<1>5. IsMap(With(d.nodes, path, id), Path, Id)
  BY <1>2, <1>3, WithIsMap
<1>6. id \in Nat /\ id + 1 \in Id /\ id + 1 >= id
  BY <1>2 DEF Id
<1>7. IsDocument(e)
  BY <1>4, <1>5, <1>6, RebuiltDocument
<1>8. ASSUME Fresh(d) PROVE Fresh(e)
  <2>1. \A i \in DOMAIN d.sequences : i \in Nat /\ i < id
    BY <1>2, <1>8 DEF IsMap, Id, Fresh
  <2>2. \A i \in DOMAIN d.sequences \cup {id} : i < id + 1
    BY <1>6, <2>1
  <2> QED BY <1>4, <2>2 DEF Fresh
<1>9. ASSUME NEW b, IsDocument(b)
      PROVE  /\ Revert(cmd, b, state) = [ok |-> TRUE,
                  doc |-> [sequences |-> Without(b.sequences, id),
                           nodes |-> Without(b.nodes, path), counter |-> b.counter]]
             /\ IsDocument(Revert(cmd, b, state).doc)
             /\ Revert(cmd, b, state).ok \in BOOLEAN
  <2>1. /\ b = [sequences |-> b.sequences, nodes |-> b.nodes, counter |-> b.counter]
        /\ IsMap(b.sequences, Id, Names) /\ IsMap(b.nodes, Path, Id)
        /\ b.counter \in Id
    BY <1>9, DocumentParts
  <2>2. Revert(cmd, b, state) = RevertAdd(b, state)
    BY DEF Revert
  <2>3. RevertAdd(b, state) = [ok |-> TRUE,
                  doc |-> [sequences |-> Without(b.sequences, id),
                           nodes |-> Without(b.nodes, path), counter |-> b.counter]]
    BY <1>9, DocumentExcept DEF RevertAdd
  <2>4. IsMap(Without(b.sequences, id), Id, Names) /\ IsMap(Without(b.nodes, path), Path, Id)
    BY <2>1, WithoutIsMap
  <2>5. IsDocument([sequences |-> Without(b.sequences, id),
                    nodes |-> Without(b.nodes, path), counter |-> b.counter])
    BY <2>1, <2>4, RebuiltDocument
  <2> HIDE DEF state
  <2> QED BY <2>2, <2>3, <2>5
<1> HIDE DEF state
<1>10. ASSUME Fresh(d) PROVE Undoes(cmd, Content(d), Content(e), state)
  <2>1. id \notin DOMAIN d.sequences
    BY <1>6, <1>10 DEF Fresh
  <2>2. ASSUME NEW b, IsDocument(b), Content(b) = Content(e)
        PROVE  Content(Revert(cmd, b, state).doc) = Content(d)
    <3>1. b.sequences = With(d.sequences, id, DefaultName) /\ b.nodes = With(d.nodes, path, id)
      BY <2>2 DEF Content
    <3>2. Without(b.sequences, id) = d.sequences
      BY <1>2, <2>1, <3>1, WithoutWith
    <3>3. Without(b.nodes, path) = d.nodes
      BY <1>2, <1>3, <3>1, WithoutWith
    <3>4. Revert(cmd, b, state).doc =
            [sequences |-> d.sequences, nodes |-> d.nodes, counter |-> b.counter]
      BY <1>9, <2>2, <3>2, <3>3
    <3> QED BY <3>4 DEF Content
  <2> QED BY <1>9, <2>2 DEF Undoes
<1>11. Safe(cmd, state)
  BY <1>9 DEF Safe
<1> HIDE DEF e
<1>12. e.counter = id + 1
  BY DEF e
<1> QED BY <1>1, <1>6, <1>7, <1>8, <1>10, <1>11, <1>12 DEF Promises

LEMMA RenamePromises ==
  ASSUME NEW cmd \in Command, cmd.type = "RenameSequence", NEW d, IsDocument(d)
  PROVE  Promises(cmd, d, Apply(cmd, d))
<1> DEFINE id == cmd.id
<1>1. cmd.id \in Id /\ cmd.name \in Names
  BY DEF Command, Names
<1>2. /\ d = [sequences |-> d.sequences, nodes |-> d.nodes, counter |-> d.counter]
      /\ IsMap(d.sequences, Id, Names) /\ IsMap(d.nodes, Path, Id)
      /\ d.counter \in Id
  BY DocumentParts
<1>3. d.counter >= d.counter
  BY <1>2 DEF Id
<1>4. CASE id \notin DOMAIN d.sequences
  <2>1. Apply(cmd, d) = [ok |-> FALSE, doc |-> d]
    BY <1>4 DEF Apply, ApplyRename, Failed
  <2> QED BY <1>3, <2>1 DEF Promises
<1>5. CASE id \in DOMAIN d.sequences
  <2> DEFINE state == [name |-> d.sequences[id]]
             e == [sequences |-> [d.sequences EXCEPT ![id] = cmd.name],
                   nodes |-> d.nodes, counter |-> d.counter]
  <2>1. Apply(cmd, d) = [ok |-> TRUE, doc |-> e, state |-> state]
    BY <1>5, DocumentExcept DEF Apply, ApplyRename, Applied
  <2>2. d.sequences[id] \in Names
    BY <1>2, <1>5 DEF IsMap
  <2>3. /\ IsDocument(e) /\ e.counter = d.counter
        /\ DOMAIN e.sequences = DOMAIN d.sequences
    BY <1>1, <1>2, ExceptIsMap, RebuiltDocument
  <2>4. ASSUME NEW b, IsDocument(b)
        PROVE  /\ Revert(cmd, b, state) =
                    IF id \in DOMAIN b.sequences
                    THEN [ok |-> TRUE,
                          doc |-> [sequences |-> [b.sequences EXCEPT ![id] = d.sequences[id]],
                                   nodes |-> b.nodes, counter |-> b.counter]]
                    ELSE [ok |-> FALSE, doc |-> b]
               /\ IsDocument(Revert(cmd, b, state).doc)
               /\ Revert(cmd, b, state).ok \in BOOLEAN
    <3>1. /\ b = [sequences |-> b.sequences, nodes |-> b.nodes, counter |-> b.counter]
          /\ IsMap(b.sequences, Id, Names) /\ IsMap(b.nodes, Path, Id)
          /\ b.counter \in Id
      BY <2>4, DocumentParts
    <3>2. Revert(cmd, b, state) = RevertRename(b, id, state)
      BY DEF Revert
    <3>3. RevertRename(b, id, state) =
            IF id \in DOMAIN b.sequences
            THEN [ok |-> TRUE,
                  doc |-> [sequences |-> [b.sequences EXCEPT ![id] = d.sequences[id]],
                           nodes |-> b.nodes, counter |-> b.counter]]
            ELSE [ok |-> FALSE, doc |-> b]
      BY <2>4, DocumentExcept DEF RevertRename
    <3>4. IsMap([b.sequences EXCEPT ![id] = d.sequences[id]], Id, Names)
      BY <2>2, <3>1, ExceptIsMap
    <3>5. IsDocument([sequences |-> [b.sequences EXCEPT ![id] = d.sequences[id]],
                      nodes |-> b.nodes, counter |-> b.counter])
      BY <3>1, <3>4, RebuiltDocument
    <3> HIDE DEF state
    <3> QED BY <2>4, <3>2, <3>3, <3>5
  <2>5. ASSUME NEW b, IsDocument(b), Content(b) = Content(e)
        PROVE  LET r == Revert(cmd, b, state)
               IN  r.ok /\ Content(r.doc) = Content(d) /\ r.doc.counter = b.counter
    <3>1. b.sequences = [d.sequences EXCEPT ![id] = cmd.name] /\ b.nodes = d.nodes
      BY <2>5 DEF Content
    <3>2. [b.sequences EXCEPT ![id] = d.sequences[id]] = d.sequences
      BY <1>2, <1>5, <3>1, ExceptBack
    <3>3. id \in DOMAIN b.sequences
      BY <1>5, <3>1
    <3>4. Revert(cmd, b, state) =
            [ok |-> TRUE, doc |-> [sequences |-> d.sequences, nodes |-> d.nodes,
                                   counter |-> b.counter]]
      BY <2>4, <2>5, <3>1, <3>2, <3>3
    <3> QED BY <3>4 DEF Content
  <2>6. Safe(cmd, state)
    BY <2>4 DEF Safe
  <2>7. Undoes(cmd, Content(d), Content(e), state)
    BY <2>4, <2>5 DEF Undoes
  <2>8. Fresh(d) => Fresh(e)
    BY <2>3 DEF Fresh
  <2> HIDE DEF e, state
  <2> QED BY <1>3, <2>1, <2>3, <2>6, <2>7, <2>8 DEF Promises
<1> QED BY <1>4, <1>5

LEMMA DeletePromises ==
  ASSUME NEW cmd \in Command, cmd.type = "DeleteSequence", NEW d, IsDocument(d)
  PROVE  Promises(cmd, d, Apply(cmd, d))
<1> DEFINE id      == cmd.id
           removed == [sequences |-> Without(d.sequences, id), nodes |-> d.nodes,
                       counter |-> d.counter]
           paths   == {p \in DOMAIN d.nodes : d.nodes[p] = id}
<1>1. id \in Id
  BY DEF Command
<1>2. /\ d = [sequences |-> d.sequences, nodes |-> d.nodes, counter |-> d.counter]
      /\ IsMap(d.sequences, Id, Names) /\ IsMap(d.nodes, Path, Id)
      /\ d.counter \in Id
  BY DocumentParts
<1>3. d.counter >= d.counter
  BY <1>2 DEF Id
<1>4. /\ IsMap(Without(d.sequences, id), Id, Names)
      /\ DOMAIN Without(d.sequences, id) = DOMAIN d.sequences \ {id}
  BY <1>2, WithoutIsMap
<1>5. CASE id \notin DOMAIN d.sequences \/ paths = {}
  <2>1. Apply(cmd, d) = [ok |-> FALSE, doc |-> removed]
    BY <1>5, DocumentExcept DEF Apply, ApplyDelete, Failed
  <2>2. IsDocument(removed) /\ removed.counter = d.counter
    BY <1>2, <1>4, RebuiltDocument
  <2>3. Fresh(d) => Fresh(removed)
    BY <1>4 DEF Fresh
  <2> HIDE DEF removed
  <2> QED BY <1>3, <2>1, <2>2, <2>3 DEF Promises
<1>6. CASE id \in DOMAIN d.sequences /\ paths # {}
  <2> DEFINE path  == Min(paths)
             name  == d.sequences[id]
             state == [name |-> name, path |-> path, id |-> id]
             e     == [sequences |-> Without(d.sequences, id),
                       nodes |-> Without(d.nodes, path), counter |-> d.counter]
  <2>1. Apply(cmd, d) = [ok |-> TRUE, doc |-> e, state |-> state]
    BY <1>6 DEF Apply, ApplyDelete, Applied
  <2>2. path \in paths
    BY <1>2, <1>6, MinIsLeast DEF IsMap, Path
  <2> HIDE DEF path
  <2>3. path \in DOMAIN d.nodes /\ d.nodes[path] = id /\ path \in Path
    BY <1>2, <2>2 DEF IsMap
  <2>4. name \in Names
    BY <1>2, <1>6 DEF IsMap
  <2> HIDE DEF name
  <2>5. /\ IsDocument(e) /\ e.counter = d.counter
        /\ DOMAIN e.sequences = DOMAIN d.sequences \ {id}
    BY <1>2, <1>4, WithoutIsMap, RebuiltDocument
  <2>6. Fresh(d) => Fresh(e)
    BY <2>5 DEF Fresh
  <2>7. ASSUME NEW b, IsDocument(b)
        PROVE  /\ Revert(cmd, b, state) = [ok |-> TRUE,
                    doc |-> [sequences |-> With(b.sequences, id, name),
                             nodes |-> With(b.nodes, path, id), counter |-> b.counter]]
               /\ IsDocument(Revert(cmd, b, state).doc)
               /\ Revert(cmd, b, state).ok \in BOOLEAN
    <3>1. /\ IsMap(b.sequences, Id, Names) /\ IsMap(b.nodes, Path, Id)
          /\ b.counter \in Id
      BY <2>7, DocumentParts
    <3>2. Revert(cmd, b, state) = [ok |-> TRUE,
                    doc |-> [sequences |-> With(b.sequences, id, name),
                             nodes |-> With(b.nodes, path, id), counter |-> b.counter]]
      BY DEF Revert, RevertDelete
    <3>3. IsMap(With(b.sequences, id, name), Id, Names) /\ IsMap(With(b.nodes, path, id), Path, Id)
      BY <1>1, <2>3, <2>4, <3>1, WithIsMap
    <3>4. IsDocument([sequences |-> With(b.sequences, id, name),
                      nodes |-> With(b.nodes, path, id), counter |-> b.counter])
      BY <3>1, <3>3, RebuiltDocument
    <3> HIDE DEF state
    <3> QED BY <3>2, <3>4
  <2>8. Safe(cmd, state)
    BY <2>7 DEF Safe
  <2> HIDE DEF state
  <2>9. Undoes(cmd, Content(d), Content(e), state)
    <3>1. ASSUME NEW b, IsDocument(b), Content(b) = Content(e)
          PROVE  Revert(cmd, b, state) = [ok |-> TRUE,
                    doc |-> [sequences |-> d.sequences, nodes |-> d.nodes,
                             counter |-> b.counter]]
      <4>1. b.sequences = Without(d.sequences, id) /\ b.nodes = Without(d.nodes, path)
        BY <3>1 DEF Content
      <4>2. With(b.sequences, id, name) = d.sequences
        BY <1>2, <1>6, <4>1, WithWithout DEF name
      <4>3. With(b.nodes, path, id) = d.nodes
        BY <1>2, <2>3, <4>1, WithWithout
      <4> QED BY <2>7, <3>1, <4>2, <4>3
    <3> QED BY <2>7, <3>1 DEF Undoes, Content
  <2> HIDE DEF e
  <2> QED BY <1>3, <2>1, <2>5, <2>6, <2>8, <2>9 DEF Promises
<1> QED BY <1>5, <1>6

LEMMA DeleteNodePromises ==
  ASSUME NEW cmd \in Command, cmd.type = "DeleteNode", NEW d, IsDocument(d)
  PROVE  Promises(cmd, d, Apply(cmd, d))
<1> DEFINE path == cmd.path
<1>1. path \in Path
  BY DEF Command
<1>2. /\ d = [sequences |-> d.sequences, nodes |-> d.nodes, counter |-> d.counter]
      /\ IsMap(d.sequences, Id, Names) /\ IsMap(d.nodes, Path, Id)
      /\ d.counter \in Id
  BY DocumentParts
<1>3. d.counter >= d.counter
  BY <1>2 DEF Id
<1>4. CASE path \notin DOMAIN d.nodes
  <2> DEFINE state == [plays |-> {}]
  <2>1. Apply(cmd, d) = [ok |-> TRUE, doc |-> d, state |-> state]
    BY <1>4 DEF Apply, ApplyDeleteNode, Applied
  <2>2. \A b : Revert(cmd, b, state) = [ok |-> TRUE, doc |-> b]
    BY DEF Revert, RevertDeleteNode
  <2> HIDE DEF state
  <2>3. \A b : Revert(cmd, b, state).ok = TRUE /\ Revert(cmd, b, state).doc = b
    BY <2>2
  <2>4. Safe(cmd, state)
    BY <2>3 DEF Safe
  <2>5. Undoes(cmd, Content(d), Content(d), state)
    BY <2>3 DEF Undoes
  <2> QED BY <1>3, <2>1, <2>4, <2>5 DEF Promises
<1>5. CASE path \in DOMAIN d.nodes
  <2> DEFINE id    == d.nodes[path]
             state == [plays |-> {id}]
             e     == [sequences |-> d.sequences, nodes |-> Without(d.nodes, path),
                       counter |-> d.counter]
  <2>1. Apply(cmd, d) = [ok |-> TRUE, doc |-> e, state |-> state]
    BY <1>5, DocumentExcept DEF Apply, ApplyDeleteNode, Applied
  <2>2. id \in Id
    BY <1>2, <1>5 DEF IsMap
  <2> HIDE DEF id
  <2>3. IsDocument(e) /\ e.counter = d.counter /\ e.sequences = d.sequences
    BY <1>2, WithoutIsMap, RebuiltDocument
  <2>4. ASSUME NEW b, IsDocument(b)
        PROVE  /\ Revert(cmd, b, state) = [ok |-> TRUE,
                    doc |-> [sequences |-> b.sequences,
                             nodes |-> With(b.nodes, path, id), counter |-> b.counter]]
               /\ IsDocument(Revert(cmd, b, state).doc)
               /\ Revert(cmd, b, state).ok \in BOOLEAN
    <3>1. /\ IsMap(b.sequences, Id, Names) /\ IsMap(b.nodes, Path, Id)
          /\ b.counter \in Id
      BY <2>4, DocumentParts
    <3>2. Revert(cmd, b, state) =
            [ok |-> TRUE, doc |-> [b EXCEPT !.nodes = With(b.nodes, path, id)]]
      <4>1. (CHOOSE i \in {id} : TRUE) = id
        OBVIOUS
      <4> QED BY <4>1 DEF Revert, RevertDeleteNode
    <3>3. Revert(cmd, b, state) = [ok |-> TRUE,
                    doc |-> [sequences |-> b.sequences,
                             nodes |-> With(b.nodes, path, id), counter |-> b.counter]]
      <4>1. [b EXCEPT !.nodes = With(b.nodes, path, id)] =
              [sequences |-> b.sequences,
               nodes |-> With(b.nodes, path, id), counter |-> b.counter]
        BY <2>4, DocumentExcept
      <4> QED BY <3>2, <4>1, Zenon
    <3>4. IsDocument([sequences |-> b.sequences,
                      nodes |-> With(b.nodes, path, id), counter |-> b.counter])
      BY <1>1, <2>2, <3>1, WithIsMap, RebuiltDocument
    <3> HIDE DEF state
    <3> QED BY <3>3, <3>4
  <2>5. Safe(cmd, state)
    BY <2>4 DEF Safe
  <2> HIDE DEF state
  <2>6. Undoes(cmd, Content(d), Content(e), state)
    <3>1. ASSUME NEW b, IsDocument(b), Content(b) = Content(e)
          PROVE  Revert(cmd, b, state) = [ok |-> TRUE,
                    doc |-> [sequences |-> d.sequences, nodes |-> d.nodes,
                             counter |-> b.counter]]
      <4>1. b.sequences = d.sequences /\ b.nodes = Without(d.nodes, path)
        BY <3>1 DEF Content
      <4>2. With(b.nodes, path, id) = d.nodes
        BY <1>2, <1>5, <4>1, WithWithout DEF id
      <4> QED BY <2>4, <3>1, <4>1, <4>2
    <3> QED BY <2>4, <3>1 DEF Undoes, Content
  <2>7. Fresh(d) => Fresh(e)
    BY <2>3 DEF Fresh
  <2> HIDE DEF e
  <2> QED BY <1>3, <2>1, <2>3, <2>5, <2>6, <2>7 DEF Promises
<1> QED BY <1>4, <1>5

LEMMA ApplyPromises ==
  ASSUME NEW cmd \in Command, NEW d, IsDocument(d)
  PROVE  Promises(cmd, d, Apply(cmd, d))
<1>1. cmd.type \in {"AddSequence", "DeleteSequence", "RenameSequence", "DeleteNode"}
  BY DEF Command
<1> QED BY <1>1, AddPromises, RenamePromises, DeletePromises, DeleteNodePromises
-----------------------------------------------------------------------------
(* Type correctness.  The inductive invariant has three parts besides that *)
(* of CommanderProofs: what the queues, the log and the flags hold, that   *)
(* the documents are documents, and that undo finds a state with which it  *)
(* leaves one.                                                             *)
Callback ==
  [caller : Caller, op : {"run", "apply"}, cmd : Command]
    \cup [caller : Caller, op : {"undo", "redo"}, cmd : {[type |-> "none"]}]

LogOf(C) == [lines : Seq(C), tail : {"clean", "open", "torn"}]

QueuesTyped ==
  /\ phase \in Phase
  /\ projectQueue \in Seq(Caller \X ProjectOp)
  /\ phase \in {"saving", "saved"} => projectQueue # <<>>
  /\ callbacks \in Seq(Callback)
  /\ unsent \in [Caller -> Seq(Command)]
  /\ log \in LogOf(Command)
  /\ replay \in Seq(Command)

FlagsTyped ==
  /\ projectOpen \in BOOLEAN /\ logExplains \in BOOLEAN /\ orderly \in BOOLEAN
  /\ requests \in Nat /\ crashes \in Nat

DocumentsTyped ==
  /\ IsDocument(document) /\ IsDocument(lost)
  /\ file.is \in {"none", "broken", "saved"} /\ IsDocument(Loaded(file.content))

(* Every entry is a command, and its state, while it has one, fits it.     *)
EntriesFit(h, s) ==
  \A i \in DOMAIN h.commands :
    /\ h.commands[i].cmd \in Command
    /\ h.commands[i].key \in DOMAIN s => Safe(h.commands[i].cmd, s[h.commands[i].key])

TypeInv ==
  IInv /\ QueuesTyped /\ FlagsTyped /\ DocumentsTyped /\ EntriesFit(history, states)

LEMMA SequenceEnds ==
  ASSUME NEW S, NEW s \in Seq(S), s # <<>>
  PROVE  Head(s) \in S /\ Tail(s) \in Seq(S)
  OBVIOUS

LEMMA SequenceGrows ==
  ASSUME NEW S, NEW s \in Seq(S), NEW x \in S
  PROVE  Append(s, x) \in Seq(S) /\ Append(s, x) # <<>>
<1>1. Append(s, x) \in Seq(S) /\ Len(Append(s, x)) = Len(s) + 1 /\ Len(s) \in Nat
  OBVIOUS
<1> QED BY <1>1

(* The command of a callback that runs one.                                *)
LEMMA HandledCommand ==
  ASSUME QueuesTyped, Handling("run") \/ Handling("apply")
  PROVE  Head(callbacks).cmd \in Command
<1>1. callbacks \in Seq(Callback) /\ callbacks # <<>> /\ Head(callbacks).op \in {"run", "apply"}
  BY DEF QueuesTyped, Handling
<1>2. Head(callbacks) \in Callback
  BY <1>1, SequenceEnds
<1> QED BY <1>1, <1>2 DEF Callback

LEMMA AnswerTyped ==
  ASSUME QueuesTyped, callbacks # <<>>, NEW ok, Answer(ok)
  PROVE  /\ callbacks' \in Seq(Callback) /\ unsent' \in [Caller -> Seq(Command)]
         /\ phase' = phase /\ projectQueue' = projectQueue
<1>1. callbacks \in Seq(Callback) /\ unsent \in [Caller -> Seq(Command)]
  BY DEF QueuesTyped
<1>2. Tail(callbacks) \in Seq(Callback)
  BY <1>1, SequenceEnds
<1>3. <<>> \in Seq(Command)
  OBVIOUS
<1> QED BY <1>1, <1>2, <1>3 DEF Answer

LEMMA LoggedTyped ==
  ASSUME NEW l \in LogOf(Command), NEW c \in Command,
         NEW m \in {l, Appended(l, c)} \cup CutShort(l, c)
  PROVE  m \in LogOf(Command)
<1>1. Append(l.lines, c) \in Seq(Command)
  BY DEF LogOf
<1> QED BY <1>1 DEF LogOf, Appended, CutShort

LEMMA HandleCallbackKeepsQueues ==
  ASSUME QueuesTyped, HandleCallback
  PROVE  QueuesTyped'
<1>1. callbacks # <<>> /\ \E ok : Answer(ok)
  BY DEF HandleCallback, Run, ApplyLogged, Refuse, UndoNothing, UndoWithoutState,
         Undo, RedoNothing, Redo, RedoFails, Handling
<1>2. log' \in LogOf(Command)
  <2>1. CASE Run
    <3>1. Head(callbacks).cmd \in Command
      BY <2>1, HandledCommand DEF Run
    <3>2. log' \in {log, Appended(log, Head(callbacks).cmd)} \cup CutShort(log, Head(callbacks).cmd)
      BY <2>1 DEF Run
    <3>3. log \in LogOf(Command)
      BY DEF QueuesTyped
    <3> QED BY <3>1, <3>2, <3>3, LoggedTyped
  <2>2. CASE ~Run
    BY <2>2 DEF HandleCallback, ApplyLogged, Refuse, UndoNothing, UndoWithoutState,
                Undo, RedoNothing, Redo, RedoFails, diskVars, QueuesTyped
  <2> QED BY <2>1, <2>2
<1>3. replay' = replay
  BY DEF HandleCallback, Run, ApplyLogged, Refuse, UndoNothing, UndoWithoutState,
         Undo, RedoNothing, Redo, RedoFails
<1>4. phase' = phase /\ projectQueue' = projectQueue
  BY <1>1, AnswerTyped
<1>5. callbacks' \in Seq(Callback) /\ unsent' \in [Caller -> Seq(Command)]
  BY <1>1, AnswerTyped
<1> QED BY <1>2, <1>3, <1>4, <1>5 DEF QueuesTyped

LEMMA HandleProjectKeepsQueues ==
  ASSUME QueuesTyped, HandleProject
  PROVE  QueuesTyped'
<1>1. projectQueue \in Seq(Caller \X ProjectOp) /\ projectQueue # <<>>
  BY DEF HandleProject, NewProject, LoadProject, SaveNothing, BeginSave, FinishSave,
         SaveFails, TruncateLog, HandlingProject, QueuesTyped
<1>2. Tail(projectQueue) \in Seq(Caller \X ProjectOp)
  BY <1>1, SequenceEnds
<1>3. EmptyLog \in LogOf(Command)
  BY DEF EmptyLog, LogOf
<1>4. log' \in LogOf(Command)
  BY <1>3 DEF HandleProject, NewProject, LoadProject, SaveNothing, BeginSave, FinishSave,
         SaveFails, TruncateLog, diskVars, QueuesTyped
<1>5. projectQueue' \in {projectQueue, Tail(projectQueue)} /\ phase' \in Phase
      /\ (phase' \in {"saving", "saved"} => projectQueue' = projectQueue)
  BY DEF HandleProject, NewProject, LoadProject, SaveNothing, BeginSave, FinishSave,
         SaveFails, TruncateLog, HandlingProject, AnswerProject, Phase
<1>6. UNCHANGED <<callbacks, unsent, replay>>
  BY DEF HandleProject, NewProject, LoadProject, SaveNothing, BeginSave, FinishSave,
         SaveFails, TruncateLog
<1> QED BY <1>1, <1>2, <1>4, <1>5, <1>6 DEF QueuesTyped

LEMMA CallKeepsQueues ==
  ASSUME QueuesTyped, NEW t \in Caller, Call(t) \/ SendNext(t)
  PROVE  QueuesTyped'
<1>1. /\ projectQueue \in Seq(Caller \X ProjectOp) /\ callbacks \in Seq(Callback)
      /\ unsent \in [Caller -> Seq(Command)]
      /\ log.lines \in Seq(Command) /\ <<>> \in Seq(Command)
  BY DEF QueuesTyped, LogOf
<1>2. ASSUME NEW op, CallProject(t, op), op \in UserOp \cap ProjectOp
      PROVE  /\ projectQueue' \in Seq(Caller \X ProjectOp) /\ projectQueue' # <<>>
             /\ callbacks' \in Seq(Callback) /\ unsent' \in [Caller -> Seq(Command)]
  <2>1. <<t, op>> \in Caller \X ProjectOp
    BY <1>2
  <2>2. Append(projectQueue, <<t, op>>) \in Seq(Caller \X ProjectOp)
        /\ Append(projectQueue, <<t, op>>) # <<>>
    BY <1>1, <2>1, SequenceGrows
  <2> QED BY <1>1, <1>2, <2>2 DEF CallProject
<1>3. ASSUME NEW op, NEW cmd, CallCommand(t, op, cmd),
             [caller |-> t, op |-> op, cmd |-> cmd] \in Callback
      PROVE  /\ projectQueue' = projectQueue
             /\ callbacks' \in Seq(Callback) /\ unsent' \in [Caller -> Seq(Command)]
  BY <1>1, <1>3 DEF CallCommand
<1>4. ASSUME CallApplyWal(t)
      PROVE  /\ projectQueue' = projectQueue
             /\ callbacks' \in Seq(Callback) /\ unsent' \in [Caller -> Seq(Command)]
  BY <1>1, <1>4 DEF CallApplyWal
<1>5. ASSUME SendNext(t)
      PROVE  /\ projectQueue' = projectQueue
             /\ callbacks' \in Seq(Callback) /\ unsent' \in [Caller -> Seq(Command)]
  <2>1. unsent[t] \in Seq(Command) /\ unsent[t] # <<>>
    BY <1>1, <1>5 DEF SendNext
  <2>2. Head(unsent[t]) \in Command /\ Tail(unsent[t]) \in Seq(Command)
    BY <2>1, SequenceEnds
  <2>3. [caller |-> t, op |-> "apply", cmd |-> Head(unsent[t])] \in Callback
    BY <2>2 DEF Callback
  <2> QED BY <1>1, <1>5, <2>2, <2>3 DEF SendNext
<1>6. UNCHANGED <<phase, log, replay>>
  BY DEF Call, SendNext, diskVars
<1>7. CASE Call(t)
  <2>1. CASE \E op \in UserOp \cap ProjectOp : CallProject(t, op)
    BY <1>2, <1>6, <2>1 DEF QueuesTyped
  <2>2. CASE \E op \in UserOp \cap {"undo", "redo"} : CallCommand(t, op, [type |-> "none"])
    <3>1. PICK op \in {"undo", "redo"} : CallCommand(t, op, [type |-> "none"])
      BY <2>2
    <3>2. [caller |-> t, op |-> op, cmd |-> [type |-> "none"]] \in Callback
      BY DEF Callback
    <3> QED BY <1>3, <1>6, <3>1, <3>2 DEF QueuesTyped
  <2>3. CASE \E cmd \in UserCommand : CallCommand(t, "run", cmd)
    <3>1. PICK cmd \in Command : CallCommand(t, "run", cmd)
      BY <2>3, UserCommandAssumption
    <3>2. [caller |-> t, op |-> "run", cmd |-> cmd] \in Callback
      BY DEF Callback
    <3> QED BY <1>3, <1>6, <3>1, <3>2 DEF QueuesTyped
  <2>4. CASE CallApplyWal(t)
    BY <1>4, <1>6, <2>4 DEF QueuesTyped
  <2> QED BY <1>7, <2>1, <2>2, <2>3, <2>4 DEF Call
<1>8. CASE SendNext(t)
  BY <1>5, <1>6, <1>8 DEF QueuesTyped
<1> QED BY <1>7, <1>8

LEMMA StepKeepsQueues ==
  ASSUME QueuesTyped, [Next]_vars
  PROVE  QueuesTyped'
<1>0. EmptyLog \in LogOf(Command) /\ <<>> \in Seq(Command)
  BY DEF EmptyLog, LogOf
<1>1. CASE \E t \in Caller : Call(t) \/ SendNext(t)
  BY <1>1, CallKeepsQueues
<1>2. CASE HandleCallback
  BY <1>2, HandleCallbackKeepsQueues
<1>3. CASE HandleProject
  BY <1>3, HandleProjectKeepsQueues
<1>4. CASE EndProject \/ EndFrame \/ EndReplay
  BY <1>4 DEF EndProject, EndFrame, EndReplay, diskVars, QueuesTyped, Phase
<1>5. CASE StartNew
  BY <1>0, <1>5 DEF StartNew, QueuesTyped, Phase
<1>6. CASE StartWithFile
  BY <1>0, <1>6 DEF StartWithFile, diskVars, QueuesTyped, Phase, LogOf
<1>7. CASE ReplayNext
  BY <1>7, SequenceEnds DEF ReplayNext, loopVars, diskVars, QueuesTyped
<1>8. CASE ReplayFails
  BY <1>0, <1>8 DEF ReplayFails, loopVars, diskVars, QueuesTyped
<1>9. CASE Crash \/ CrashInAppend
  <2>1. /\ phase' = "down" /\ projectQueue' = <<>> /\ callbacks' = <<>>
        /\ unsent' = [t \in Caller |-> <<>>] /\ replay' = <<>>
    BY <1>9 DEF Crash, CrashInAppend, Die
  <2>2. log' \in LogOf(Command)
    <3>1. CASE Crash
      BY <3>1 DEF Crash, QueuesTyped
    <3>2. CASE CrashInAppend
      <4>1. Head(callbacks).cmd \in Command
        BY <3>2, HandledCommand DEF CrashInAppend
      <4>2. log' \in CutShort(log, Head(callbacks).cmd)
        BY <3>2 DEF CrashInAppend
      <4> QED BY <4>1, <4>2, LoggedTyped DEF QueuesTyped
    <3> QED BY <1>9, <3>1, <3>2
  <2> QED BY <1>0, <2>1, <2>2 DEF QueuesTyped, Phase
<1>10. CASE UNCHANGED vars
  BY <1>10 DEF vars, loopVars, diskVars, QueuesTyped
<1> QED BY <1>1, <1>2, <1>3, <1>4, <1>5, <1>6, <1>7, <1>8, <1>9, <1>10
        DEF Next, MainLoop, Startup

(* The flags stay flags and the counters numbers.                          *)
LEMMA StepKeepsFlags ==
  ASSUME FlagsTyped, [Next]_vars
  PROVE  FlagsTyped'
<1>1. CASE \E t \in Caller : Call(t) \/ SendNext(t)
  BY <1>1 DEF Call, SendNext, sessionVars, ghosts, FlagsTyped
<1>2. CASE HandleCallback
  BY <1>2 DEF HandleCallback, Run, ApplyLogged, Refuse, Execute, ExecuteFails, UndoNothing,
              UndoWithoutState, Undo, RedoNothing, Redo, RedoFails, ghosts, FlagsTyped
<1>3. CASE HandleProject
  <2>1. CASE NewProject \/ LoadProject
    BY <2>1 DEF NewProject, LoadProject, FlagsTyped
  <2>2. CASE SaveNothing \/ BeginSave \/ SaveFails
    BY <2>2 DEF SaveNothing, BeginSave, SaveFails, sessionVars, ghosts, FlagsTyped
  <2>3. CASE FinishSave \/ TruncateLog
    <3>1. logExplains' \in BOOLEAN
      <4>1. PICK l, d : \/ logExplains' = (log = l /\ Tight(d))
                        \/ logExplains' = Tight(d)
        BY <2>3, Zenon DEF FinishSave, TruncateLog
      <4>2. Tight(d) \in BOOLEAN
        BY DEF Tight
      <4> QED BY <4>1, <4>2, Zenon
    <3> QED BY <2>3, <3>1 DEF FinishSave, TruncateLog, sessionVars, FlagsTyped
  <2> QED BY <1>3, <2>1, <2>2, <2>3 DEF HandleProject
<1>4. CASE EndProject \/ EndFrame
  BY <1>4 DEF EndProject, EndFrame, sessionVars, ghosts, FlagsTyped
<1>5. CASE Startup
  BY <1>5 DEF Startup, StartNew, StartWithFile, ReplayNext, ReplayFails, EndReplay, Execute,
              sessionVars, ghosts, FlagsTyped
<1>6. CASE Crash \/ CrashInAppend
  <2>1. logExplains' \in BOOLEAN
    BY <1>6 DEF Crash, CrashInAppend, FlagsTyped
  <2>2. projectOpen' \in BOOLEAN /\ orderly' \in BOOLEAN
    BY <1>6, Zenon DEF Crash, CrashInAppend, Die
  <2>3. requests' = requests /\ crashes' = crashes + 1
    BY <1>6 DEF Crash, CrashInAppend, Die
  <2>4. requests' \in Nat /\ crashes' \in Nat
    BY <2>3 DEF FlagsTyped
  <2> QED BY <2>1, <2>2, <2>4, Zenon DEF FlagsTyped
<1>7. CASE UNCHANGED vars
  BY <1>7 DEF vars, sessionVars, ghosts, FlagsTyped
<1> QED BY <1>1, <1>2, <1>3, <1>4, <1>5, <1>6, <1>7 DEF Next, MainLoop

(* What is saved loads as a document.                                      *)
LEMMA LoadedIsDocument ==
  ASSUME NEW d, IsDocument(d)
  PROVE  IsDocument(Loaded(Content(d)))
<1> DEFINE c == IF DOMAIN d.sequences = {} THEN 1 ELSE 1 + Max(DOMAIN d.sequences)
<1>1. IsMap(d.sequences, Id, Names) /\ IsMap(d.nodes, Path, Id)
  BY DocumentParts
<1>2. c \in Id
  <2>1. DOMAIN d.sequences \subseteq Nat /\ IsFiniteSet(DOMAIN d.sequences)
    BY <1>1 DEF IsMap, Id
  <2>2. DOMAIN d.sequences # {} => Max(DOMAIN d.sequences) \in Nat
    BY <2>1, MaxIsGreatest
  <2> QED BY <2>2 DEF Id
<1>3. Loaded(Content(d)) = [sequences |-> d.sequences, nodes |-> d.nodes, counter |-> c]
  BY DEF Loaded, Content
<1> HIDE DEF c
<1> QED BY <1>1, <1>2, <1>3, RebuiltDocument

LEMMA EmptyIsDocument == IsDocument(EmptyDocument)
<1>1. IsMap(<<>>, Id, Names) /\ IsMap(<<>>, Path, Id)
  <2>1. DOMAIN <<>> = {} /\ IsFiniteSet({})
    BY FS_EmptySet
  <2> QED BY <2>1 DEF IsMap
<1>2. 1 \in Id
  BY DEF Id
<1> QED BY <1>1, <1>2, RebuiltDocument DEF EmptyDocument

(* A command leaves a document, and undoing one leaves a document.         *)
LEMMA AppliedIsDocument ==
  ASSUME NEW cmd \in Command, NEW d, IsDocument(d)
  PROVE  /\ IsDocument(Apply(cmd, d).doc)
         /\ Apply(cmd, d).ok => Safe(cmd, Apply(cmd, d).state)
  BY ApplyPromises DEF Promises

(* The entry that undo and redo work on.                                   *)
LEMMA CurrentFits ==
  ASSUME NEW h, NEW s, NEW n, Linked(h, s, n), EntriesFit(h, s), HasCurrent(h)
  PROVE  /\ h.cursor + 1 \in DOMAIN h.commands /\ Current(h).cmd \in Command
         /\ Current(h).key \in DOMAIN s => Safe(Current(h).cmd, s[Current(h).key])
<1>1. h.commands \in Seq(Range(h.commands)) /\ h.cursor \in Int
  BY DEF Linked, IsHistory
<1>2. h.cursor + 1 \in DOMAIN h.commands
  BY <1>1 DEF HasCurrent
<1> QED BY <1>2 DEF EntriesFit, Current

LEMMA StepKeepsDocuments ==
  ASSUME TypeInv, [Next]_vars
  PROVE  DocumentsTyped'
<1>0. IsDocument(EmptyDocument) /\ IsDocument(Loaded(Content(EmptyDocument)))
  BY EmptyIsDocument, LoadedIsDocument
<1>1. CASE \E t \in Caller : Call(t) \/ SendNext(t)
  BY <1>1 DEF Call, SendNext, sessionVars, diskVars, ghosts, TypeInv, DocumentsTyped
<1>2. CASE HandleCallback
  <2>1. UNCHANGED <<file, lost>>
    BY <1>2 DEF HandleCallback, Run, ApplyLogged, Refuse, UndoNothing, UndoWithoutState,
                Undo, RedoNothing, Redo, RedoFails, diskVars, ghosts
  <2>2. IsDocument(document')
    <3>1. CASE Run \/ ApplyLogged \/ Refuse
      <4>1. Head(callbacks).cmd \in Command
        BY <3>1, HandledCommand DEF Run, ApplyLogged, Refuse, TypeInv
      <4>2. document' = Apply(Head(callbacks).cmd, document).doc
        BY <3>1 DEF Run, ApplyLogged, Refuse, Execute, ExecuteFails
      <4> QED BY <4>1, <4>2, AppliedIsDocument DEF TypeInv, DocumentsTyped
    <3>2. CASE Undo
      BY <3>2, CurrentFits DEF Undo, Reverted, Safe, IInv, TypeInv, DocumentsTyped
    <3>3. CASE Redo \/ RedoFails
      <4>1. Current(Forward(history)).cmd \in Command
        <5>1. Linked(Forward(history), states, nextKey) /\ HasCurrent(Forward(history))
          BY <3>3, ForwardLinked DEF Redo, RedoFails, IInv, TypeInv
        <5>2. Forward(history).commands = history.commands
          BY ForwardShape DEF Linked, IInv, TypeInv
        <5>3. EntriesFit(Forward(history), states)
          BY <5>2 DEF EntriesFit, TypeInv
        <5> QED BY <5>1, <5>3, CurrentFits
      <4>2. document' = Apply(Current(Forward(history)).cmd, document).doc
        BY <3>3 DEF Redo, RedoFails
      <4> QED BY <4>1, <4>2, AppliedIsDocument DEF TypeInv, DocumentsTyped
    <3>4. CASE UndoNothing \/ UndoWithoutState \/ RedoNothing
      BY <3>4 DEF UndoNothing, UndoWithoutState, RedoNothing, TypeInv, DocumentsTyped
    <3> QED BY <1>2, <3>1, <3>2, <3>3, <3>4 DEF HandleCallback
  <2> QED BY <2>1, <2>2 DEF TypeInv, DocumentsTyped
<1>3. CASE HandleProject
  <2>1. lost' = lost
    BY <1>3 DEF HandleProject, NewProject, LoadProject, SaveNothing, BeginSave, FinishSave,
                SaveFails, TruncateLog, ghosts
  <2>2. IsDocument(document')
    BY <1>0, <1>3 DEF HandleProject, NewProject, LoadProject, SaveNothing, BeginSave,
         FinishSave, SaveFails, TruncateLog, sessionVars, TypeInv, DocumentsTyped
  <2>3. file' \in {file, BrokenFile, Saved(document)}
    BY <1>3 DEF HandleProject, NewProject, LoadProject, SaveNothing, BeginSave, FinishSave,
                SaveFails, TruncateLog, diskVars
  <2>4. file'.is \in {"none", "broken", "saved"} /\ IsDocument(Loaded(file'.content))
    BY <1>0, <2>3, LoadedIsDocument DEF BrokenFile, Saved, TypeInv, DocumentsTyped
  <2> QED BY <2>1, <2>2, <2>4 DEF TypeInv, DocumentsTyped
<1>4. CASE EndProject \/ EndFrame \/ EndReplay \/ StartNew
  BY <1>4 DEF EndProject, EndFrame, EndReplay, StartNew, sessionVars, diskVars, ghosts,
              TypeInv, DocumentsTyped
<1>5. CASE StartWithFile
  BY <1>0, <1>5 DEF StartWithFile, diskVars, TypeInv, DocumentsTyped
<1>6. CASE ReplayNext \/ ReplayFails
  <2>1. Head(replay) \in Command
    BY <1>6, SequenceEnds DEF ReplayNext, ReplayFails, QueuesTyped, TypeInv
  <2>2. /\ document' = Apply(Head(replay), document).doc
        /\ UNCHANGED <<file, lost>>
    BY <1>6 DEF ReplayNext, ReplayFails, Execute, diskVars, ghosts
  <2> QED BY <2>1, <2>2, AppliedIsDocument DEF TypeInv, DocumentsTyped
<1>7. CASE Crash
  BY <1>0, <1>7 DEF Crash, Die, TypeInv, DocumentsTyped
<1>8. CASE CrashInAppend
  <2>1. Head(callbacks).cmd \in Command
    BY <1>8, HandledCommand DEF CrashInAppend, TypeInv
  <2>2. lost' \in {document, Apply(Head(callbacks).cmd, document).doc}
        /\ document' = EmptyDocument /\ file' = file
    BY <1>8 DEF CrashInAppend, Die
  <2> QED BY <1>0, <2>1, <2>2, AppliedIsDocument DEF TypeInv, DocumentsTyped
<1>9. CASE UNCHANGED vars
  BY <1>9 DEF vars, sessionVars, diskVars, ghosts, TypeInv, DocumentsTyped
<1> QED BY <1>1, <1>2, <1>3, <1>4, <1>5, <1>6, <1>7, <1>8, <1>9
        DEF Next, MainLoop, Startup

(* What a push leaves of the history: the entries up to m, none of which   *)
(* has the key of the new one, and all those that have a state.            *)
LEMMA PushedEntries ==
  ASSUME NEW h, NEW s, NEW n, Linked(h, s, n), NEW e, e.key = n
  PROVE  \E m \in Nat :
           /\ DOMAIN Push(h, e).commands = 1 .. m + 1
           /\ Push(h, e).commands[m + 1] = e
           /\ \A i \in 1 .. m : /\ Push(h, e).commands[i] = h.commands[i]
                               /\ i \in DOMAIN h.commands /\ h.commands[i].key # n
           /\ \A i \in DOMAIN h.commands : h.commands[i].key \in DOMAIN s => i \in 1 .. m
<1> DEFINE p == Push(h, e)
           m == Kept(h)
           S == Range(h.commands) \cup {e}
<1>1. n \in Nat /\ IsHistory(h, S) /\ e \in S
  BY MoreEntries DEF Linked
<1> HIDE DEF S
<1>2. p.commands = Append(Done(h), e)
  BY <1>1, PushShape
<1>3. /\ m \in 0 .. Len(h.commands)
      /\ Done(h) \in Seq(S) /\ Len(Done(h)) = m
      /\ \A i \in 1 .. m : Done(h)[i] = h.commands[i]
      /\ Len(h.commands) \in Nat /\ DOMAIN h.commands = 1 .. Len(h.commands)
  BY <1>1, TruncateAtCursor DEF IsHistory
<1>4. m = IF Index(h) <= Len(h.commands) THEN Index(h) ELSE Len(h.commands)
  BY <1>1, <1>3 DEF Kept, IsHistory, Index
<1> HIDE DEF p, m
<1>5. /\ DOMAIN p.commands = 1 .. m + 1
      /\ p.commands[m + 1] = e
      /\ \A i \in 1 .. m : p.commands[i] = h.commands[i] /\ i \in DOMAIN h.commands
  BY <1>1, <1>2, <1>3
<1>6. ASSUME NEW i \in 1 .. m PROVE h.commands[i].key # n
  <2>1. IsEntry(h.commands[i], n)
    BY <1>5 DEF Linked
  <2> QED BY <1>1, <2>1 DEF IsEntry
<1>7. ASSUME NEW i \in DOMAIN h.commands, h.commands[i].key \in DOMAIN s
      PROVE  i \in 1 .. m
  <2>1. i <= Index(h)
    BY <1>7 DEF Linked
  <2> QED BY <1>3, <1>4, <2>1
<1>8. m \in Nat
  BY <1>3
<1> QED BY <1>5, <1>6, <1>7, <1>8 DEF p

(* A command that is run or redone leaves a state that fits its entry, and *)
(* the entries and states that stay are as they were.                      *)
LEMMA ExecuteFits ==
  ASSUME NEW h, NEW s, NEW n, Linked(h, s, n), EntriesFit(h, s),
         NEW c \in Command, NEW b, NEW x, Safe(c, x)
  PROVE  EntriesFit(Push(h, [cmd |-> c, key |-> n, before |-> b]), With(s, n, x))
<1> DEFINE e == [cmd |-> c, key |-> n, before |-> b]
           p == Push(h, e)
<1>3. e.cmd = c /\ e.key = n
  OBVIOUS
<1> HIDE DEF p, e
<1>4. PICK m \in Nat :
         /\ DOMAIN p.commands = 1 .. m + 1
         /\ p.commands[m + 1] = e
         /\ \A i \in 1 .. m : p.commands[i] = h.commands[i] /\ i \in DOMAIN h.commands
                             /\ h.commands[i].key # n
  BY <1>3, PushedEntries DEF p
<1>5. DOMAIN With(s, n, x) = DOMAIN s \cup {n} /\ With(s, n, x)[n] = x
      /\ \A k \in DOMAIN s : k # n => With(s, n, x)[k] = s[k]
  BY DEF With
<1>6. ASSUME NEW i \in 1 .. m
      PROVE  /\ p.commands[i].cmd \in Command /\ p.commands[i].key # n
             /\ p.commands[i].key \in DOMAIN s => Safe(p.commands[i].cmd, s[p.commands[i].key])
  BY <1>4 DEF EntriesFit
<1>7. ASSUME NEW i \in 1 .. m + 1
      PROVE  /\ p.commands[i].cmd \in Command
             /\ p.commands[i].key \in DOMAIN With(s, n, x) =>
                  Safe(p.commands[i].cmd, With(s, n, x)[p.commands[i].key])
  <2>1. CASE i = m + 1
    BY <1>3, <1>4, <1>5, <2>1
  <2>2. CASE i \in 1 .. m
    BY <1>5, <1>6, <2>2
  <2> QED BY <1>4, <2>1, <2>2
<1>8. EntriesFit(p, With(s, n, x))
  BY <1>4, <1>7 DEF EntriesFit
<1> QED BY <1>8 DEF p, e

LEMMA RedoFits ==
  ASSUME NEW h, NEW s, NEW n, Linked(h, s, n), EntriesFit(h, s), HasCurrent(h),
         NEW x, Safe(Current(h).cmd, x), NEW v
  PROVE  EntriesFit([h EXCEPT !.commands[h.cursor + 1].before = v],
                    With(s, Current(h).key, x))
<1> DEFINE c == h.cursor + 1
           r == [h EXCEPT !.commands[h.cursor + 1].before = v]
           k == Current(h).key
<1>1. /\ h \in [commands : Seq(Range(h.commands)), cursor : Int]
      /\ c \in DOMAIN h.commands
  BY CurrentFits DEF Linked, IsHistory
<1>2. h.commands[c] = [cmd |-> h.commands[c].cmd, key |-> h.commands[c].key,
                       before |-> h.commands[c].before]
  BY <1>1 DEF Linked, IsEntry
<1>3. /\ DOMAIN r.commands = DOMAIN h.commands
      /\ \A i \in DOMAIN h.commands : i # c => r.commands[i] = h.commands[i]
      /\ r.commands[c] = [h.commands[c] EXCEPT !.before = v]
  BY <1>1
<1>4. \A i \in DOMAIN h.commands : /\ r.commands[i].cmd = h.commands[i].cmd
                                   /\ r.commands[i].key = h.commands[i].key
  BY <1>2, <1>3
<1> HIDE DEF r
<1>5. k = h.commands[c].key /\ Current(h).cmd = h.commands[c].cmd
  BY DEF Current
<1>6. \A i \in DOMAIN h.commands : h.commands[i].key = k => i = c
  BY <1>1, <1>5 DEF Linked
<1> HIDE DEF k, c
<1>7. DOMAIN With(s, k, x) = DOMAIN s \cup {k} /\ With(s, k, x)[k] = x
      /\ \A j \in DOMAIN s : j # k => With(s, k, x)[j] = s[j]
  BY DEF With
<1>8. EntriesFit(r, With(s, k, x))
  BY <1>3, <1>4, <1>5, <1>6, <1>7 DEF EntriesFit
<1> QED BY <1>8 DEF r, k

LEMMA FewerStatesFit ==
  ASSUME NEW h, NEW s, EntriesFit(h, s), NEW k, NEW g, g.commands = h.commands
  PROVE  EntriesFit(g, Without(s, k)) /\ EntriesFit(g, s)
<1>1. DOMAIN Without(s, k) \subseteq DOMAIN s
      /\ \A j \in DOMAIN Without(s, k) : Without(s, k)[j] = s[j]
  BY DEF Without, Restrict
<1> QED BY <1>1 DEF EntriesFit

LEMMA StepKeepsFit ==
  ASSUME TypeInv, [Next]_vars
  PROVE  EntriesFit(history, states)'
<1>0. Linked(history, states, nextKey) /\ EntriesFit(history, states)
  BY DEF TypeInv, IInv
<1>1. ASSUME NEW c \in Command, Apply(c, document).ok, Execute(c, Apply(c, document))
      PROVE  EntriesFit(history, states)'
  BY <1>0, <1>1, AppliedIsDocument, ExecuteFits DEF Execute, TypeInv, DocumentsTyped
<1>2. CASE Run \/ ApplyLogged
  <2>1. Head(callbacks).cmd \in Command
    BY <1>2, HandledCommand DEF Run, ApplyLogged, TypeInv
  <2> QED BY <1>1, <1>2, <2>1 DEF Run, ApplyLogged
<1>3. CASE UndoNothing \/ UndoWithoutState \/ Undo
  <2>1. Back(history).commands = history.commands
    BY <1>0, BackShape DEF Linked
  <2> QED BY <1>0, <1>3, <2>1, FewerStatesFit DEF UndoNothing, UndoWithoutState, Undo
<1>4. CASE Redo
  <2> DEFINE h == Forward(history)
             c == Current(h)
  <2>1. h.commands = history.commands
    BY <1>0, ForwardShape DEF Linked
  <2>2. Linked(h, states, nextKey) /\ EntriesFit(h, states) /\ HasCurrent(h)
    BY <1>0, <1>4, <2>1, ForwardLinked, FewerStatesFit DEF Redo
  <2>3. c.cmd \in Command
    BY <2>2, CurrentFits
  <2>4. Safe(c.cmd, Apply(c.cmd, document).state)
    BY <1>4, <2>3, AppliedIsDocument DEF Redo, TypeInv, DocumentsTyped
  <2>5. PICK v : /\ history' = [h EXCEPT !.commands[h.cursor + 1].before = v]
                 /\ states' = With(states, c.key, Apply(c.cmd, document).state)
    BY <1>4 DEF Redo
  <2> HIDE DEF h
  <2> QED BY <2>2, <2>4, <2>5, RedoFits
<1>5. CASE RedoNothing \/ RedoFails
  <2>1. Forward(history).commands = history.commands
    BY <1>0, ForwardShape DEF Linked
  <2> QED BY <1>0, <1>5, <2>1, FewerStatesFit DEF RedoNothing, RedoFails
<1>6. CASE Refuse
  BY <1>0, <1>6 DEF Refuse, ExecuteFails
<1>7. CASE ReplayNext
  <2>1. Head(replay) \in Command
    BY <1>7, SequenceEnds DEF ReplayNext, QueuesTyped, TypeInv
  <2> QED BY <1>1, <1>7, <2>1 DEF ReplayNext
<1>8. CASE Crash \/ CrashInAppend
  BY <1>8 DEF Crash, CrashInAppend, Die, EntriesFit, EmptyHistory
<1>9. CASE \/ \E t \in Caller : Call(t) \/ SendNext(t)
           \/ HandleProject \/ EndProject \/ EndFrame
           \/ StartNew \/ StartWithFile \/ ReplayFails \/ EndReplay \/ UNCHANGED vars
  <2>1. UNCHANGED <<history, states>>
    BY <1>9 DEF Call, SendNext, HandleProject, NewProject, LoadProject, SaveNothing,
                BeginSave, FinishSave, SaveFails, TruncateLog, EndProject, EndFrame, StartNew,
                StartWithFile, ReplayFails, EndReplay, vars, sessionVars
  <2> QED BY <1>0, <2>1
<1> QED BY <1>2, <1>3, <1>4, <1>5, <1>6, <1>7, <1>8, <1>9
        DEF Next, MainLoop, Startup, HandleCallback

LEMMA StepKeepsTypes == TypeInv /\ [Next]_vars => TypeInv'
  BY StepKeeps, StepKeepsQueues, StepKeepsFlags, StepKeepsDocuments, StepKeepsFit DEF TypeInv

LEMMA InitTyped == Init => TypeInv
<1> SUFFICES ASSUME Init PROVE TypeInv
  OBVIOUS
<1>1. IInv
  BY EmptyLinked DEF Init, IInv
<1>2. QueuesTyped
  BY DEF Init, QueuesTyped, Phase, LogOf, EmptyLog
<1>3. FlagsTyped
  BY DEF Init, FlagsTyped
<1>4. EntriesFit(history, states)
  BY DEF Init, EntriesFit, EmptyHistory
<1>5. DocumentsTyped
  BY EmptyIsDocument, LoadedIsDocument DEF Init, DocumentsTyped, NoFile
<1> QED BY <1>1, <1>2, <1>3, <1>4, <1>5 DEF TypeInv

THEOREM AlwaysTyped == Spec => []TypeInv
  BY InitTyped, StepKeepsTypes, PTL DEF Spec

(* Every variable of the commander keeps its type, for all callers,        *)
(* commands and operations, whatever fails and whenever the process dies:  *)
(* the document stays one whose nodes and names are keyed by finitely many *)
(* numbers, what is saved loads as one, and every state kept for undo      *)
(* belongs to a key that was handed out.                                   *)
THEOREM CommanderTypes == Spec => []TypeOK
<1>1. TypeInv => TypeOK
  <2> SUFFICES ASSUME TypeInv PROVE TypeOK
    OBVIOUS
  <2>1. ASSUME NEW i \in DOMAIN callbacks
        PROVE  /\ callbacks[i].caller \in Caller
               /\ callbacks[i].op \in {"run", "apply", "undo", "redo"}
               /\ callbacks[i].op \in {"run", "apply"} => callbacks[i].cmd \in Command
    <3>1. callbacks[i] \in Callback
      BY DEF TypeInv, QueuesTyped
    <3> QED BY <3>1 DEF Callback
  <2>2. DOMAIN states \subseteq 0 .. nextKey - 1 /\ nextKey \in Nat
    <3>1. \A i \in DOMAIN history.commands : history.commands[i].key \in 0 .. nextKey - 1
      BY DEF TypeInv, IInv, Linked, IsEntry
    <3>2. \A k \in DOMAIN states : \E i \in DOMAIN history.commands : history.commands[i].key = k
      BY DEF TypeInv, IInv, Linked
    <3> QED BY <3>1, <3>2 DEF TypeInv, IInv, Linked
  <2>3. /\ \A i \in DOMAIN history.commands :
            /\ history.commands[i].cmd \in Command
            /\ history.commands[i].key \in 0 .. nextKey - 1
        /\ history.cursor \in None .. Len(history.commands) + 1
    BY DEF TypeInv, IInv, Linked, IsEntry, IsHistory, EntriesFit
  <2>4. log.lines \in Seq(Command) /\ log.tail \in {"clean", "open", "torn"}
    BY DEF TypeInv, QueuesTyped, LogOf
  <2> QED BY <2>1, <2>2, <2>3, <2>4
          DEF TypeInv, QueuesTyped, FlagsTyped, DocumentsTyped, TypeOK
<1> QED BY <1>1, AlwaysTyped, PTL
-----------------------------------------------------------------------------
(* Recovery.  Applying cmds one after the other, none of which fails,      *)
(* leads from the document d to the document e.                            *)
Leads(d, cmds, e) ==
  \E s : /\ s[0] = d /\ s[Len(cmds)] = e
         /\ \A i \in 1 .. Len(cmds) :
              /\ Apply(cmds[i], s[i - 1]).ok
              /\ s[i] = Apply(cmds[i], s[i - 1]).doc

LEMMA LeadsNowhere ==
  ASSUME NEW d
  PROVE  Leads(d, <<>>, d) /\ \A e : Leads(d, <<>>, e) => d = e
<1>1. Leads(d, <<>>, d)
  <2> DEFINE s == [i \in {0} |-> d]
  <2>1. s[0] = d /\ s[Len(<<>>)] = d /\ 1 .. Len(<<>>) = {}
    OBVIOUS
  <2> HIDE DEF s
  <2> QED BY <2>1 DEF Leads
<1>2. ASSUME NEW e, Leads(d, <<>>, e) PROVE d = e
  <2>1. Len(<<>>) = 0
    OBVIOUS
  <2> QED BY <1>2, <2>1 DEF Leads
<1> QED BY <1>1, <1>2

(* One more command after the last ...                                     *)
LEMMA LeadsFurther ==
  ASSUME NEW S, NEW cmds \in Seq(S), NEW c \in S, NEW d, NEW e, Leads(d, cmds, e),
         Apply(c, e).ok
  PROVE  Leads(d, Append(cmds, c), Apply(c, e).doc)
<1>1. PICK s : /\ s[0] = d /\ s[Len(cmds)] = e
               /\ \A i \in 1 .. Len(cmds) :
                    /\ Apply(cmds[i], s[i - 1]).ok
                    /\ s[i] = Apply(cmds[i], s[i - 1]).doc
  BY DEF Leads
<1> DEFINE n == Len(cmds)
           m == Append(cmds, c)
           f == Apply(c, e).doc
           t == [i \in 0 .. n + 1 |-> IF i = n + 1 THEN f ELSE s[i]]
<1>2. /\ n \in Nat /\ Len(m) = n + 1 /\ m[n + 1] = c
      /\ \A i \in 1 .. n : m[i] = cmds[i]
  OBVIOUS
<1>3. t[n + 1] = f /\ \A i \in 0 .. n : t[i] = s[i]
  BY <1>2
<1> HIDE DEF m, f, t
<1>4. ASSUME NEW i \in 1 .. n + 1
      PROVE  Apply(m[i], t[i - 1]).ok /\ t[i] = Apply(m[i], t[i - 1]).doc
  <2>1. CASE i = n + 1
    BY <1>1, <1>2, <1>3, <2>1 DEF f
  <2>2. CASE i \in 1 .. n
    <3>1. i - 1 \in 0 .. n /\ i \in 0 .. n
      BY <1>2, <2>2
    <3>2. t[i - 1] = s[i - 1] /\ t[i] = s[i] /\ m[i] = cmds[i]
      BY <1>2, <1>3, <2>2, <3>1
    <3> QED BY <1>1, <2>2, <3>2
  <2> QED BY <1>2, <2>1, <2>2
<1>5. t[0] = d
  BY <1>1, <1>2, <1>3
<1>6. Leads(d, m, f)
  BY <1>2, <1>3, <1>4, <1>5 DEF Leads
<1> QED BY <1>6 DEF m, f

(* ... and one command less before the first.                              *)
LEMMA LeadsOn ==
  ASSUME NEW S, NEW cmds \in Seq(S), cmds # <<>>, NEW d, NEW e, Leads(d, cmds, e)
  PROVE  Apply(Head(cmds), d).ok /\ Leads(Apply(Head(cmds), d).doc, Tail(cmds), e)
<1>1. PICK s : /\ s[0] = d /\ s[Len(cmds)] = e
               /\ \A i \in 1 .. Len(cmds) :
                    /\ Apply(cmds[i], s[i - 1]).ok
                    /\ s[i] = Apply(cmds[i], s[i - 1]).doc
  BY DEF Leads
<1> DEFINE n == Len(cmds)
           m == Tail(cmds)
           t == [i \in 0 .. n - 1 |-> s[i + 1]]
<1>2. /\ n \in Nat /\ n > 0 /\ Len(m) = n - 1 /\ Head(cmds) = cmds[1]
      /\ \A i \in 1 .. n - 1 : m[i] = cmds[i + 1]
  OBVIOUS
<1>3. \A i \in 0 .. n - 1 : t[i] = s[i + 1]
  OBVIOUS
<1> HIDE DEF m, t, n
<1>4. Apply(cmds[1], d).ok /\ s[1] = Apply(cmds[1], d).doc
  BY <1>1, <1>2 DEF n
<1>5. ASSUME NEW i \in 1 .. n - 1
      PROVE  Apply(m[i], t[i - 1]).ok /\ t[i] = Apply(m[i], t[i - 1]).doc
  <2>1. i + 1 \in 1 .. n /\ (i + 1) - 1 = i /\ i \in 0 .. n - 1 /\ i - 1 \in 0 .. n - 1
        /\ (i - 1) + 1 = i
    BY <1>2
  <2>2. t[i - 1] = s[i] /\ t[i] = s[i + 1] /\ m[i] = cmds[i + 1]
    BY <1>2, <1>3, <2>1
  <2>3. Apply(cmds[i + 1], s[i]).ok /\ s[i + 1] = Apply(cmds[i + 1], s[i]).doc
    BY <1>1, <2>1 DEF n
  <2> QED BY <2>2, <2>3
<1>6. t[0] = s[1] /\ t[n - 1] = e
  BY <1>1, <1>2, <1>3 DEF n
<1>7. Leads(s[1], m, e)
  BY <1>2, <1>5, <1>6 DEF Leads
<1> QED BY <1>2, <1>4, <1>7 DEF m

(* A document whose counter loading would not reset loads as it was saved. *)
LEMMA TightLoads ==
  ASSUME NEW d, IsDocument(d), Tight(d)
  PROVE  Loaded(Content(d)) = d
<1>1. d = [sequences |-> d.sequences, nodes |-> d.nodes, counter |-> d.counter]
  BY DocumentParts
<1>2. Loaded(Content(d)) = [sequences |-> d.sequences, nodes |-> d.nodes,
                            counter |-> Loaded(Content(d)).counter]
  BY DEF Loaded, Content
<1> QED BY <1>1, <1>2 DEF Tight

(* The document the log should lead to: the one that was lost, until it is *)
(* recovered.                                                              *)
Target == IF phase \in {"down", "replay"} THEN lost ELSE document

(* The inductive invariant behind RecoveryRestores: while the log explains *)
(* the document, its lines lead from what is saved to the target, and what *)
(* is left to replay leads there from where the replay is.                 *)
Explained ==
  /\ file.is = "saved" /\ Readable(log)
  /\ Leads(Loaded(file.content), log.lines, Target)
  /\ phase = "replay" => Leads(document, replay, lost)

RecoveryInv == TypeInv /\ LogInv /\ (logExplains => Explained)

(* Nothing the log speaks of changes.                                      *)
LEMMA ExplainedStays ==
  ASSUME Explained, UNCHANGED <<file, log, document, lost>>,
         phase \notin {"down", "replay"}, phase' \notin {"down", "replay"}
  PROVE  Explained'
  BY DEF Explained, Target

LEMMA StepKeepsExplained ==
  ASSUME RecoveryInv, [Next]_vars, logExplains'
  PROVE  Explained'
<1>0. /\ log.lines \in Seq(Command) /\ replay \in Seq(Command)
      /\ IsDocument(document) /\ LogInv
  BY DEF RecoveryInv, TypeInv, QueuesTyped, LogOf, DocumentsTyped
<1>1. CASE \E t \in Caller : Call(t) \/ SendNext(t)
  BY <1>1 DEF Call, SendNext, sessionVars, diskVars, ghosts, RecoveryInv, Explained, Target
<1>2. CASE HandleCallback
  <2>1. phase = "commands" /\ phase' = "commands" /\ lost' = lost /\ file' = file
    BY <1>2 DEF HandleCallback, Run, ApplyLogged, Refuse, UndoNothing, UndoWithoutState, Undo,
                RedoNothing, Redo, RedoFails, Handling, Answer, diskVars, ghosts
  <2>2. CASE Run
    <3> DEFINE c == Head(callbacks).cmd
               r == Apply(c, document)
    <3>1. /\ r.ok /\ document' = r.doc
          /\ log' = Appended(log, c) /\ logExplains /\ log.tail = "clean"
      BY <2>2 DEF Run, Execute
    <3>2. c \in Command
      BY <2>2, HandledCommand DEF Run, RecoveryInv, TypeInv
    <3>3. log'.lines = Append(log.lines, c) /\ log'.tail = "clean"
      BY <3>1 DEF Appended, LogInv, IsLog, RecoveryInv
    <3>4. Leads(Loaded(file.content), log.lines, document) /\ file.is = "saved"
      BY <2>1, <3>1 DEF RecoveryInv, Explained, Target
    <3> HIDE DEF c
    <3>5. Leads(Loaded(file.content), log'.lines, document')
      BY <1>0, <3>1, <3>2, <3>3, <3>4, LeadsFurther
    <3> QED BY <2>1, <3>3, <3>4, <3>5 DEF Explained, Target, Readable
  <2>3. CASE ~Run
    <3>1. logExplains /\ UNCHANGED <<log, document>>
      BY <1>2, <2>3 DEF HandleCallback, ApplyLogged, Refuse, ExecuteFails, UndoNothing,
           UndoWithoutState, Undo, RedoNothing, Redo, RedoFails, diskVars, ghosts
    <3> QED BY <2>1, <3>1, ExplainedStays DEF RecoveryInv
  <2> QED BY <2>2, <2>3
<1>3. CASE NewProject \/ BeginSave \/ StartNew \/ ReplayFails
  <2>1. ReplayFails
    BY <1>3 DEF NewProject, BeginSave, StartNew
  <2>2. logExplains /\ phase = "replay" /\ replay # <<>> /\ ~Apply(Head(replay), document).ok
    BY <2>1 DEF ReplayFails
  <2> QED BY <1>0, <2>2, LeadsOn DEF RecoveryInv, Explained
<1>4. CASE LoadProject
  <2>1. /\ file.is = "saved" /\ document' = Loaded(file.content) /\ log = EmptyLog
        /\ UNCHANGED <<file, log, phase>> /\ phase = "project"
    BY <1>4 DEF LoadProject, HandlingProject, diskVars
  <2> QED BY <2>1, LeadsNowhere DEF Explained, Target, EmptyLog, Readable
<1>5. CASE SaveNothing \/ SaveFails \/ EndProject \/ EndFrame
  <2>1. /\ UNCHANGED <<file, log, document, lost>> /\ logExplains
        /\ phase \notin {"down", "replay"} /\ phase' \notin {"down", "replay"}
    BY <1>5 DEF SaveNothing, SaveFails, EndProject, EndFrame, HandlingProject, sessionVars,
                diskVars, ghosts
  <2> QED BY <2>1, ExplainedStays DEF RecoveryInv
<1>6. CASE FinishSave \/ TruncateLog
  <2>1. /\ file' = Saved(document) /\ log' = EmptyLog /\ Tight(document)
        /\ document' = document /\ phase' \in {"saved", "project"}
    BY <1>0, <1>6 DEF FinishSave, TruncateLog, sessionVars, LogInv
  <2>2. Loaded(file'.content) = document /\ file'.is = "saved"
    BY <1>0, <2>1, TightLoads DEF Saved
  <2> QED BY <2>1, <2>2, LeadsNowhere DEF Explained, Target, EmptyLog, Readable
<1>7. CASE StartWithFile
  <2>1. CASE AutoApply
    <3>1. /\ logExplains /\ phase = "down" /\ phase' = "replay"
          /\ UNCHANGED <<file, log, lost>>
      BY <1>7, <2>1 DEF StartWithFile, diskVars
    <3>2. Explained
      BY <3>1 DEF RecoveryInv
    <3>3. document' = Loaded(file.content) /\ replay' = log.lines
      BY <1>7, <2>1, <3>2 DEF StartWithFile, Explained
    <3> QED BY <3>1, <3>2, <3>3 DEF Explained, Target
  <2>2. CASE ~AutoApply
    <3>1. /\ phase' = "project" /\ log = EmptyLog /\ file.is = "saved"
          /\ UNCHANGED <<file, log>> /\ document' = Loaded(file.content)
      BY <1>7, <2>2 DEF StartWithFile, diskVars
    <3> QED BY <3>1, LeadsNowhere DEF Explained, Target, EmptyLog, Readable
  <2> QED BY <2>1, <2>2
<1>8. CASE ReplayNext
  <2>1. /\ logExplains /\ phase = "replay" /\ replay # <<>> /\ replay' = Tail(replay)
        /\ document' = Apply(Head(replay), document).doc
        /\ UNCHANGED <<phase, file, log, lost>>
    BY <1>8 DEF ReplayNext, Execute, loopVars, diskVars, ghosts
  <2>2. Explained
    BY <2>1 DEF RecoveryInv
  <2>3. Leads(document', replay', lost)
    BY <1>0, <2>1, <2>2, LeadsOn DEF Explained
  <2> QED BY <2>1, <2>2, <2>3 DEF Explained, Target
<1>9. CASE EndReplay
  <2>1. /\ logExplains /\ phase = "replay" /\ replay = <<>> /\ phase' = "project"
        /\ UNCHANGED <<file, log, document, lost>>
    BY <1>9 DEF EndReplay, sessionVars, diskVars, ghosts
  <2>2. Explained /\ document = lost
    BY <2>1, LeadsNowhere DEF RecoveryInv, Explained
  <2> QED BY <2>1, <2>2 DEF Explained, Target
<1>10. CASE Crash
  <2>1. /\ logExplains /\ phase' = "down" /\ lost' = Target
        /\ UNCHANGED <<file, log>>
    BY <1>10 DEF Crash, Die, Target
  <2> QED BY <2>1 DEF RecoveryInv, Explained, Target
<1>11. CASE CrashInAppend
  <2> DEFINE c == Head(callbacks).cmd
             r == Apply(c, document)
  <2>1. /\ r.ok /\ log' \in CutShort(log, c) /\ log'.tail = "open" /\ lost' = r.doc
        /\ logExplains /\ phase = "commands" /\ phase' = "down" /\ file' = file
    BY <1>11 DEF CrashInAppend, Die, Handling
  <2>2. c \in Command
    BY <1>11, HandledCommand DEF CrashInAppend, RecoveryInv, TypeInv
  <2>3. log'.lines = Append(log.lines, c)
    <3>1. ASSUME log' = [log EXCEPT !.tail = "torn"] PROVE FALSE
      <4>1. log'.tail = "torn"
        BY <1>0, <3>1 DEF LogInv, IsLog
      <4> QED BY <2>1, <4>1
    <3> HIDE DEF c
    <3>2. \/ log' = [log EXCEPT !.tail = "torn"]
          \/ log' = [lines |-> Append(log.lines, c), tail |-> "open"]
      BY <2>1, Zenon DEF CutShort
    <3>3. log' = [lines |-> Append(log.lines, c), tail |-> "open"]
      BY <3>1, <3>2
    <3> QED BY <3>3
  <2>4. Leads(Loaded(file.content), log.lines, document) /\ file.is = "saved"
    BY <2>1 DEF RecoveryInv, Explained, Target
  <2> HIDE DEF c
  <2>5. Leads(Loaded(file.content), log'.lines, lost')
    BY <1>0, <2>1, <2>2, <2>3, <2>4, LeadsFurther
  <2> QED BY <2>1, <2>4, <2>5 DEF Explained, Target, Readable
<1>12. CASE UNCHANGED vars
  BY <1>12 DEF vars, loopVars, sessionVars, diskVars, ghosts, RecoveryInv, Explained, Target
<1> QED BY <1>1, <1>2, <1>3, <1>4, <1>5, <1>6, <1>7, <1>8, <1>9, <1>10, <1>11, <1>12
        DEF Next, MainLoop, Startup, HandleProject

(* A log that explains the lost document brings it back: for any commands, *)
(* failing and not, saves and loads in between, lines cut short, and       *)
(* crashes at any step, those during the replay itself included.           *)
THEOREM RecoveryAlwaysRestores == Spec => []RecoveryRestores
<1>1. Init => RecoveryInv
  <2>1. Init => LogInv
    BY EmptyLogIsLog DEF Init, LogInv
  <2>2. Init => ~logExplains
    BY DEF Init
  <2> QED BY <2>1, <2>2, InitTyped DEF RecoveryInv
<1>2. RecoveryInv /\ [Next]_vars => RecoveryInv'
  <2> SUFFICES ASSUME RecoveryInv, [Next]_vars PROVE RecoveryInv'
    OBVIOUS
  <2>1. LogInv'
    BY StepKeepsLog DEF RecoveryInv
  <2> QED BY <2>1, StepKeepsTypes, StepKeepsExplained DEF RecoveryInv
<1>3. RecoveryInv => RecoveryRestores
  <2> SUFFICES ASSUME RecoveryInv, phase = "replay", replay = <<>>, logExplains
               PROVE  Content(document) = Content(lost)
    BY DEF RecoveryRestores
  <2>1. Leads(document, <<>>, lost)
    BY DEF RecoveryInv, Explained
  <2>2. document = lost
    BY <2>1, LeadsNowhere
  <2> QED BY <2>2
<1> QED BY <1>1, <1>2, <1>3, PTL DEF Spec
-----------------------------------------------------------------------------
(* Undo.  The entries that have a state form a chain: undoing the last of  *)
(* them with its state leads from the content of the document to the       *)
(* content the entry found, and undoing one before it leads from what the  *)
(* next one found to what it found itself.                                 *)
Stated(h, s) == {i \in DOMAIN h.commands : h.commands[i].key \in DOMAIN s}

UndoesEntry(h, s, i, after) ==
  Undoes(h.commands[i].cmd, h.commands[i].before, after, s[h.commands[i].key])

(* Ids are never given out twice, also not after undo: those in the        *)
(* content lie below the counter.                                          *)
Below(content, n) ==
  \A id \in DOMAIN content.sequences : id \in Nat /\ id < n

Chained(h, s, d) ==
  /\ Below(Content(d), d.counter)
  /\ \A i \in Stated(h, s) : Below(h.commands[i].before, d.counter)
  /\ \A i \in Stated(h, s) :
       (\A j \in Stated(h, s) : j <= i) => UndoesEntry(h, s, i, Content(d))
  /\ \A i, j \in Stated(h, s) :
       i < j /\ (\A k \in Stated(h, s) : k <= i \/ j <= k) =>
         UndoesEntry(h, s, i, h.commands[j].before)

LEMMA FreshIsBelow ==
  ASSUME NEW d, IsDocument(d)
  PROVE  Fresh(d) <=> Below(Content(d), d.counter)
<1>1. DOMAIN d.sequences \subseteq Nat
  BY DEF IsDocument, IsMap, Id
<1>2. Content(d).sequences = d.sequences
  BY DEF Content
<1> QED BY <1>1, <1>2 DEF Fresh, Below

(* The entries i of h with their states are those of g with theirs.        *)
SameEntries(h, s, g, t, I) ==
  \A i \in I : /\ g.commands[i].cmd = h.commands[i].cmd
              /\ g.commands[i].before = h.commands[i].before
              /\ t[g.commands[i].key] = s[h.commands[i].key]

(* One more link at the end: a command is run or redone.                   *)
LEMMA ChainGrows ==
  ASSUME NEW h, NEW s, NEW d, IsDocument(d), Chained(h, s, d), Stated(h, s) \subseteq Int,
         NEW g, NEW t, NEW e, IsDocument(e), NEW c \in Int,
         Stated(g, t) = Stated(h, s) \cup {c}, \A i \in Stated(h, s) : i < c,
         SameEntries(h, s, g, t, Stated(h, s)), g.commands[c].before = Content(d),
         UndoesEntry(g, t, c, Content(e)), Fresh(e), e.counter >= d.counter
  PROVE  Chained(g, t, e)
<1> DEFINE I == Stated(h, s)
           J == Stated(g, t)
<1>1. /\ J = I \cup {c} /\ I \subseteq Int /\ \A i \in I : i < c
  OBVIOUS
<1>2. d.counter \in Nat /\ e.counter \in Nat
  BY DEF IsDocument, Id
<1>3. Below(Content(e), e.counter)
  BY FreshIsBelow
<1>4. ASSUME NEW x, Below(x, d.counter) PROVE Below(x, e.counter)
  BY <1>2, <1>4 DEF Below
<1>5. ASSUME NEW i \in J PROVE Below(g.commands[i].before, e.counter)
  <2>1. CASE i = c
    BY <1>4, <2>1 DEF Chained
  <2>2. CASE i \in I
    BY <1>4, <2>2 DEF Chained, SameEntries
  <2> QED BY <1>1, <2>1, <2>2
<1>6. \A i \in I : \A after : UndoesEntry(h, s, i, after) => UndoesEntry(g, t, i, after)
  BY DEF UndoesEntry, SameEntries
<1> HIDE DEF I, J
<1>7. ASSUME NEW i \in J, \A j \in J : j <= i
      PROVE  UndoesEntry(g, t, i, Content(e))
  <2>1. i = c
    BY <1>1, <1>7
  <2> QED BY <2>1
<1>8. ASSUME NEW i \in J, NEW j \in J, i < j, \A k \in J : k <= i \/ j <= k
      PROVE  UndoesEntry(g, t, i, g.commands[j].before)
  <2>1. CASE j = c
    <3>1. i \in I /\ \A k \in I : k <= i
      BY <1>1, <1>8, <2>1
    <3>2. UndoesEntry(h, s, i, Content(d))
      BY <3>1 DEF Chained, I
    <3> QED BY <1>6, <2>1, <3>1, <3>2
  <2>2. CASE j \in I
    <3>1. i \in I /\ \A k \in I : k <= i \/ j <= k
      BY <1>1, <1>8, <2>2
    <3>2. UndoesEntry(h, s, i, h.commands[j].before)
      BY <1>8, <2>2, <3>1 DEF Chained, I
    <3>3. g.commands[j].before = h.commands[j].before
      BY <2>2 DEF SameEntries, I
    <3> QED BY <1>6, <3>1, <3>2, <3>3
  <2> QED BY <1>1, <2>1, <2>2
<1> QED BY <1>3, <1>5, <1>7, <1>8 DEF Chained, J

(* The last link goes: its command is undone.                              *)
LEMMA ChainShrinks ==
  ASSUME NEW h, NEW s, NEW d, IsDocument(d), Chained(h, s, d), Stated(h, s) \subseteq Int,
         NEW g, NEW t, NEW e, NEW c \in Stated(h, s), \A i \in Stated(h, s) : i <= c,
         Stated(g, t) = Stated(h, s) \ {c}, SameEntries(h, s, g, t, Stated(g, t)),
         Content(e) = h.commands[c].before, e.counter = d.counter
  PROVE  Chained(g, t, e)
<1> DEFINE I == Stated(h, s)
           J == Stated(g, t)
<1>1. J = I \ {c} /\ I \subseteq Int /\ c \in I /\ \A i \in I : i <= c
  OBVIOUS
<1>2. Below(Content(e), e.counter)
  BY DEF Chained
<1>3. \A i \in J : Below(g.commands[i].before, e.counter)
  BY <1>1 DEF Chained, SameEntries
<1>4. \A i \in J : \A after : UndoesEntry(h, s, i, after) => UndoesEntry(g, t, i, after)
  BY DEF UndoesEntry, SameEntries
<1> HIDE DEF I, J
<1>5. ASSUME NEW i \in J, \A j \in J : j <= i
      PROVE  UndoesEntry(g, t, i, Content(e))
  <2>1. i \in I /\ i < c /\ \A k \in I : k <= i \/ c <= k
    BY <1>1, <1>5
  <2>2. UndoesEntry(h, s, i, h.commands[c].before)
    BY <1>1, <2>1 DEF Chained, I
  <2> QED BY <1>4, <2>2
<1>6. ASSUME NEW i \in J, NEW j \in J, i < j, \A k \in J : k <= i \/ j <= k
      PROVE  UndoesEntry(g, t, i, g.commands[j].before)
  <2>1. i \in I /\ j \in I /\ \A k \in I : k <= i \/ j <= k
    BY <1>1, <1>6
  <2>2. UndoesEntry(h, s, i, h.commands[j].before)
    BY <1>6, <2>1 DEF Chained, I
  <2>3. g.commands[j].before = h.commands[j].before
    BY DEF SameEntries, J
  <2> QED BY <1>4, <2>2, <2>3
<1> QED BY <1>2, <1>3, <1>5, <1>6 DEF Chained, J

(* The cursor has no part in it, and without states there is no chain.     *)
LEMMA ChainStays ==
  ASSUME NEW h, NEW s, NEW d, Chained(h, s, d), NEW g, g.commands = h.commands
  PROVE  Chained(g, s, d)
  BY DEF Chained, Stated, UndoesEntry

LEMMA NoChain ==
  ASSUME NEW h, NEW s, NEW d, IsDocument(d), Fresh(d), Stated(h, s) = {}
  PROVE  Chained(h, s, d)
  BY FreshIsBelow DEF Chained

(* The entries with a state are at or below the cursor.                    *)
LEMMA StatedAreDone ==
  ASSUME NEW h, NEW s, NEW n, Linked(h, s, n)
  PROVE  /\ Stated(h, s) \subseteq Int
         /\ \A i \in Stated(h, s) : i <= Index(h)
         /\ Index(h) \in Int
<1>1. DOMAIN h.commands \subseteq Int /\ Index(h) \in Int
  BY DEF Linked, IsHistory, Index
<1> QED BY <1>1 DEF Stated, Linked
-----------------------------------------------------------------------------
(* Running a command adds a link ...                                       *)
LEMMA ExecuteChains ==
  ASSUME NEW h, NEW s, NEW n, Linked(h, s, n), NEW d, IsDocument(d), Chained(h, s, d),
         NEW c \in Command, Apply(c, d).ok
  PROVE  Chained(Push(h, [cmd |-> c, key |-> n, before |-> Content(d)]),
                 With(s, n, Apply(c, d).state), Apply(c, d).doc)
<1> DEFINE e == [cmd |-> c, key |-> n, before |-> Content(d)]
           g == Push(h, e)
           x == Apply(c, d).state
           t == With(s, n, x)
           f == Apply(c, d).doc
<1>1. Fresh(d)
  BY FreshIsBelow DEF Chained
<1>2. /\ IsDocument(f) /\ Fresh(f) /\ f.counter >= d.counter
      /\ Undoes(c, Content(d), Content(f), x)
  BY <1>1, ApplyPromises DEF Promises
<1>3. e.cmd = c /\ e.key = n /\ e.before = Content(d)
  OBVIOUS
<1> HIDE DEF e, g, x, f
<1>4. PICK m \in Nat :
         /\ DOMAIN g.commands = 1 .. m + 1
         /\ g.commands[m + 1] = e
         /\ \A i \in 1 .. m : g.commands[i] = h.commands[i] /\ i \in DOMAIN h.commands
                             /\ h.commands[i].key # n
         /\ \A i \in DOMAIN h.commands : h.commands[i].key \in DOMAIN s => i \in 1 .. m
  BY <1>3, PushedEntries DEF g
<1>5. DOMAIN t = DOMAIN s \cup {n} /\ t[n] = x
      /\ \A k \in DOMAIN s : k # n => t[k] = s[k]
  BY DEF With
<1> HIDE DEF t
<1>6. Stated(h, s) \subseteq 1 .. m
  BY <1>4 DEF Stated
<1>7. Stated(g, t) = Stated(h, s) \cup {m + 1}
  <2>1. m + 1 \in Stated(g, t)
    BY <1>3, <1>4, <1>5 DEF Stated
  <2>2. \A i \in 1 .. m : i \in Stated(g, t) <=> i \in Stated(h, s)
    BY <1>4, <1>5 DEF Stated
  <2>3. Stated(g, t) \subseteq 1 .. m + 1
    BY <1>4 DEF Stated
  <2>4. 1 .. m + 1 = 1 .. m \cup {m + 1}
    OBVIOUS
  <2> QED BY <1>6, <2>1, <2>2, <2>3, <2>4
<1>8. SameEntries(h, s, g, t, Stated(h, s))
  BY <1>4, <1>5, <1>6 DEF SameEntries, Stated
<1>9. UndoesEntry(g, t, m + 1, Content(f))
  BY <1>2, <1>3, <1>4, <1>5 DEF UndoesEntry
<1>10. m + 1 \in Int /\ (\A i \in Stated(h, s) : i < m + 1) /\ Stated(h, s) \subseteq Int
  BY <1>6
<1>11. Chained(g, t, f)
  BY <1>2, <1>3, <1>4, <1>7, <1>8, <1>9, <1>10, ChainGrows
<1> QED BY <1>11 DEF g, t, f, e, x

(* ... so does redoing one, whose entry now finds the content anew ...     *)
LEMMA RedoChains ==
  ASSUME NEW h, NEW s, NEW n, Linked(h, s, n), NEW d, IsDocument(d), Chained(h, s, d),
         HasCurrent(h), \A i \in Stated(h, s) : i < h.cursor + 1,
         Current(h).cmd \in Command, Apply(Current(h).cmd, d).ok
  PROVE  Chained([h EXCEPT !.commands[h.cursor + 1].before = Content(d)],
                 With(s, Current(h).key, Apply(Current(h).cmd, d).state),
                 Apply(Current(h).cmd, d).doc)
<1> DEFINE c == h.cursor + 1
           g == [h EXCEPT !.commands[h.cursor + 1].before = Content(d)]
           cmd == Current(h).cmd
           k == Current(h).key
           x == Apply(cmd, d).state
           t == With(s, k, x)
           f == Apply(cmd, d).doc
<1>1. /\ h \in [commands : Seq(Range(h.commands)), cursor : Int]
      /\ c \in DOMAIN h.commands /\ c \in Int
  BY DEF Linked, IsHistory, HasCurrent
<1>2. h.commands[c] = [cmd |-> h.commands[c].cmd, key |-> h.commands[c].key,
                       before |-> h.commands[c].before]
  BY <1>1 DEF Linked, IsEntry
<1>3. /\ DOMAIN g.commands = DOMAIN h.commands
      /\ \A i \in DOMAIN h.commands : i # c => g.commands[i] = h.commands[i]
      /\ g.commands[c] = [h.commands[c] EXCEPT !.before = Content(d)]
  BY <1>1
<1>4. g.commands[c].cmd = cmd /\ g.commands[c].key = k /\ g.commands[c].before = Content(d)
  BY <1>2, <1>3 DEF Current
<1>5. k = h.commands[c].key /\ cmd = h.commands[c].cmd
  BY DEF Current
<1>6. Fresh(d)
  BY FreshIsBelow DEF Chained
<1>7. /\ IsDocument(f) /\ Fresh(f) /\ f.counter >= d.counter
      /\ Undoes(cmd, Content(d), Content(f), x)
  BY <1>6, ApplyPromises DEF Promises
<1>8. \A i \in DOMAIN h.commands : h.commands[i].key = k => i = c
  BY <1>1, <1>5 DEF Linked
<1>9. \A i \in Stated(h, s) : i < c
  OBVIOUS
<1> HIDE DEF g, c, cmd, k, x, f
<1>10. DOMAIN t = DOMAIN s \cup {k} /\ t[k] = x
      /\ \A j \in DOMAIN s : j # k => t[j] = s[j]
  BY DEF With
<1> HIDE DEF t
<1>11. Stated(g, t) = Stated(h, s) \cup {c}
  <2>1. c \in Stated(g, t)
    BY <1>1, <1>3, <1>4, <1>10 DEF Stated
  <2>2. \A i \in DOMAIN h.commands : i # c => (i \in Stated(g, t) <=> i \in Stated(h, s))
    BY <1>3, <1>8, <1>10 DEF Stated
  <2>3. Stated(g, t) \subseteq DOMAIN h.commands /\ Stated(h, s) \subseteq DOMAIN h.commands
    BY <1>3 DEF Stated
  <2> QED BY <2>1, <2>2, <2>3
<1>12. SameEntries(h, s, g, t, Stated(h, s))
  <2>1. ASSUME NEW i \in Stated(h, s)
        PROVE  /\ i \in DOMAIN h.commands /\ g.commands[i] = h.commands[i]
               /\ t[h.commands[i].key] = s[h.commands[i].key]
    BY <1>1, <1>3, <1>8, <1>9, <1>10 DEF Stated
  <2> QED BY <2>1 DEF SameEntries
<1>13. UndoesEntry(g, t, c, Content(f))
  BY <1>4, <1>7, <1>10 DEF UndoesEntry
<1>14. Stated(h, s) \subseteq Int
  BY StatedAreDone
<1>15. Chained(g, t, f)
  BY <1>1, <1>4, <1>7, <1>9, <1>11, <1>12, <1>13, <1>14, ChainGrows
<1> QED BY <1>15 DEF g, k, t, f, x, cmd

(* ... and undo takes the last one away, back to what its entry had found. *)
LEMMA UndoChains ==
  ASSUME NEW h, NEW s, NEW n, Linked(h, s, n), NEW d, IsDocument(d), Chained(h, s, d),
         HasCurrent(h), Current(h).key \in DOMAIN s
  PROVE  LET r == Revert(Current(h).cmd, d, s[Current(h).key])
         IN  /\ r.ok /\ Content(r.doc) = Current(h).before
             /\ Chained(Back(h), Without(s, Current(h).key), r.doc)
<1> DEFINE c == h.cursor + 1
           k == Current(h).key
           r == Revert(Current(h).cmd, d, s[k])
           g == Back(h)
           t == Without(s, k)
<1>1. c \in DOMAIN h.commands /\ Index(h) = c
  BY DEF Linked, IsHistory, HasCurrent, Index
<1>2. c \in Stated(h, s) /\ (\A i \in Stated(h, s) : i <= c) /\ Stated(h, s) \subseteq Int
  BY <1>1, StatedAreDone DEF Stated, Current
<1>3. UndoesEntry(h, s, c, Content(d))
  BY <1>2 DEF Chained
<1>4. r.ok /\ Content(r.doc) = Current(h).before /\ r.doc.counter = d.counter
  BY <1>3 DEF UndoesEntry, Undoes, Current
<1>5. k = h.commands[c].key /\ Current(h).before = h.commands[c].before
  BY DEF Current
<1>6. g.commands = h.commands
  BY BackShape DEF Linked
<1>7. \A i \in DOMAIN h.commands : h.commands[i].key = k => i = c
  BY <1>1, <1>5 DEF Linked
<1>8. DOMAIN t = DOMAIN s \ {k} /\ \A j \in DOMAIN t : t[j] = s[j]
  BY DEF Without, Restrict
<1> HIDE DEF c, k, r, g, t
<1>9. Stated(g, t) = Stated(h, s) \ {c}
  BY <1>5, <1>6, <1>7, <1>8 DEF Stated
<1>10. SameEntries(h, s, g, t, Stated(g, t))
  BY <1>6, <1>8 DEF SameEntries, Stated
<1>11. Chained(g, t, r.doc)
  BY <1>2, <1>4, <1>5, <1>9, <1>10, ChainShrinks
<1> QED BY <1>4, <1>11 DEF r, g, t, k
-----------------------------------------------------------------------------
(* The inductive invariant behind UndoRestores: unless something changed   *)
(* the document behind the history's back, its entries form a chain.  A    *)
(* process that is down remembers nothing.                                 *)
UndoInv ==
  /\ TypeInv
  /\ phase = "down" => history = EmptyHistory /\ states = <<>>
  /\ orderly => Chained(history, states, document)

(* What is loaded gives out ids above those in use.                        *)
LEMMA LoadedIsFresh ==
  ASSUME NEW content, IsDocument(Loaded(content))
  PROVE  Fresh(Loaded(content))
<1> DEFINE ids == DOMAIN content.sequences
<1>1. Loaded(content).sequences = content.sequences
      /\ Loaded(content).counter = IF ids = {} THEN 1 ELSE 1 + Max(ids)
  BY DEF Loaded
<1>2. ids \subseteq Nat /\ IsFiniteSet(ids)
  BY <1>1 DEF IsDocument, IsMap, Id
<1>3. CASE ids = {}
  BY <1>1, <1>3 DEF Fresh
<1>4. CASE ids # {}
  <2>1. Max(ids) \in Nat /\ \A y \in ids : y \in Nat /\ y <= Max(ids)
    BY <1>2, <1>4, MaxIsGreatest
  <2> HIDE DEF ids
  <2>2. \A y \in ids : y < 1 + Max(ids)
    BY <2>1
  <2> QED BY <1>1, <1>4, <2>2 DEF Fresh, ids
<1> QED BY <1>3, <1>4

LEMMA EmptyIsFresh == Fresh(EmptyDocument)
  BY DEF Fresh, EmptyDocument

(* A new document under a history without entries.                         *)
LEMMA NewDocumentChains ==
  ASSUME NEW h, h.commands = <<>>, NEW s, NEW c, IsDocument(Loaded(c)),
         NEW d \in {EmptyDocument, Loaded(c)}
  PROVE  Chained(h, s, d)
<1>1. Stated(h, s) = {}
  BY DEF Stated
<1>2. IsDocument(d) /\ Fresh(d)
  BY EmptyIsDocument, EmptyIsFresh, LoadedIsFresh
<1> QED BY <1>1, <1>2, NoChain

LEMMA HandleCallbackKeepsChain ==
  ASSUME UndoInv, HandleCallback, orderly'
  PROVE  Chained(history, states, document)'
<1>1. /\ Linked(history, states, nextKey) /\ IsDocument(document)
      /\ EntriesFit(history, states)
  BY DEF UndoInv, TypeInv, IInv, DocumentsTyped
<1>2. orderly /\ Chained(history, states, document)
  BY DEF HandleCallback, Run, ApplyLogged, Refuse, ExecuteFails, UndoNothing,
         UndoWithoutState, Undo, RedoNothing, Redo, RedoFails, ghosts, UndoInv
<1>3. CASE Run \/ ApplyLogged
  <2>1. Head(callbacks).cmd \in Command
    BY <1>3, HandledCommand DEF Run, ApplyLogged, UndoInv, TypeInv
  <2>2. Apply(Head(callbacks).cmd, document).ok
        /\ Execute(Head(callbacks).cmd, Apply(Head(callbacks).cmd, document))
    BY <1>3 DEF Run, ApplyLogged
  <2> QED BY <1>1, <1>2, <2>1, <2>2, ExecuteChains DEF Execute
<1>4. CASE Refuse
  BY <1>2, <1>4 DEF Refuse, ExecuteFails
<1>5. CASE UndoNothing \/ UndoWithoutState
  <2>1. Back(history).commands = history.commands
    BY <1>1, BackShape DEF Linked
  <2> QED BY <1>2, <1>5, <2>1, ChainStays DEF UndoNothing, UndoWithoutState
<1>6. CASE Undo
  BY <1>1, <1>2, <1>6, UndoChains DEF Undo, Reverted
<1>7. CASE RedoNothing \/ RedoFails
  <2>1. Forward(history).commands = history.commands
    BY <1>1, ForwardShape DEF Linked
  <2>2. document' = document
    BY <1>7 DEF RedoNothing, RedoFails
  <2> QED BY <1>2, <1>7, <2>1, <2>2, ChainStays DEF RedoNothing, RedoFails
<1>8. CASE Redo
  <2> DEFINE h == Forward(history)
  <2>1. h.commands = history.commands
    BY <1>1, ForwardShape DEF Linked
  <2>2. /\ Linked(h, states, nextKey) /\ EntriesFit(h, states) /\ HasCurrent(h)
        /\ Chained(h, states, document)
    BY <1>1, <1>2, <1>8, <2>1, ForwardLinked, FewerStatesFit, ChainStays DEF Redo
  <2>3. h.cursor = history.cursor + 1 /\ history.cursor \in Int
    <3>1. /\ history.cursor \in Int /\ Len(history.commands) \in Nat
          /\ h.cursor = IF history.cursor > Len(history.commands)
                        THEN history.cursor ELSE history.cursor + 1
      BY <1>1, ForwardShape DEF Linked, IsHistory
    <3> HIDE DEF h
    <3> QED BY <2>1, <2>2, <3>1 DEF HasCurrent
  <2> HIDE DEF h
  <2>4. \A i \in Stated(h, states) : i < h.cursor + 1
    <3>1. Stated(h, states) = Stated(history, states)
      BY <2>1 DEF Stated
    <3>2. Stated(history, states) \subseteq Int
          /\ \A i \in Stated(history, states) : i <= history.cursor + 1
      BY <1>1, StatedAreDone DEF Index
    <3> QED BY <2>3, <3>1, <3>2
  <2>5. Current(h).cmd \in Command
    BY <2>2, CurrentFits
  <2>6. /\ Apply(Current(h).cmd, document).ok
        /\ history' = [h EXCEPT !.commands[h.cursor + 1].before = Content(document)]
        /\ states' = With(states, Current(h).key, Apply(Current(h).cmd, document).state)
        /\ document' = Apply(Current(h).cmd, document).doc
    BY <1>8 DEF Redo, h
  <2> QED BY <1>1, <2>2, <2>4, <2>5, <2>6, RedoChains
<1> QED BY <1>3, <1>4, <1>5, <1>6, <1>7, <1>8 DEF HandleCallback

LEMMA StepKeepsChain ==
  ASSUME UndoInv, [Next]_vars, orderly'
  PROVE  Chained(history, states, document)'
<1>1. /\ Linked(history, states, nextKey) /\ IsDocument(document)
      /\ IsDocument(Loaded(file.content))
  BY DEF UndoInv, TypeInv, IInv, DocumentsTyped
<1>2. CASE HandleCallback
  BY <1>2, HandleCallbackKeepsChain
<1>3. CASE NewProject \/ LoadProject
  BY <1>1, <1>3, NewDocumentChains DEF NewProject, LoadProject
<1>4. CASE \/ \E t \in Caller : Call(t) \/ SendNext(t)
           \/ SaveNothing \/ BeginSave \/ FinishSave \/ SaveFails \/ TruncateLog
           \/ EndProject \/ EndFrame \/ StartNew \/ ReplayFails \/ EndReplay \/ UNCHANGED vars
  <2>1. orderly /\ UNCHANGED <<history, states, document>>
    BY <1>4 DEF Call, SendNext, SaveNothing, BeginSave, FinishSave, SaveFails, TruncateLog,
                EndProject, EndFrame, StartNew, ReplayFails, EndReplay, vars, sessionVars, ghosts
  <2> QED BY <2>1 DEF UndoInv
<1>5. CASE StartWithFile
  <2>1. history'.commands = <<>> /\ document' \in {EmptyDocument, Loaded(file.content)}
    BY <1>5 DEF StartWithFile, UndoInv, EmptyHistory
  <2> QED BY <1>1, <2>1, NewDocumentChains
<1>6. CASE ReplayNext
  <2>1. Head(replay) \in Command
    BY <1>6, SequenceEnds DEF ReplayNext, QueuesTyped, UndoInv, TypeInv
  <2>2. /\ Apply(Head(replay), document).ok
        /\ Execute(Head(replay), Apply(Head(replay), document))
        /\ Chained(history, states, document)
    BY <1>6 DEF ReplayNext, ghosts, UndoInv
  <2> QED BY <1>1, <2>1, <2>2, ExecuteChains DEF Execute
<1>7. CASE Crash \/ CrashInAppend
  <2>1. history'.commands = <<>> /\ document' = EmptyDocument
    BY <1>7 DEF Crash, CrashInAppend, Die, EmptyHistory
  <2> QED BY <1>1, <2>1, NewDocumentChains
<1> QED BY <1>2, <1>3, <1>4, <1>5, <1>6, <1>7
        DEF Next, MainLoop, Startup, HandleProject

LEMMA DownIsEmpty ==
  ASSUME UndoInv, [Next]_vars, phase' = "down"
  PROVE  history' = EmptyHistory /\ states' = <<>>
<1>1. CASE Crash \/ CrashInAppend
  BY <1>1 DEF Crash, CrashInAppend, Die
<1>2. CASE ~(Crash \/ CrashInAppend)
  <2>1. phase = "down" /\ UNCHANGED <<history, states>>
    BY <1>2 DEF Next, MainLoop, Startup, HandleProject, HandleCallback, Run, ApplyLogged, Refuse,
           UndoNothing, UndoWithoutState, Undo, RedoNothing, Redo, RedoFails, Handling, Answer,
           Call, SendNext, NewProject, LoadProject, SaveNothing, BeginSave, FinishSave,
           SaveFails, TruncateLog, HandlingProject, EndProject, EndFrame, StartNew,
           StartWithFile, ReplayNext, ReplayFails, EndReplay, vars, loopVars, sessionVars
  <2> QED BY <2>1 DEF UndoInv
<1> QED BY <1>1, <1>2

(* Undo succeeds and brings back exactly what the command had found, for   *)
(* any commands, callers and operations, however often commands were       *)
(* undone, redone, refused and dropped from the history in between.        *)
THEOREM UndoAlwaysRestores == Spec => UndoRestores
<1>1. Init => UndoInv
  <2> SUFFICES ASSUME Init PROVE UndoInv
    OBVIOUS
  <2>1. IsDocument(Loaded(Content(EmptyDocument)))
    BY EmptyIsDocument, LoadedIsDocument
  <2>2. history.commands = <<>> /\ document = EmptyDocument
    BY DEF Init, EmptyHistory
  <2>3. Chained(history, states, document)
    BY <2>1, <2>2, NewDocumentChains
  <2> QED BY <2>3, InitTyped DEF Init, UndoInv
<1>2. UndoInv /\ [Next]_vars => UndoInv'
  BY StepKeepsTypes, StepKeepsChain, DownIsEmpty DEF UndoInv
<1>3. UndoInv /\ [Next]_vars =>
        [Undo /\ orderly =>
           Reverted.ok /\ Content(document') = Current(history).before]_vars
  BY UndoChains DEF Undo, Reverted, UndoInv, TypeInv, IInv, DocumentsTyped
<1> QED BY <1>1, <1>2, <1>3, PTL DEF Spec, UndoRestores
=============================================================================
