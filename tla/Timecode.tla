------------------------------ MODULE Timecode ------------------------------
(* Timecode tracks: each keeps a recorded course of values for every control. *)
(* Users edit tracks and controls with commands that can be undone, nodes of *)
(* the pipeline play tracks and record into them, and every frame moves the  *)
(* tracks that play on. Time counts in steps of which HoldGap is the longest *)
(* that two recorded values are joined over.                                 *)
EXTENDS Integers, Sequences

CONSTANTS
  Names,        \* of tracks and of controls
  Levels,       \* values of a control
  HoldGap,
  MaxCommands,  \* bound on the commands that are run, undone and redone
  MaxControls,  \* bound on what nodes do to tracks
  MaxRecords,   \* bound on the values that are recorded
  MaxTime,      \* bound on the time that passes
  MaxId         \* bound on the ids that are given

ASSUME LevelsAssumption == Levels \subseteq Nat
ASSUME BoundsAssumption == {HoldGap, MaxCommands, MaxControls, MaxRecords, MaxTime, MaxId} \subseteq Nat

VARIABLES
  manager,      \* TimecodeManager
  saved,        \* the tracks and controls in the project file
  now,
  done,         \* the commands in effect, with the state that undoes each
  undone,       \* the commands that were undone, the next to redo first
  commands,     \* how many were run, undone and redone
  controlled,   \* how often nodes started or stopped something
  records,      \* how many values were recorded
  crossed       \* a project was opened over something to undo or redo, now or earlier

vars == <<manager, saved, now, done, undone, commands, controlled, records, crossed>>

-----------------------------------------------------------------------------
(* Maps *)

Put(f, key, value) ==
  [k \in DOMAIN f \cup {key} |-> IF k = key THEN value ELSE f[k]]
Drop(f, key) == [k \in DOMAIN f \ {key} |-> f[k]]
NoEntries == [k \in {} |-> <<>>]

-----------------------------------------------------------------------------
(* The course of a control: steps [x, y] by time, empty at first. *)

Before(course, x) == {n \in DOMAIN course : course[n].x < x}
After(course, x) == {n \in DOMAIN course : course[n].x > x}
LastOf(S) == CHOOSE n \in S : \A k \in S : k <= n
FirstOf(S) == CHOOSE n \in S : \A k \in S : n <= k

\* For the mutation checks: nothing recorded later is cut off.
KeptAll(course, x) == course

\* For the mutation checks: the last of the steps before it goes as well.
KeptShort(course, x) ==
  IF Before(course, x) # {} THEN SubSeq(course, 1, LastOf(Before(course, x)) - 1)
  ELSE <<>>

\* What recording at x keeps: the steps before it.
Kept(course, x) ==
  IF Before(course, x) # {} THEN SubSeq(course, 1, LastOf(Before(course, x)))
  ELSE IF After(course, x) # {} THEN SubSeq(course, 1, FirstOf(After(course, x)) - 1)
  ELSE course

\* A value that was held for longer than the gap gets a step at its end.
AddSimpleStep(course, x, y) ==
  LET kept == Kept(course, x)
      last == IF kept = <<>> THEN [x |-> 0, y |-> 0] ELSE kept[Len(kept)]
      held == IF x - last.x > HoldGap THEN Append(kept, [x |-> x, y |-> last.y]) ELSE kept
  IN  Append(held, [x |-> x, y |-> y])

-----------------------------------------------------------------------------
(* TimecodeManager *)

Stopped == [playing |-> FALSE, start |-> 0, timestamp |-> 0]

EmptyManager ==
  [tracks |-> NoEntries, controls |-> NoEntries, nextTrack |-> 1, nextControl |-> 1,
   states |-> NoEntries, recording |-> {}]

\* For the mutation checks: a track that comes back has no state.
InsertTimecodeAlone(m, id, track) == [m EXCEPT !.tracks = Put(@, id, track)]

InsertTimecode(m, id, track) ==
  [m EXCEPT !.tracks = Put(@, id, track), !.states = Put(@, id, Stopped)]

AddTimecode(m, name) ==
  LET track == [name |-> name, values |-> [c \in DOMAIN m.controls |-> <<>>]]
  IN  [InsertTimecode(m, m.nextTrack, track) EXCEPT !.nextTrack = @ + 1]

\* Its state stays, and so does its place among the recording ones.
RemoveTimecode(m, id) == [m EXCEPT !.tracks = Drop(@, id)]

RenameTimecode(m, id, name) == [m EXCEPT !.tracks[id].name = name]

\* For the mutation checks: only tracks that had values get the control back.
InsertTimecodeControlWhereKnown(m, id, name, courses) ==
  [m EXCEPT !.controls = Put(@, id, name),
            !.tracks = [t \in DOMAIN m.tracks |->
              IF t \in DOMAIN courses /\ courses[t] # <<>>
              THEN [m.tracks[t] EXCEPT !.values = Put(@, id, courses[t])] ELSE m.tracks[t]]]

InsertTimecodeControl(m, id, name, courses) ==
  [m EXCEPT !.controls = Put(@, id, name),
            !.tracks = [t \in DOMAIN m.tracks |->
              [m.tracks[t] EXCEPT !.values =
                 Put(@, id, IF t \in DOMAIN courses THEN courses[t] ELSE <<>>)]]]

AddTimecodeControl(m, name) ==
  [InsertTimecodeControl(m, m.nextControl, name, NoEntries) EXCEPT !.nextControl = @ + 1]

CoursesOf(m, id) ==
  [t \in {t \in DOMAIN m.tracks : id \in DOMAIN m.tracks[t].values} |->
     m.tracks[t].values[id]]

RemoveTimecodeControl(m, id) ==
  [m EXCEPT !.controls = Drop(@, id),
            !.tracks = [t \in DOMAIN m.tracks |->
              [m.tracks[t] EXCEPT !.values = Drop(@, id)]]]

RenameTimecodeControl(m, id, name) == [m EXCEPT !.controls[id] = name]

Highest(ids) == IF ids = {} THEN 0 ELSE LastOf(ids)

\* For the mutation checks: the highest id of the project is given again.
LoadTimecodesAtHighest(m, tracks, controls) ==
  [m EXCEPT !.tracks = tracks, !.controls = controls,
            !.states = [t \in DOMAIN m.states \cup DOMAIN tracks |->
                          IF t \in DOMAIN tracks THEN Stopped ELSE m.states[t]],
            !.nextTrack = Highest(DOMAIN tracks), !.nextControl = Highest(DOMAIN controls)]

LoadTimecodes(m, tracks, controls) ==
  [m EXCEPT !.tracks = tracks, !.controls = controls,
            !.states = [t \in DOMAIN m.states \cup DOMAIN tracks |->
                          IF t \in DOMAIN tracks THEN Stopped ELSE m.states[t]],
            !.nextTrack = Highest(DOMAIN tracks) + 1,
            !.nextControl = Highest(DOMAIN controls) + 1]

SetState(m, id, state) == IF id \in DOMAIN m.states THEN [m EXCEPT !.states[id] = state] ELSE m

StartTrack(m, id) ==
  IF id \in DOMAIN m.states
  THEN SetState(m, id, [playing |-> TRUE, start |-> now, timestamp |-> m.states[id].timestamp])
  ELSE m

\* For the mutation checks: the time at which it was stopped stays.
StopTrackKeepingTime(m, id) ==
  IF id \in DOMAIN m.states
  THEN SetState(m, id, [m.states[id] EXCEPT !.playing = FALSE, !.start = 0]) ELSE m

StopTrack(m, id) == SetState(m, id, Stopped)

WriteTimestamp(m, id, time) ==
  SetState(m, id, [playing |-> TRUE, start |-> now - time, timestamp |-> time])

IsRunning(state) == state.timestamp > 0 \/ state.playing

\* The tracks a value is recorded into, if each of them still exists.
RecordingTracks(m) ==
  {t \in m.recording : t \in DOMAIN m.states /\ m.states[t].playing}

RecordInto(m, ids, control, value) ==
  [m EXCEPT !.tracks = [t \in DOMAIN m.tracks |->
     IF t \in ids /\ control \in DOMAIN m.tracks[t].values
     THEN [m.tracks[t] EXCEPT !.values[control] =
             AddSimpleStep(@, now - m.states[t].start, value)]
     ELSE m.tracks[t]]]

AdvanceTimecodes(m, time) ==
  [m EXCEPT !.states = [t \in DOMAIN m.states |->
     LET state == m.states[t]
     IN  IF state.playing THEN [state EXCEPT !.timestamp = time - state.start] ELSE state]]

-----------------------------------------------------------------------------
(* Commands: what applying one leaves, and what it keeps for its undo. *)

NoCourses == NoEntries

\* Commands on ids that are unknown fail.
Applies(m, c) ==
  CASE c.op \in {"addTrack", "addControl"} -> TRUE
    [] c.op \in {"deleteTrack", "renameTrack"} -> c.id \in DOMAIN m.tracks
    [] c.op \in {"deleteControl", "renameControl"} -> c.id \in DOMAIN m.controls

Apply(m, c) ==
  CASE c.op = "addTrack"      -> AddTimecode(m, c.name)
    [] c.op = "addControl"    -> AddTimecodeControl(m, c.name)
    [] c.op = "deleteTrack"   -> RemoveTimecode(m, c.id)
    [] c.op = "deleteControl" -> RemoveTimecodeControl(m, c.id)
    [] c.op = "renameTrack"   -> RenameTimecode(m, c.id, c.name)
    [] c.op = "renameControl" -> RenameTimecodeControl(m, c.id, c.name)

Memento(id, name, values) == [id |-> id, name |-> name, values |-> values]

StateOf(m, c) ==
  CASE c.op = "addTrack"      -> Memento(m.nextTrack, c.name, NoCourses)
    [] c.op = "addControl"    -> Memento(m.nextControl, c.name, NoCourses)
    [] c.op = "deleteTrack"   -> Memento(c.id, m.tracks[c.id].name, m.tracks[c.id].values)
    [] c.op = "deleteControl" -> Memento(c.id, m.controls[c.id], CoursesOf(m, c.id))
    [] c.op = "renameTrack"   -> Memento(c.id, m.tracks[c.id].name, NoCourses)
    [] c.op = "renameControl" -> Memento(c.id, m.controls[c.id], NoCourses)

Revert(m, c, s) ==
  CASE c.op = "addTrack"      -> RemoveTimecode(m, s.id)
    [] c.op = "addControl"    -> RemoveTimecodeControl(m, s.id)
    [] c.op = "deleteTrack"   -> InsertTimecode(m, s.id, [name |-> s.name, values |-> s.values])
    [] c.op = "deleteControl" -> InsertTimecodeControl(m, s.id, s.name, s.values)
    [] c.op = "renameTrack"   -> IF s.id \in DOMAIN m.tracks
                                 THEN RenameTimecode(m, s.id, s.name) ELSE m
    [] c.op = "renameControl" -> IF s.id \in DOMAIN m.controls
                                 THEN RenameTimecodeControl(m, s.id, s.name) ELSE m

Ids == 1 .. MaxId
Commands ==
       [op : {"addTrack", "addControl"}, id : {0}, name : Names]
  \cup [op : {"deleteTrack", "deleteControl"}, id : Ids, name : {"-"}]
  \cup [op : {"renameTrack", "renameControl"}, id : Ids, name : Names]

-----------------------------------------------------------------------------
Init ==
  /\ manager = EmptyManager
  /\ saved = [tracks |-> NoEntries, controls |-> NoEntries]
  /\ now = 0 /\ done = <<>> /\ undone = <<>>
  /\ commands = 0 /\ controlled = 0 /\ records = 0 /\ crossed = FALSE

IdsLeft == manager.nextTrack <= MaxId /\ manager.nextControl <= MaxId
MayCommand == commands < MaxCommands /\ commands' = commands + 1

Content(m) == [tracks |-> m.tracks, controls |-> m.controls]
Entry(m, c) == [cmd |-> c, state |-> StateOf(m, c), kept |-> TRUE, before |-> Content(m)]
Failed(m, e) == [cmd |-> e.cmd, state |-> e.state, kept |-> FALSE, before |-> Content(m)]

Run(c) ==
  /\ MayCommand /\ IdsLeft /\ Applies(manager, c)
  /\ manager' = Apply(manager, c)
  /\ done' = Append(done, Entry(manager, c))
  /\ undone' = <<>>
  /\ UNCHANGED <<saved, now, controlled, records, crossed>>

Undo ==
  /\ MayCommand /\ done # <<>>
  /\ LET e == done[Len(done)]
     IN  /\ manager' = IF e.kept THEN Revert(manager, e.cmd, e.state) ELSE manager
         /\ undone' = <<e>> \o undone
  /\ done' = SubSeq(done, 1, Len(done) - 1)
  /\ UNCHANGED <<saved, now, controlled, records, crossed>>

\* Redoing an addition gives a new id; commands on the old one fail then, and
\* keep no state.
Redo ==
  /\ MayCommand /\ IdsLeft /\ undone # <<>>
  /\ LET c == undone[1].cmd
     IN  IF Applies(manager, c)
         THEN /\ manager' = Apply(manager, c)
              /\ done' = Append(done, Entry(manager, c))
         ELSE /\ manager' = manager
              /\ done' = Append(done, Failed(manager, undone[1]))
  /\ undone' = SubSeq(undone, 2, Len(undone))
  /\ UNCHANGED <<saved, now, controlled, records, crossed>>

SaveProject ==
  /\ MayCommand
  /\ saved' = Content(manager)
  /\ UNCHANGED <<manager, now, done, undone, controlled, records, crossed>>

\* The history of commands stays.
OpenProject ==
  /\ MayCommand
  /\ manager' = LoadTimecodes(EmptyManager, saved.tracks, saved.controls)
  /\ crossed' = (crossed \/ done # <<>> \/ undone # <<>>)
  /\ UNCHANGED <<saved, now, done, undone, controlled, records>>

\* The program ends and starts with the project; nothing else outlives it.
Restart ==
  /\ MayCommand
  /\ manager' = LoadTimecodes(EmptyManager, saved.tracks, saved.controls)
  /\ done' = <<>> /\ undone' = <<>>
  /\ UNCHANGED <<saved, now, controlled, records, crossed>>

-----------------------------------------------------------------------------
(* Nodes; any number of them may control one track. *)

ByNode(m) ==
  /\ controlled < MaxControls /\ controlled' = controlled + 1
  /\ manager' = m
  /\ UNCHANGED <<saved, now, done, undone, commands, records, crossed>>

Start == \E t \in Ids : ByNode(StartTrack(manager, t))
Stop == \E t \in Ids : ByNode(StopTrack(manager, t))

Chase ==
  \E t \in DOMAIN manager.states, time \in 0 .. MaxTime :
    manager.states[t].playing /\ ByNode(WriteTimestamp(manager, t, time))

StartRecording ==
  \E t \in DOMAIN manager.states : ByNode([manager EXCEPT !.recording = @ \cup {t}])

StopRecording ==
  \E t \in DOMAIN manager.states : ByNode([manager EXCEPT !.recording = @ \ {t}])

\* A track that is gone ends the loop over the recording ones, wherever it is.
Record ==
  \E control \in Ids, value \in Levels :
    LET present == RecordingTracks(manager) \cap DOMAIN manager.tracks
    IN  /\ records < MaxRecords /\ records' = records + 1
        /\ \E ids \in IF present = RecordingTracks(manager) THEN {present} ELSE SUBSET present :
             manager' = RecordInto(manager, ids, control, value)
        /\ UNCHANGED <<saved, now, done, undone, commands, controlled, crossed>>

AdvanceFrame ==
  /\ now < MaxTime /\ now' = now + 1
  /\ manager' = AdvanceTimecodes(manager, now + 1)
  /\ UNCHANGED <<saved, done, undone, commands, controlled, records, crossed>>

Next ==
  \/ \E c \in Commands : Run(c)
  \/ Undo \/ Redo \/ SaveProject \/ OpenProject \/ Restart
  \/ Start \/ Stop \/ Chase \/ StartRecording \/ StopRecording \/ Record \/ AdvanceFrame

Spec == Init /\ [][Next]_vars

-----------------------------------------------------------------------------
(* Properties *)

AboutTrack(c) == c.op \in {"addTrack", "deleteTrack", "renameTrack"}
Entries == {done[n] : n \in DOMAIN done} \cup {undone[n] : n \in DOMAIN undone}

(* The parts are of their types; a track plays since now or earlier.         *)
TypeOK ==
  /\ DOMAIN manager.tracks \subseteq DOMAIN manager.states
  /\ \A t \in DOMAIN manager.states :
       /\ manager.states[t] \in [playing : BOOLEAN, start : Int, timestamp : Nat]
       /\ manager.states[t].start <= now
  /\ manager.recording \subseteq DOMAIN manager.states
  /\ manager.nextTrack \in Nat /\ manager.nextControl \in Nat
  /\ now \in Nat /\ commands \in Nat /\ controlled \in Nat /\ records \in Nat /\ crossed \in BOOLEAN

(* A track that was stopped, inserted anew or loaded stands still at zero, so *)
(* that the outputs read no value of it (get_control_value takes the first    *)
(* track that runs), in whatever order its nodes start, chase and stop it.    *)
RunningIsPlaying ==
  \A t \in DOMAIN manager.states :
    IsRunning(manager.states[t]) => manager.states[t].playing

Ordered(course) == \A n \in 2 .. Len(course) : course[n - 1].x <= course[n].x

(* The steps of a course are in the order of time, which sampling relies on,  *)
(* after any number of passes that record into the same track from any point, *)
(* and after undo and loading.                                                *)
CoursesAreOrdered ==
  \A t \in DOMAIN manager.tracks : \A c \in DOMAIN manager.tracks[t].values :
    Ordered(manager.tracks[t].values[c])

(* Recording cuts off what was recorded for later, never what was recorded    *)
(* for earlier: that part of the course stays as it is.                       *)
RecordingKeepsThePast ==
  [][\A t \in DOMAIN manager.tracks \cap DOMAIN manager'.tracks :
       \A c \in DOMAIN manager.tracks[t].values \cap DOMAIN manager'.tracks[t].values :
         LET old == manager.tracks[t].values[c]
             new == manager'.tracks[t].values[c]
         IN  records' # records =>
               \A n \in DOMAIN old :
                 old[n].x < now - manager.states[t].start => n \in DOMAIN new /\ new[n] = old[n]
    ]_vars

(* Every track has a course for every control and for no other, in whatever   *)
(* order tracks and controls are added, deleted, brought back and loaded.     *)
TracksHaveAllControls ==
  ~crossed => \A t \in DOMAIN manager.tracks :
    DOMAIN manager.tracks[t].values = DOMAIN manager.controls

(* A new track or control never takes the id of one that exists or that undo  *)
(* or redo could bring back or name.                                          *)
IdsAreFresh ==
  ~crossed =>
    /\ \A t \in DOMAIN manager.tracks : t < manager.nextTrack
    /\ \A c \in DOMAIN manager.controls : c < manager.nextControl
    /\ \A e \in Entries : e.state.id < IF AboutTrack(e.cmd) THEN manager.nextTrack
                                        ELSE manager.nextControl

Named(content) ==
  [tracks   |-> [t \in DOMAIN content.tracks |-> content.tracks[t].name],
   controls |-> content.controls]

(* Undo brings back the tracks and controls, with their names, that the       *)
(* command found; what it deleted comes back with all its values, whatever    *)
(* was played and recorded meanwhile.                                         *)
UndoRestores ==
  [][Undo /\ ~crossed =>
       LET e == done[Len(done)]
       IN  /\ Named(Content(manager')) = Named(e.before)
           /\ \A t \in DOMAIN e.before.tracks : \A c \in DOMAIN e.before.controls :
                t \notin DOMAIN manager.tracks \/ c \notin DOMAIN manager.controls =>
                  /\ c \in DOMAIN manager'.tracks[t].values
                  /\ manager'.tracks[t].values[c] = e.before.tracks[t].values[c]]_vars
=============================================================================
