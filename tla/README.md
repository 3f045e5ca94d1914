# Verification of Mizer

TLA+ models of the core of [Mizer](https://github.com/jnslmk/Mizer), a lighting
console: the commands users give it, with undo, write-ahead log and project
files; what every one of these commands does to the project and how it is taken
back; the node graph against the worker that runs it; the sequencer that plays
cues; the programmer and the values that reach the fixtures; timecode. TLC checks
the models on small instances, and TLAPS proves most of what concerns the command
history, undo, the log and its recovery, the sequencer, the programmer and timecode for
every instance.
All definitions are translated from the Rust code; the table `map` of `PROJECT.json`
names the lines.

## The system

One thread, the *main loop* (`src/crates/mizer/src/mizer.rs`), runs the console.
Each frame it

1. answers the project requests of the API (`api/handler.rs`),
2. lets the processors `pre_process`: `CommandProcessor` answers the queued
   commands of the users, the worker drops what dead nodes have left in receivers,
3. lets the processors `process`, by priority and order of registration: the
   programmer writes its values to the fixtures, `SequenceProcessor` empties the
   queue of the sequencer and plays the active sequences, the effect engine runs,
   timecode moves on, then the pipeline nodes run,
4. lets them `post_process` and sends values to the devices.

API threads hand requests over through channels and block until the answer
comes; the programmer they lock directly, between any two steps of a frame.
Everything the sequencer receives is sent by the main loop itself: by commands,
in step 2, and by the nodes, in step 3.

| Part | State | Operations | What makes it correct |
|---|---|---|---|
| Command history (`commander/executor/src/history.rs`) | a vector and a cursor | add, undo, redo | it behaves as two stacks |
| Executor (`executor.rs`, `lib.rs`, `in_main_loop_executor.rs`) | the state each applied command left, by key; a key counter; a queue of callbacks | run, undo, redo, apply_wal | keys, states and entries fit together when commands fail; undo restores; every caller is answered |
| Write-ahead log (`write_ahead_log.rs`, `module.rs`) | a file of lines | append, read, truncate, replay | replay restores what a crash took; no line goes before it is saved |
| Commands (`commands.rs` and about a hundred implementations) | none | apply, revert | revert undoes apply, also when redone later and after others have failed |
| Project life cycle (`mizer.rs`, `runtime_builder.rs`, `projects/`) | the open path, the project file | new, load, save, save as, close, start | the file and the log together hold the work of the user |
| Pipeline and worker (`runtime/src/pipeline.rs`, `runtime/pipeline/src/worker.rs`, `ports.rs`) | nodes, links; ports, receivers and memory cells | add, delete, rename, link, group, duplicate, process | links and transports agree; whatever is edited can be run, saved and loaded |
| Layouts, plans, surfaces (`runtime/layouts`, `components/plan`, `components/surfaces`) | lists of controls, of placed fixtures, of sections | edits | what they show exists; undo is exact |
| Patch, groups, presets (`components/fixtures`) | fixtures, selections, values, and the nodes that stand for them | edits | the same, together with their nodes |
| Sequence playback (`sequencer/src/state.rs`, `cue.rs`, `sequence.rs`) | cue, timers, channel states, effects | go, go back, go to, stop, run a frame | cues come in time, delays are kept, what stops is silent |
| Sequencer (`sequencer.rs`) | sequences, their states, start order, queue, views | everything above by id; add, delete, clear, load | the order is that of starting; nothing panics or blocks the frame |
| Effect engine (`effects/engine.rs`) | instances | run, stop | no instance outlives what runs it, and what is called runs |
| Sequencer node (`pipeline/nodes/sequencer`) | edges of its inputs | process | the inputs reach the sequence, once |
| Programmer (`components/fixtures/src/programmer`) | selection, written values, tracked selections, highlight, offline | select, write, call, clear, arrange, store | values go to the selection they were written to and stay with its fixtures |
| Fixture output (`fixture.rs`, `channel_values.rs`) | values by priority, fade-outs | write, flush | of all writers the right one wins, and nothing is left behind |
| Timecode (`components/timecode`) | tracks, controls, courses, states | add, delete, rename, record, play, chase, stop, load | recording loses nothing of the past; ids stay fresh |
| Connections (`components/connections`) | OSC and MQTT connections, DMX inputs and outputs, MIDI profiles | edits; I/O | undo of the edits is exact |
| Clock (`runtime/clock`) | position, speed, state | play, pause, stop, tap | the position moves only while playing |
| Media, vector, wgpu | files and GPU objects | import, rendering | - |
| Console, command line, status bus, settings, session | small values | messages | - |
| API, UI bindings, Flutter UI | none of their own | conversions | - |

Hard to test, and the reason for the models: commands that fail half-way, redo
that fails, undo after the user pressed redo too often, a crash between any two
writes, two callers whose callbacks interleave, a graph and a worker that name the
same node differently, projects in which something was renamed, deleted or given
twice before it is undone, timers that are compared with timestamps under a changing
rate, cues that are taken away while they are played, a bounded queue that is filled
and emptied by one thread, writers of different ranks that come and go while a fade
runs, passes recorded over one another. `hazards` in `PROJECT.json` lists them with
their lines.

## Modules

| Module | Models | Remarks |
|---|---|---|
| `CommandHistory` | `CommandCursor` | pure operators `Push`, `Back`, `Forward`; the cursor is 0-based and -1 for none, as in the code |
| `UndoStack` | nothing: the abstract specification of an undo history, two stacks | |
| `UndoRedo` | the history driven by any order of push, undo, redo | implements `UndoStack` |
| `SequenceDocument` | `apply` and `revert` of AddSequence, DeleteSequence, RenameSequence, DeleteNodes; what is saved and loaded | pure operators; a failing command returns the document it leaves behind |
| `Commander` | API threads, main loop, executor, log, project file, crashes, start and replay | composes `CommandHistory` and `SequenceDocument` |
| `Pipeline` | the graph, the worker's cells and receivers, frames | pure operators on a pipeline, and what it is for graph and worker to be in step |
| `NodeCommands` | the 15 commands on nodes and links | extends `Pipeline`; the only modules with RECURSIVE operators are this one and those that extend it |
| `LayoutCommands`, `PlanCommands`, `CueCommands`, `FixtureCommands`, `ConnectionCommands` | all other commands of the catalogue but those on the programmer and timecode | each extends `NodeCommands`, since commands on other parts add and delete nodes, too |
| `ProjectRequests` | which requests users may make; dispatch by command | |
| `ProjectEdits` | an open project: commands, undo, redo and frames in any order | composes the six modules of commands with the worker |
| `SequencePlayback` | `SequenceState`, cue timing, `Sequence::run` | pure operators on a playback: state, effect instances, "has not panicked" |
| `Sequencer` | `Sequencer`, its processor, the effect engine's instances, the rate of the sequencer node | composes `SequencePlayback` |
| `FixtureSelection` | an arranged selection: blocks, groups, wings | pure operators |
| `ChannelValues` | one channel: values, priorities, sources, fade-out | pure operators |
| `Programmer` | every operation of the programmer | pure operators; composes the two above |
| `ProgrammerValues` | nothing: the abstract specification, what the selection carries and what fixtures have for good | |
| `ProgrammerSession` | the programmer under its commands, their undo and the calls of the API | implements `ProgrammerValues` |
| `FixtureOutput` | a frame: programmer, sequences, programmer's effects, outputs, with calls in between | composes `ProgrammerSession` and `ChannelValues` |
| `Timecode` | manager, commands with undo, nodes, recording, frames, saving and loading | |
| `MCCommander`, `MCSequencer`, `MCProjectEdits`, `MCProgrammer`, `MCFixtureOutput` | instances for TLC | |
| `CommandHistoryProofs`, `UndoRedoProofs`, `CommanderProofs`, `SequencerProofs`, `ProgrammerProofs`, `FixtureOutputProofs`, `TimecodeProofs`, `PipelineProofs` | lemmas and theorems | each extends the module it is about |

Definitions whose name says what they do wrong (`PushKeepingNext`,
`SaveFailsTruncating`, ...) and whose comment says they are for the mutation checks
are used by nothing in the models. Each is a plausible slip in the definition after
it; with it in place of the original, TLC finds the property violated that `mutants`
in `PROJECT.json` names. They show that the properties depend on the code.

### Commander

`phase` is where the main loop is: "project" answers project requests,
"commands" the callbacks; "saving" and "saved" lie inside `save_project_as`,
between emptying the file, having written it, and truncating the log, because a
crash may hit there. "down" and "replay" are a process that does not run and
one that is starting. `callbacks` and `projectQueue` keep a request until its
answer, `unsent` is what an `apply_wal` still has to send. `Run` is the whole of
`run_command`: apply, append, record. `log.tail` tells a log that ends well from
one whose last newline is missing ("open", the next append runs into it) and one
with half a line ("torn", `read` fails for the whole file).

`lost`, `logExplains`, `orderly` and the field `before` of a history entry are
history variables: they remember the document at the last crash, whether the log
alone leads from the file to the document, whether only commands of this project
changed it, and what a command found when it ran. No guard reads them.

Reduced: the commands are those on sequences and their nodes, which depend on each
other and can fail (what all others do is in `ProjectEdits`); the capacity of 50 of
the callback channel (a sender that waits for room
and one that waits for the answer both just wait), queries (they change nothing),
time stamps of entries, YAML, migrations; there is one project path, a file that
cannot be read stands for every load error, and an explicitly named file that
fails to load, which ends the program, is left out. A start with `StartNew` is one
without a last project.

### Sequencer

Time is counted in frames. A timer `[lag, time]` says how far it has counted and
whether a frame has passed since; timestamps are "now", "before" or "none", since
the code only compares them for equality with the last one it saw. So playback
goes on forever in finitely many states. `Forward`, `UpdateTimestamps`,
`UpdateState` and `Run` follow the order of the code, which is what their bugs
depend on.

The phases are "edit" (users act, between frames), "drain" (`handle_commands`,
one action per message, then `RunSequences`) and "nodes". `Enqueue` is a send on
the bounded channel by the thread that empties it: with no room the loop is
"stuck"; a panic makes it "dead".

`age` (frames since a cue was entered) and `written` (channels written in the last
frame) are history variables.

Reduced: beats (as seconds), values of fades and presets, ranges of durations, cue
merging; every cue control covers the fixtures of its sequence; effects named by
cues exist. Of the node only the rate it sends every frame and its toggle are
modelled. The programmer's own effects are in `FixtureOutput`, the commands on
effects in `CueCommands`.

### Pipeline and ProjectEdits

A pipeline is a value: `nodes`, `links`, the worker's `cells` (one per connected
output) and `inputs` (a receiver per input, with the transports it reads), and
`status`, which says whether the last call returned, failed or where it panicked.
One command makes several calls, so every operator maps a pipeline to the next, and
a call after a failed one does not happen. A transport remembers the name its source
had (`name`) besides the cell it reads (`cell`): disconnecting goes by the name, as
in `ports.rs`.

`doc` is the project: the pipeline and one field per part. `ApplyX` and `RevertX`
are the two methods of the command X, whole; a command keeps what it needs for its
revert in `state`. A command that fails leaves what it changed until then but no
entry; a redo that fails moves its entry back to the done ones without a state, whose
undo does nothing. `NextFrame` runs the nodes, lists the ports anew when a client
shows the node view, and checks the receivers, which is where a stale type or a dead
cell would be met.

A *session* is a set of commands users run and a bound on how many: one session per
part of the project, with those commands on nodes that meet it. `Init` picks one. So
every command meets every command of its part in every order, with frames, undo and
redo in between, and commands of different parts meet where they touch the same data
(nodes that layouts show or that stand for fixtures, groups, presets, sequences).

Six ways out of a sound project are in the code and collected in `flaws`: a connected
node was set to another port type ("retyped": the worker keeps the old one and panics
at the next use), the source of a link was renamed ("renamed": disconnecting finds no
transport), a container lists a node that is gone ("dangling": undo of a node added to
a container leaves it listed, and renaming the container panics), two layouts or plans
have one name ("sameNames": the first is taken for both), undo of placing fixtures
cleared the plan ("stripped"), and undo of a deletion one of whose nodes was gone
already ("misplaced": paths and states are zipped, nodes come back under another
name). What each property still asks of such projects is in its first line: e.g.
`TransportsMirrorLinks` only gives up on the first two. It is `InStep` of `Pipeline`:
an input reads exactly the cells of the nodes linked to it, as often as they are, a
single input has at most one link, and along a link the settings of both nodes, the
cell, the link and the receiver are of one type.

Undo is asked to be exact but where the code says otherwise. `ExactOnNodes` and
`ExactElsewhere` name the commands: a node added to a container, a link that was there
already (undo takes both), deleting containers in containers or linked children
(`delete_nodes.rs:122`); adding fixtures to a plan (finding), aligning and spreading in
a plan (the state is added to the position, not set), `UpdateSequenceStopOnLastCue`
(it keeps `wrap_around`), patching over existing fixtures (undo removes them),
connections and DMX inputs numbered by how many there are when that number is taken, a
DMX output that takes the name of another, and the profile of a MIDI device that had
one (undo clears it). Commands that draw an id (`DrawsId`) draw another one when redone.
No line of the repository denies these, except for the one the finding quotes.

Not asked for are requests that panic at once whatever went before: a node that is
unwrapped and does not exist, an index of an effect's channel or step past the end,
spreading or turning too few fixtures, a transformation into no groups.

Reduced: a node has at most one input and one output; of settings only the port type;
a node that stands for a sequence, fixture, group or preset has its id where others
have the port type; MQTT stands with OSC, whose commands are the same; sockets cannot
fail; what a command takes from the programmer is part of the request; spreading in a
circle, turning by other than quarters, the order of layout controls and controls that
do not show nodes; how addresses and names follow one another when several fixtures
are patched at once.

### Programmer and FixtureOutput

The fixture controls do not interact in the programmer, so one, the fader, stands for
all. `prog` has the fields of `Programmer`; `tracked` are the selections written to
before. Commands reach it through the executor, which keeps what `done` holds for undo;
most have nothing to undo. The calls of the API lock it directly.

`FixtureOutput` adds the frame as phases: the commands run, then
`FixtureProcessor` writes the programmer's values ("commands" to "sequences"), the
sequences write in the order in which they were started (`playing`, as
`sequence_order` in `sequencer.rs`), the effects run, the outputs are sent. Calls of the API are possible
in every phase, commands only in the first, so values and effects may be of different
moments. `Insert`, `Flush` and `Sent` are those of `channel_values.rs`: which value of
which rank wins, what fades out, what the sub master scales. The engine looks the
effects up in an iterator that each look-up consumes (`engine.rs:97`), in the order of
a hash map, which is a choice. `asked` is a history variable: what the writers of this
frame wanted.

Reduced: curves of effects (a running one writes one value), the color mixer, sub
fixtures, limits, presets on positions, DMX buffers.

### Timecode

Time counts in steps, of which `HoldGap` is the longest that two recorded values are
joined over (`spline.rs`); the model does not tell what lies between steps. `manager`
is `TimecodeManager`; `Play`, `Chase`, `Stop` and `Record` are what the nodes do to it,
in any order within a frame. `Record` writes to the tracks that record and ends, as the
loop does, at one that is gone. `Restart` ends the program and starts it with the
saved project and no history. `crossed` says that a project was opened over
something to undo or redo: the history then names ids of another project, and what
undo does is nobody's promise.

Reduced: curves between steps, the timecode that other programs send.

## Runs

Properties are explained next to their definitions.

| Run | Asks | Bounds | Distinct states |
|---|---|---|---|
| `UndoRedo_any` | Is every order of push, undo and redo a behaviour of two stacks, and do undo and redo take effect? | 2 entries, 5 pushes: the cursor gets past the end, pushes land there, and undo comes back through them | 447 |
| `Commander_undo` | Two callers, commands that fail or depend on each other: do keys, states and history fit, does undo restore? | 7 requests: the shortest way to an undo without a state (run twice, undo twice, redo, failing redo, undo) | 317,867 |
| `Commander_recovery` | Does replay restore, is the log kept, is every caller answered, with crashes anywhere, torn lines, failing writes, `apply_wal` next to others? | 2 callers, 4 requests, 2 crashes: a crash during the replay of a crash | 159,668 |
| `Commander_replay_undone` | Does replay bring back what was not saved? **No** | 4 requests, 1 crash | |
| `Sequencer_shows` | Order, effects, output, delays and the coming of cues under go, back, go to, stop, toggle, by hand and by Time and Follow, and what is left by an automatic stop | 2 sequences, one of which stops after its last cue (two operations take it there, and a third starts it again after it has stopped), 3 operations, rates 0, 1, 2, a queue of 6 that takes several of them in one frame; times up to 3, timers saturate at 6 | 474,766 |
| `Sequencer_edits` | Cues stored and taken away, sequences deleted and restored, project closed and loaded during playback: does the loop go on? | 5 operations, a queue of 7 | 655,629 |
| `Project_edits` | Does every part of the project fit together, does the worker carry what the graph shows, does anything panic, can what is saved be loaded, are undo and redo exact? | 7 sessions of 2 or 3 commands out of 82 kinds, any undo, 1 redo, 8 nodes: enough to delete, or rename, what another command has made and to undo both | 264,403 |
| `Project_reversible` | Does undo bring back what the command found, whatever the command? **No** | 1 command | |
| `Programmer_values` | Do values go with the selection and then stay with its fixtures, also when selecting is undone, are all fixtures of a selection reached once, are the written ones tracked? | 3 fixtures, 5 calls, groups with blocks and wings of size 2: short last chunks, empty groups, wings that run backwards | 253,914 |
| `Fixture_output` | Does the programmer have the last word, is nothing left behind, do fades end, does a called effect run? | 2 fixtures, 2 sequences (one fades out), 2 effects, 4 calls | 63,789 |
| `Programmer_offline` | Is an offline programmer silent? **No** | the same | |
| `Timecode` | Do courses stay in order, does recording keep the past, are ids fresh, does undo restore? | 2 names, 4 commands with their undo and redo, 3 calls of nodes, 2 records, time 2: two passes over one course, deletion and restoration between them | 1,933,324 |

`MaxHistory`, `MaxRequests`, `MaxCrashes`, `MaxCommands`, `MaxRedos`, `MaxCalls`,
`MaxControls` and `MaxRecords` and the bound in a session bound what users, nodes and
fate do; they appear only in the guards of their actions. `MaxNodes` and `MaxId` bound
what a chain of duplications or additions can make. `MaxTime` of the sequencer saturates
timers above every time in the show, so no comparison can tell; that of `Timecode` ends time. `QueueSize`
stands for the capacity of 100: in the runs it has room for the rates of all sequences
and some commands, as 100 has for a usual show. No symmetry is used. Deadlock is
checked for the executor, the sequencer and the history, whose systems never stop;
where users with a bounded number of actions are the only ones left to move
(`Project_*`, `Programmer_*`, `Fixture_output`, `Timecode`), it is not.

### What the runs leave out on purpose

These are certain from the code, and nothing in the repository says otherwise, so no
run shows them; the runs are made so that they do not hide other things:

- After two cues were taken away within a frame `go_backward` indexes past the end of
  the list (`state.rs:289`), and go on a sequence without cues panics: `Sequencer_edits`
  has no go-back, and its sequences always keep a cue.
- In the frame in which a cue is entered by its trigger, its delays are compared with
  the timer of the cue before (`sequence.rs:71`): the automatic cues of
  `Sequencer_shows` have no delays.
- A playing sequence that is deleted leaves its effects running (`sequencer.rs:158`):
  `Sequencer_shows` deletes none.
- A crash between writing the project and truncating the log (`mizer.rs:232`) makes
  recovery apply saved commands again; a crash while it is written loses the old one.
- Redo at the end of the history still moves the cursor (`history.rs:119`).
  `UndoRedo_any` does it, and what it asks of undo is that it takes effect where an
  entry is under the cursor.
- The commands whose undo is not exact, and the six flaws above.

Two more are not left out; the properties state them as they are:

- After its last cue a sequence with `stop_on_last_cue` stops inside `Sequence::run`,
  which goes on with its first cue in that frame (`sequence.rs:75`): the cue's values
  are written once and its effects run until a command starts or stops the
  sequence. It also stays in `sequence_order` (`sequencer.rs:178`), so it takes up its
  old place when it starts again and loses against sequences that started before that.
  `Lingering` are these sequences; `OrderHoldsTheActive`, `OrderFollowsStarts`,
  `EffectsFollowCues` and `StoppedIsSilent` say of them exactly this, and of all
  others that they are silent and go last. "Auto stop after last cue" is all the
  repository says.
- Undoing a selection calls `set_selection`, which moves nothing to the tracked
  selections ("TODO: move_active_to_tracked?", `programmer/mod.rs:428`). A value
  written to the undone selection is lost to the fixtures that leave and goes to those
  that come back; unselecting takes it away, too. `ProgrammerValues` calls such values
  `carried`, and `kept` those that a later selection or a clear has settled, which no
  undo reaches any more.

### Fairness

*Commander*: the main loop is a `while` that nothing stops (weak fairness of its
steps), the replay loop goes through a finite list, and a thread inside
`apply_wal` goes on to its next command. Users need not do anything and the program
need not be started again. `EveryRequestIsAnswered` uses just this.

*Sequencer*: weak fairness of the frame. It is written as "infinitely many frame
steps, or halted for ever", which is the same because a step of the frame is
possible unless the program is dead or stuck, and TLC evaluates it much faster.
`AutomaticCuesAreReached` and `FramesGoOn` use it.

*FixtureOutput*: weak fairness of the frame, for the same reason. `FadesEnd` and
`CalledEffectRuns` use it. Nothing is assumed of users.

`ProjectEdits`, `ProgrammerSession` and `Timecode` state safety and need none.

### Findings

Three runs show the code at odds with a message or a page of the documentation:

- `Commander_replay_undone`: undo and redo leave no trace in the log (`lib.rs:107`), so
  recovery brings back commands that were undone, where `runtime_builder.rs:141` tells
  the user "Applied unsaved change from last session".
- `Project_reversible`: undoing that fixtures were placed in a plan removes all others
  (`add_fixtures_to_plan.rs:43`), where `commands_and_queries.adoc:9` says "Commands
  have to be reversible."
- `Programmer_offline`: an offline programmer still runs its effects
  (`effects/engine.rs:94`), where `programmer.adoc:84` says that it "will *never*
  output anything to the fixtures".

## Proofs

TLAPS proves, for all constants and without bounds (the bounds occur in guards that
the proofs do not use):

- `UndoRedoProofs`: `TypeCorrect`, the range of the cursor; with it
  `HistoryImplementsUndoStack`, a refinement of `UndoStack`, and
  `UndoAndRedoTakeEffect`. The mapping sends the entries at or below the cursor to
  `done` and those above to `undone`. The lemmas of `CommandHistoryProofs` say what
  `Push`, `Back` and `Forward` do to both; the range matters because a cursor past
  the end makes `undone` empty and `back` a stutter.
- `CommanderProofs`: `KeysStayUnique` and `StatesStayInEffect`. Neither is inductive:
  that a new key differs from the old ones needs all keys to lie below the counter,
  and that an undone entry leaves no state needs both properties and the range of the
  cursor. `IInv` (`Linked`) joins these; each of the six ways in which history,
  states and counter change has a lemma, and every action is one of them or leaves
  them alone. Nothing is assumed of what commands do to documents.
- `CommanderProofs`: `LogStaysUntilSaved`, from the invariant that in phase "saved"
  the file holds the document (`LogInv`), with the shape of the log, since an append
  must not leave it empty.
- Also in `CommanderProofs`: what commands do to documents. `CommanderTypes` needs an
  invariant beyond the types (`TypeInv`): a state that is kept for undo fits the
  command of the entry with its key, so that a revert is given what its apply
  returned. `RecoveryAlwaysRestores` rests on `RecoveryInv`: as long as `logExplains`
  holds, applying the lines of the log one after the other to what the file holds
  leads to the document (`Explained`, which speaks of a chain of documents instead of
  a recursive function), and what a crash in a replay leaves is a shorter such log.
  `UndoAlwaysRestores` rests on `UndoInv`: as long as only commands of this project
  changed the document, the entries with a state form a chain (`Chained`): undoing the last
  takes the document, undoing one before it takes what the next had found, to what it
  had found itself, and ids stay below the counter. For each of the commands a lemma says
  that its revert takes back what its apply did.
- `SequencerProofs`: `SequencerTypes` (with the invariant that timers stay below
  `MaxTime` and rates come from ports). `PlayedCuesAlwaysExist` holds for shows without
  empty sequences (`SequencesHaveCues`); it is not inductive, since between two frames a
  cue may be taken away, so `PlayedInv` also says how far a playing cue can be out of
  the list in each phase (`Dropping`) and that what is active is held by the order
  (`ActiveAreHeld`). `OrderAlwaysHoldsTheActive`, `EffectsAlwaysFollowCues`,
  `StoppedIsAlwaysSilent` and `OrderAlwaysFollowsStarts` hold for `Steady` shows: no
  sequence is empty, and users neither take cues away nor delete sequences, which are
  exceptions of "What the runs leave out on purpose" and do break the properties.
  Sequences may stop by themselves. `SteadyInv` says where every sequence is: an active
  one at a cue that exists, in the order; one that stopped by itself in the order at its
  first cue (`RestsAtFirst`); every other one silent and out of it (`AllStand`). It
  joins the effect instances with the sequences they belong to (`Owned`) and says what a
  frame leaves, for a frame in which the stop happens and for those after it
  (`AfterAFrame`, `LastWrites`).
- In the last part of `SequencerProofs`: `DelaysAlwaysKept` and `CuesAlwaysWaitTheirTurn`, for steady
  shows that are `Timely`: automatic cues have no delays (the exception named above) and
  no Follow cue comes later than `MaxTime`, at which the model's timers saturate. The
  invariant is that no timer of an active sequence runs ahead of its `age` in
  frames times the fastest rate of a port (`InTime`), for every timer there is: of
  the cue, of each channel's delay, of its fade. That there is a fastest rate follows from
  `FiniteMaximum`, which takes the least of a set of natural numbers
  that bound, since induction over data is not to be had. The show of
  `Sequencer_shows` is both steady and timely.
- `ProgrammerProofs`: `StateIsWellFormed`, `ArrangementsKeepTheFixtures`,
  `ProgrammedFixturesAreTracked`, and that the programmer implements `ProgrammerValues`
  (`ValuesStayWithTheirFixtures`). The invariant `SessionInv` says that no selection, active,
  tracked or kept for an undo, holds a fixture twice, and that nothing is written
  while the flag `written` is down: without the second, selecting could drop values.
  Then a value is what the channels hold, if the fixture is selected, or else the one of
  the tracked entries (`KeptAndCarried`); what moves an entry from one to the other settles
  the values (`ValuesOfMoved`), and what sets a selection leaves both (`SameFacts`). A lemma
  per action maps it to an operation of `ProgrammerValues`, or to none for the calls that are
  about something else.
  That blocks, dealt groups and wings keep the fixtures is one lemma: each of them lays
  groups in rows, each group in one place, and joins the rows (`RearrangingDeals`); what is left
  is where each puts the k-th, which is arithmetic with division (`PlaceExists`, `PlaceIsOne`).
  `FoldLeft` and `FlattenSeq` are recursive functions of the libraries; what they return is
  had from the least index at which it would go wrong.
- `FixtureOutputProofs`: `ProgrammerOverridesEverything`, `NothingIsLeftBehind`, and
  `FramesKeepTheValues`, that a session with frames in it still implements
  `ProgrammerValues`. Both properties are about the end of a frame; what makes them true is
  built up over its phases while users go on calling. `OutputInv` therefore says
  of every channel, in every phase after the programmer's: its values at the two ranks of
  the programmer are what `asked` recorded, and no others (`HasRanks`), and it holds
  nothing but the default if none of those who have had their turn wrote to the fixture
  (`Untouched`). Each writer has a lemma that it keeps both; for the sequences that is
  the fold over their order, for the effects that after a frame only called ones have an
  instance (`EngineFacts`), however the lookups consume the list. `FlushFacts` and
  `NextFrameFacts` bring a channel through fade, master and the next frame's defaults: a
  fade-out that has ended left what was asked for, so the dark is dark. The priorities of
  sequences are those of `sequencer.proto` (`SequencesAssumption`): none reaches the
  programmer's ranks.
- `TimecodeProofs`: `TypeCorrect`, `OnlyPlayingRuns`, `CoursesStayOrdered`,
  `IdsStayFresh`, `ThePastIsKept`, `TracksKeepAllControls` and `UndoAlwaysRestores`.
  The inductive invariant has several parts. The
  manager is of its type, its courses are ordered, what runs plays and no track plays
  from a time to come; so does what is saved and what an entry keeps for its undo, because
  both come back into the manager (`HistoryOK`: undo of a deletion restores courses
  that were ordered when it was made). `FreshOK` puts the ids of entries, done and
  undone, below the counters unless a project was opened over them, and `CountersOK`
  keeps time and counts natural numbers. A lemma per operation of the manager says that it keeps its
  part; each action of `Next` is one step of the proof. The order of a course rests on
  `AddSimpleStep`: what is kept lies before the new step, and a held value gets its end
  between the two. `UndoAlwaysRestores` adds `ReturnInv`: the tracks and controls there are
  now are those the last entry left, and what undoing it leaves is what the entry
  before it left (`HistoryReturns`), through recordings, which change courses only.

- `PipelineProofs`: what the run checks as `TransportsMirrorLinks`, one call at a time and
  for every graph. `EmptyIsInStep` says that a new project is `InStep`, `GraphStepsKeepInStep`
  that whatever commands ask of the graph keeps it so and panics nowhere (`GraphStep`:
  nodes added and copied, links added, replaced and removed, nodes deleted, and a node
  renamed that no link leaves), and `FramesKeepInStep` that a frame panics nowhere and
  that checking the receivers drops nothing that is linked. That inputs mirror links
  is not inductive: a receiver of another type keeps its transport when its link goes
  (`Disconnect`), and a second link into a single input replaces the first, so types
  and single links are part of `InStep`. Links are counted (`Times`): deleting links
  disconnects them one by one, and by induction on how many were (`DisconnectAllFacts`)
  every transport goes exactly as often as its link did; when a deleted node's links are
  disconnected a second time nothing is left to take (`NothingToDisconnect`). The
  hypotheses are what the commands and `flaws` say: a new path is free
  (`NewNodePath`), linked nodes are set to the ports they were listed with (not "retyped"), a
  renamed node is no source (not "renamed").

Only the assumptions on constants in the modules are used: in `Commander` that users
give commands of the catalogue and that bounds are numbers; in `Sequencer` that shows are made of sequences of
cues, that ids and rates are finite sets and times bounded; in
`ProgrammerSession` that selections are sequences of fixtures, that no group holds one twice,
and that values and arguments are in range; in `FixtureOutput` that sequences write values in
range at the priorities they are offered, and that masters are in range; in `Timecode` that levels
and bounds are natural numbers (ids are those up to any `MaxId`). Where a theorem about
`Sequencer` needs more it says so in its `ASSUME`. `IInv` of
`CommanderProofs` also holds in TLC on the instance of `Commander_undo`, and `OutputInv` in all
states of `Fixture_output`; the other inductive
invariants quantify over all sequences or numbers, which TLC cannot.

Only model-checked: the five properties of `ProjectEdits` (its deletions are recursive, and
recursive operators are out of this prover's reach). `PipelineProofs` takes calls on the
graph one at a time; that all commands, with what they keep for their undo, in any order
keep graph and worker in step is what TLC checks of its instance. And everything about
liveness, which no proof here can reach (`EveryRequestIsAnswered` of `Commander`,
`AutomaticCuesAreReached` and `FramesGoOn` of `Sequencer`, `FadesEnd` and
`CalledEffectRuns` of `FixtureOutput`).

## Not modelled

- How addresses follow one another when fixtures are patched (`patch_fixtures.rs:131`,
  u16 arithmetic and recursion) and how channels are laid into DMX buffers
  (`fixture.rs`): functions without state, better tested by examples and properties of
  their own.
- Settings of nodes other than their port type, the order in which nodes run, previews:
  no command and no property of the graph depends on them.
- The pipeline's about hundred kinds of nodes, numeric transformers for the most part;
  the clock and the curves of effects and timecode (real arithmetic).
- The API, the UI bindings and the Flutter UI, which convert and forward; media, vector
  and video (rendering, files); protocols and devices (I/O); logging, the command line,
  settings and session announcements.

## Plan

Next, in this order:

1. `NodeCommands` with deletion by recursive functions instead of operators, then
   `DocumentIsWhole` and, from `GraphStepsKeepInStep`, `TransportsMirrorLinks` as theorems.
2. The nodes of the pipeline that keep state (buttons, delays, step sequencers), each
   against the frames that drive it, and the edges of the sequencer node's inputs.
3. Several projects in one `Commander`, for a log that is replayed over the wrong one,
   and loading a project across all managers, of which one may fail.
