----------------------------- MODULE Commander -----------------------------
(***************************************************************************)
(* Commands on their way from the API threads through the main loop into   *)
(* the document, the undo history and the write-ahead log, with project    *)
(* files, crashes and restarts.                                            *)
(*                                                                         *)
(* API threads block on every request (InMainLoopExecutor::run_in_main_loop*)
(* and Api of the mizer crate), so each has at most one in flight.  The    *)
(* main loop alternates between the project requests (ApiHandler::handle)  *)
(* and the command callbacks (CommandProcessor::pre_process), and empties  *)
(* each queue before it moves on.                                          *)
(***************************************************************************)
EXTENDS CommandHistory, SequenceDocument, SequencesExt

CONSTANTS
  Caller,         \* API threads
  UserCommand,    \* the commands they run
  UserOp,         \* the operations they use, a subset of Op
  AutoApply,      \* settings.general.auto_apply_wal
  DiskFaults,     \* may appending to the log fail half-way?
  MaxRequests,    \* bound on the requests of a behaviour
  MaxCrashes      \* bound on its crashes

CommandOp == {"run", "undo", "redo", "applyWal"}
ProjectOp == {"new", "load", "save", "saveAs"}
Op        == CommandOp \cup ProjectOp

ASSUME UserCommandAssumption == UserCommand \subseteq Command
ASSUME UserOpAssumption == UserOp \subseteq Op
ASSUME FlagsAssumption == AutoApply \in BOOLEAN /\ DiskFaults \in BOOLEAN
ASSUME BoundsAssumption == MaxRequests \in Nat /\ MaxCrashes \in Nat

VARIABLES
  phase,          \* where the main loop is
  projectQueue,   \* <<caller, op>> of the ApiCommand channel
  callbacks,      \* [caller, op, cmd] of the flume channel of InMainLoopExecutor
  unsent,         \* caller -> the callbacks of apply_wal it still has to send
  document,
  projectOpen,    \* Mizer.project_path is Some
  states,         \* CommandExecutor.states: key -> what revert needs
  nextKey,        \* CommandExecutor.command_index_counter
  history,        \* CommandHistory, its entries [cmd, key, before]
  log,            \* mizer.wal: complete lines, and what its end looks like
  file,           \* the project file: [is, content]
  replay,         \* commands apply_log still has to apply at start-up
  requests, crashes

(* History variables: they record what the properties speak of and         *)
(* influence nothing.                                                      *)
VARIABLES
  lost,           \* the document at the last crash
  logExplains,    \* the log alone leads from the file to the document
  orderly         \* only this project's commands changed the document

loopVars    == <<phase, projectQueue, callbacks, unsent>>
sessionVars == <<document, projectOpen, states, nextKey, history>>
diskVars    == <<log, file>>
ghosts      == <<lost, logExplains, orderly>>
vars == <<loopVars, sessionVars, diskVars, replay, requests, crashes, ghosts>>

Phase == {"down", "replay", "project", "commands", "saving", "saved"}
-----------------------------------------------------------------------------
(* The write-ahead log.  A line is written by several write calls, so an   *)
(* append that is cut short leaves a torn line, or a complete line without *)
(* its newline that the next append will run into.  A torn log cannot be   *)
(* read any more.                                                          *)
EmptyLog == [lines |-> <<>>, tail |-> "clean"]

(* For the mutation checks: opens the log without append.                  *)
AppendedOver(l, cmd) == [l EXCEPT !.lines = <<cmd>>]

Appended(l, cmd) ==
  IF l.tail = "clean"
  THEN [l EXCEPT !.lines = Append(@, cmd)]
  ELSE [l EXCEPT !.tail = "torn"]

CutShort(l, cmd) ==
  {[l EXCEPT !.tail = "torn"]}
    \cup IF l.tail = "clean"
         THEN {[lines |-> Append(l.lines, cmd), tail |-> "open"]}
         ELSE {}

Readable(l) == l.tail # "torn"

(* The project file.  BrokenFile has been opened for writing and not been   *)
(* written to the end.                                                     *)
NoFile     == [is |-> "none", content |-> Content(EmptyDocument)]
BrokenFile == [is |-> "broken", content |-> Content(EmptyDocument)]
Saved(d)   == [is |-> "saved", content |-> Content(d)]

(* A counter that loading the saved content would not set back.            *)
Tight(d) == Loaded(Content(d)).counter = d.counter
-----------------------------------------------------------------------------
(* Both queues keep a request until it is answered.                        *)
Idle(t) ==
  /\ unsent[t] = <<>>
  /\ \A i \in DOMAIN callbacks : callbacks[i].caller # t
  /\ \A i \in DOMAIN projectQueue : projectQueue[i][1] # t

Init ==
  /\ phase = "down"
  /\ projectQueue = <<>> /\ callbacks = <<>>
  /\ unsent = [t \in Caller |-> <<>>]
  /\ document = EmptyDocument /\ projectOpen = FALSE
  /\ states = <<>> /\ nextKey = 0 /\ history = EmptyHistory
  /\ log = EmptyLog /\ file = NoFile
  /\ replay = <<>> /\ requests = 0 /\ crashes = 0
  /\ lost = EmptyDocument /\ logExplains = FALSE /\ orderly = TRUE

CallProject(t, op) ==
  /\ projectQueue' = Append(projectQueue, <<t, op>>)
  /\ UNCHANGED <<callbacks, unsent>>

CallCommand(t, op, cmd) ==
  /\ callbacks' = Append(callbacks, [caller |-> t, op |-> op, cmd |-> cmd])
  /\ UNCHANGED <<projectQueue, unsent>>

(* apply_wal reads the log on the API thread, then sends one callback per  *)
(* command and waits for each.                                             *)
CallApplyWal(t) ==
  /\ unsent' = [unsent EXCEPT ![t] = IF Readable(log) THEN log.lines ELSE <<>>]
  /\ UNCHANGED <<projectQueue, callbacks>>

Call(t) ==
  /\ phase # "down" /\ Idle(t) /\ requests < MaxRequests
  /\ requests' = requests + 1
  /\ \/ \E op \in UserOp \cap ProjectOp : CallProject(t, op)
     \/ \E op \in UserOp \cap {"undo", "redo"} :
          CallCommand(t, op, [type |-> "none"])
     \/ "run" \in UserOp /\ \E cmd \in UserCommand : CallCommand(t, "run", cmd)
     \/ "applyWal" \in UserOp /\ CallApplyWal(t)
  /\ UNCHANGED <<phase, sessionVars, diskVars, replay, crashes, ghosts>>

SendNext(t) ==
  /\ unsent[t] # <<>>
  /\ \A i \in DOMAIN callbacks : callbacks[i].caller # t
  /\ callbacks' = Append(callbacks,
                    [caller |-> t, op |-> "apply", cmd |-> Head(unsent[t])])
  /\ unsent' = [unsent EXCEPT ![t] = Tail(@)]
  /\ UNCHANGED <<phase, projectQueue, sessionVars, diskVars, replay,
                 requests, crashes, ghosts>>
-----------------------------------------------------------------------------
(* Answering the callback at the head of the queue.                        *)
(* For the mutation checks: an error never reaches the caller.             *)
AnswerSuccess(ok) ==
  /\ callbacks' = IF ok THEN Tail(callbacks) ELSE callbacks
  /\ UNCHANGED <<phase, projectQueue, unsent>>

Answer(ok) ==
  /\ callbacks' = Tail(callbacks)
  /\ unsent' = IF ok THEN unsent
               ELSE [unsent EXCEPT ![Head(callbacks).caller] = <<>>]
  /\ UNCHANGED <<phase, projectQueue>>

Handling(op) ==
  phase = "commands" /\ callbacks # <<>> /\ Head(callbacks).op = op

(* For the mutation checks: reads the key counter and does not advance it. *)
ExecuteReusingKey(cmd, r) ==
  /\ document' = r.doc
  /\ states' = With(states, nextKey, r.state)
  /\ history' = Push(history, [cmd |-> cmd, key |-> nextKey,
                               before |-> Content(document)])
  /\ UNCHANGED <<nextKey, projectOpen>>

(* CommandExecutor::apply without a key, then CommandHistory::add_entry.   *)
Execute(cmd, r) ==
  /\ document' = r.doc
  /\ states' = With(states, nextKey, r.state)
  /\ nextKey' = nextKey + 1
  /\ history' = Push(history, [cmd |-> cmd, key |-> nextKey,
                               before |-> Content(document)])
  /\ UNCHANGED projectOpen

(* CommandExecutor::apply that returns early: nothing is recorded, but the *)
(* command may have changed the document.                                  *)
ExecuteFails(r) ==
  /\ document' = r.doc
  /\ UNCHANGED <<states, nextKey, history, projectOpen>>
  /\ orderly' = (orderly /\ r.doc = document)
  /\ logExplains' = (logExplains /\ r.doc = document)

(* run_command: apply, append to the log, record in the history.  A failed *)
(* append is logged and otherwise ignored.                                 *)
Run ==
  /\ Handling("run")
  /\ LET cmd == Head(callbacks).cmd
         r   == Apply(cmd, document)
     IN  /\ r.ok
         /\ Execute(cmd, r)
         /\ \/ /\ log' = Appended(log, cmd)
               /\ logExplains' = (logExplains /\ log.tail = "clean")
            \/ /\ DiskFaults
               /\ log' \in {log} \cup CutShort(log, cmd)
               /\ logExplains' = FALSE
  /\ Answer(TRUE)
  /\ UNCHANGED <<file, replay, requests, crashes, lost, orderly>>

(* The callback of apply_wal: as run_command, but nothing is logged.       *)
ApplyLogged ==
  /\ Handling("apply")
  /\ LET cmd == Head(callbacks).cmd
         r   == Apply(cmd, document)
     IN  /\ r.ok
         /\ Execute(cmd, r)
  /\ Answer(TRUE)
  /\ logExplains' = FALSE
  /\ UNCHANGED <<diskVars, replay, requests, crashes, lost, orderly>>

Refuse ==
  /\ Handling("run") \/ Handling("apply")
  /\ LET r == Apply(Head(callbacks).cmd, document)
     IN  ~r.ok /\ ExecuteFails(r)
  /\ Answer(FALSE)
  /\ UNCHANGED <<diskVars, replay, requests, crashes, lost>>
-----------------------------------------------------------------------------
Reverted ==
  LET e == Current(history) IN Revert(e.cmd, document, states[e.key])

(* Nothing to undo: no entry under the cursor, which still moves.          *)
UndoNothing ==
  /\ Handling("undo") /\ ~HasCurrent(history)
  /\ history' = Back(history)
  /\ Answer(TRUE)
  /\ UNCHANGED <<document, projectOpen, states, nextKey, diskVars, replay,
                 requests, crashes, ghosts>>

(* The cursor has moved before the executor finds no state for the key.    *)
UndoWithoutState ==
  /\ Handling("undo") /\ HasCurrent(history)
  /\ Current(history).key \notin DOMAIN states
  /\ history' = Back(history)
  /\ Answer(FALSE)
  /\ UNCHANGED <<document, projectOpen, states, nextKey, diskVars, replay,
                 requests, crashes, ghosts>>

(* The state is taken out of the map before the command's revert runs, so  *)
(* it is gone even when that fails.                                        *)
Undo ==
  /\ Handling("undo") /\ HasCurrent(history)
  /\ Current(history).key \in DOMAIN states
  /\ history' = Back(history)
  /\ states' = Without(states, Current(history).key)
  /\ document' = Reverted.doc
  /\ Answer(Reverted.ok)
  /\ logExplains' = (logExplains /\ document' = document)
  /\ UNCHANGED <<projectOpen, nextKey, diskVars, replay, requests, crashes,
                 lost, orderly>>

RedoNothing ==
  /\ Handling("redo") /\ ~HasCurrent(Forward(history))
  /\ history' = Forward(history)
  /\ Answer(TRUE)
  /\ UNCHANGED <<document, projectOpen, states, nextKey, diskVars, replay,
                 requests, crashes, ghosts>>

(* CommandExecutor::apply with the entry's own key.  Nothing is logged.    *)
Redo ==
  /\ Handling("redo") /\ HasCurrent(Forward(history))
  /\ LET h == Forward(history)
         e == Current(h)
         r == Apply(e.cmd, document)
     IN  /\ r.ok
         /\ history' = [h EXCEPT !.commands[h.cursor + 1].before =
                                   Content(document)]
         /\ document' = r.doc
         /\ states' = With(states, e.key, r.state)
  /\ Answer(TRUE)
  /\ logExplains' = FALSE
  /\ UNCHANGED <<projectOpen, nextKey, diskVars, replay, requests, crashes,
                 lost, orderly>>

RedoFails ==
  /\ Handling("redo") /\ HasCurrent(Forward(history))
  /\ LET r == Apply(Current(Forward(history)).cmd, document)
     IN  /\ ~r.ok
         /\ document' = r.doc
         /\ orderly' = (orderly /\ r.doc = document)
         /\ logExplains' = (logExplains /\ r.doc = document)
  /\ history' = Forward(history)
  /\ Answer(FALSE)
  /\ UNCHANGED <<projectOpen, states, nextKey, diskVars, replay, requests,
                 crashes, lost>>
-----------------------------------------------------------------------------
(* Project requests, handled between two frames.                           *)
HandlingProject(op) ==
  /\ phase = "project" /\ projectQueue # <<>>
  /\ Head(projectQueue)[2] = op

AnswerProject == projectQueue' = Tail(projectQueue)

(* new_project closes the project and drops the log.  The undo history and *)
(* the states of the executor belong to no project and stay.               *)
NewProject ==
  /\ HandlingProject("new")
  /\ document' = EmptyDocument /\ projectOpen' = FALSE
  /\ log' = EmptyLog /\ logExplains' = FALSE
  /\ orderly' = (orderly /\ history.commands = <<>>)
  /\ AnswerProject
  /\ UNCHANGED <<phase, callbacks, unsent, states, nextKey, history, file,
                 replay, requests, crashes, lost>>

(* load_project_from closes the project and sets the path before it knows  *)
(* whether the file can be read.  The log is not dropped.                  *)
LoadProject ==
  /\ HandlingProject("load")
  /\ projectOpen' = TRUE
  /\ IF file.is # "saved"
     THEN document' = EmptyDocument /\ logExplains' = FALSE
     ELSE document' = Loaded(file.content) /\ logExplains' = (log = EmptyLog)
  /\ orderly' = (orderly /\ history.commands = <<>>)
  /\ AnswerProject
  /\ UNCHANGED <<phase, callbacks, unsent, states, nextKey, history, diskVars,
                 replay, requests, crashes, lost>>

SaveNothing ==
  /\ HandlingProject("save") /\ ~projectOpen
  /\ AnswerProject
  /\ UNCHANGED <<phase, callbacks, unsent, sessionVars, diskVars, replay,
                 requests, crashes, ghosts>>

(* Project::save_file: File::create empties the file, then it is written.  *)
BeginSave ==
  /\ HandlingProject("saveAs") \/ (HandlingProject("save") /\ projectOpen)
  /\ phase' = "saving" /\ projectOpen' = TRUE
  /\ file' = BrokenFile /\ logExplains' = FALSE
  /\ UNCHANGED <<projectQueue, callbacks, unsent, document, states, nextKey,
                 history, log, replay, requests, crashes, lost, orderly>>

FinishSave ==
  /\ phase = "saving"
  /\ phase' = "saved" /\ file' = Saved(document)
  /\ logExplains' = (log = EmptyLog /\ Tight(document))
  /\ UNCHANGED <<projectQueue, callbacks, unsent, sessionVars, log, replay,
                 requests, crashes, lost, orderly>>

(* For the mutation checks: the event processors run all the same.         *)
SaveFailsTruncating ==
  /\ phase = "saving" /\ DiskFaults
  /\ phase' = "project" /\ AnswerProject /\ log' = EmptyLog
  /\ UNCHANGED <<callbacks, unsent, sessionVars, file, replay, requests,
                 crashes, ghosts>>

(* The write fails: save_project returns before the event processors run.  *)
SaveFails ==
  /\ phase = "saving" /\ DiskFaults
  /\ phase' = "project" /\ AnswerProject
  /\ UNCHANGED <<callbacks, unsent, sessionVars, diskVars, replay, requests,
                 crashes, ghosts>>

(* WriteAheadLogProcessor::save_project, once the file is written.         *)
TruncateLog ==
  /\ phase = "saved"
  /\ phase' = "project" /\ AnswerProject
  /\ log' = EmptyLog /\ logExplains' = Tight(document)
  /\ UNCHANGED <<callbacks, unsent, sessionVars, file, replay, requests,
                 crashes, lost, orderly>>

EndProject ==
  /\ phase = "project" /\ projectQueue = <<>> /\ phase' = "commands"
  /\ UNCHANGED <<projectQueue, callbacks, unsent, sessionVars, diskVars,
                 replay, requests, crashes, ghosts>>

EndFrame ==
  /\ phase = "commands" /\ callbacks = <<>> /\ phase' = "project"
  /\ UNCHANGED <<projectQueue, callbacks, unsent, sessionVars, diskVars,
                 replay, requests, crashes, ghosts>>
-----------------------------------------------------------------------------
(* The process dies, and with it the API threads and everything in memory. *)
Die ==
  /\ phase # "down" /\ crashes < MaxCrashes
  /\ crashes' = crashes + 1
  /\ phase' = "down"
  /\ projectQueue' = <<>> /\ callbacks' = <<>>
  /\ unsent' = [t \in Caller |-> <<>>]
  /\ document' = EmptyDocument /\ projectOpen' = FALSE
  /\ states' = <<>> /\ nextKey' = 0 /\ history' = EmptyHistory
  /\ replay' = <<>> /\ orderly' = TRUE
  /\ UNCHANGED <<file, requests>>

(* A crash while the log is replayed leaves it to the next start.          *)
Crash ==
  /\ Die
  /\ lost' = IF phase = "replay" THEN lost ELSE document
  /\ UNCHANGED <<log, logExplains>>

CrashInAppend ==
  /\ Handling("run")
  /\ LET cmd == Head(callbacks).cmd
         r   == Apply(cmd, document)
     IN  /\ r.ok
         /\ log' \in CutShort(log, cmd)
         /\ lost' = IF log'.tail = "open" THEN r.doc ELSE document
         /\ logExplains' = (logExplains /\ log'.tail = "open")
  /\ Die

(* open_project without a file is new_project, which drops the log before  *)
(* anything could be applied from it.                                      *)
StartNew ==
  /\ phase = "down" /\ phase' = "project"
  /\ log' = EmptyLog /\ logExplains' = FALSE
  /\ UNCHANGED <<projectQueue, callbacks, unsent, sessionVars, file, replay,
                 requests, crashes, lost, orderly>>

(* open_project with a file, then WriteAheadLog::apply_log if the settings *)
(* ask for it.  A last project that cannot be read is reported and its     *)
(* path stays open over an empty document.                                 *)
StartWithFile ==
  /\ phase = "down" /\ file # NoFile
  /\ projectOpen' = TRUE
  /\ document' = IF file.is = "saved" THEN Loaded(file.content) ELSE EmptyDocument
  /\ IF AutoApply
     THEN /\ phase' = "replay"
          /\ replay' = IF Readable(log) THEN log.lines ELSE <<>>
          /\ UNCHANGED logExplains
     ELSE /\ phase' = "project"
          /\ logExplains' = (log = EmptyLog /\ file.is = "saved")
          /\ UNCHANGED replay
  /\ UNCHANGED <<projectQueue, callbacks, unsent, states, nextKey, history,
                 diskVars, requests, crashes, lost, orderly>>

ReplayNext ==
  /\ phase = "replay" /\ replay # <<>>
  /\ LET r == Apply(Head(replay), document)
     IN  /\ r.ok
         /\ Execute(Head(replay), r)
  /\ replay' = Tail(replay)
  /\ UNCHANGED <<loopVars, diskVars, requests, crashes, ghosts>>

(* The first command that fails ends the replay.                           *)
ReplayFails ==
  /\ phase = "replay" /\ replay # <<>>
  /\ LET r == Apply(Head(replay), document)
     IN  /\ ~r.ok
         /\ document' = r.doc
         /\ orderly' = (orderly /\ r.doc = document)
  /\ replay' = <<>>
  /\ UNCHANGED <<loopVars, projectOpen, states, nextKey, history, diskVars,
                 requests, crashes, lost, logExplains>>

EndReplay ==
  /\ phase = "replay" /\ replay = <<>> /\ phase' = "project"
  /\ UNCHANGED <<projectQueue, callbacks, unsent, sessionVars, diskVars,
                 replay, requests, crashes, ghosts>>
-----------------------------------------------------------------------------
HandleCallback ==
  \/ Run \/ ApplyLogged \/ Refuse
  \/ UndoNothing \/ UndoWithoutState \/ Undo
  \/ RedoNothing \/ Redo \/ RedoFails

HandleProject ==
  \/ NewProject \/ LoadProject \/ SaveNothing
  \/ BeginSave \/ FinishSave \/ SaveFails \/ TruncateLog

MainLoop == HandleCallback \/ HandleProject \/ EndProject \/ EndFrame
Startup  == StartNew \/ StartWithFile \/ ReplayNext \/ ReplayFails \/ EndReplay

Next ==
  \/ \E t \in Caller : Call(t) \/ SendNext(t)
  \/ MainLoop \/ Startup
  \/ Crash \/ CrashInAppend

(* The main loop runs for as long as the process lives, replaying the log  *)
(* ends, and a thread inside apply_wal goes on sending.  Nobody has to     *)
(* issue requests, to crash or to start the program again.                 *)
Fairness ==
  /\ WF_vars(MainLoop)
  /\ WF_vars(ReplayNext \/ ReplayFails \/ EndReplay)
  /\ \A t \in Caller : WF_vars(SendNext(t))

Spec == Init /\ [][Next]_vars /\ Fairness
-----------------------------------------------------------------------------
TypeOK ==
  /\ phase \in Phase
  /\ projectQueue \in Seq(Caller \X ProjectOp)
  /\ \A i \in DOMAIN callbacks :
       /\ callbacks[i].caller \in Caller
       /\ callbacks[i].op \in {"run", "apply", "undo", "redo"}
       /\ callbacks[i].op \in {"run", "apply"} => callbacks[i].cmd \in Command
  /\ unsent \in [Caller -> Seq(Command)]
  /\ IsDocument(document) /\ IsDocument(lost)
  /\ projectOpen \in BOOLEAN
  /\ nextKey \in Nat /\ DOMAIN states \subseteq 0 .. nextKey - 1
  /\ \A i \in DOMAIN history.commands :
       /\ history.commands[i].cmd \in Command
       /\ history.commands[i].key \in 0 .. nextKey - 1
  /\ history.cursor \in None .. Len(history.commands) + 1
  /\ log.lines \in Seq(Command) /\ log.tail \in {"clean", "open", "torn"}
  /\ file.is \in {"none", "broken", "saved"} /\ IsDocument(Loaded(file.content))
  /\ replay \in Seq(Command)
  /\ requests \in Nat /\ crashes \in Nat
  /\ logExplains \in BOOLEAN /\ orderly \in BOOLEAN

(* Two entries of the history never share a key: reverting one cannot use  *)
(* up the state of another (CommandExecutor::next_command_key).            *)
KeysAreUnique ==
  \A i, j \in DOMAIN history.commands :
    history.commands[i].key = history.commands[j].key => i = j

(* A state is kept only for an entry at or below the cursor.  Undone       *)
(* entries that a later command drops from the history leave no state      *)
(* behind, and redo never overwrites the state of a command in effect.     *)
StatesBelongToEntriesInEffect ==
  \A k \in DOMAIN states :
    \E i \in DOMAIN history.commands :
      i <= Index(history) /\ history.commands[i].key = k

(* Undo succeeds and brings back exactly the content the command found     *)
(* when it was last run, however often commands were undone, redone and    *)
(* failed in between.  orderly excludes documents changed behind the       *)
(* history's back: by a command that failed half-way, or by opening        *)
(* another project under the same history.                                 *)
UndoRestores ==
  [][Undo /\ orderly =>
       Reverted.ok /\ Content(document') = Current(history).before]_vars

(* Once the log is replayed after a crash the document is what it was, as  *)
(* long as the log had explained it: no undo, redo, load or failed write   *)
(* since the log was dropped, and no id counter that loading would reset.  *)
(* Crashes during the replay itself do no harm.                            *)
RecoveryRestores ==
  phase = "replay" /\ replay = <<>> /\ logExplains =>
    Content(document) = Content(lost)

(* runtime_builder.rs announces "Applied unsaved change from last          *)
(* session".  Replaying a readable log over a readable file then has to    *)
(* bring back what was not saved, whatever was done in the session.         *)
ReplayRestoresUnsavedChanges ==
  /\ phase = "replay" /\ replay = <<>>
  /\ log.lines # <<>> /\ Readable(log)
  /\ file.is = "saved" /\ Content(lost) # file.content
  => Content(document) = Content(lost)

(* Lines of the log are dropped only when the project file holds the       *)
(* document they led to, when the user asks for a new project, or at a     *)
(* start without a project.                                                *)
LogIsKeptUntilSaved ==
  [][log.lines # <<>> /\ log'.lines = <<>> =>
       \/ file' = Saved(document')
       \/ NewProject
       \/ StartNew]_vars

(* Every call of an API thread returns: its request is handled, whatever   *)
(* the commands before it in the queue do, or the process dies.            *)
EveryRequestIsAnswered == \A t \in Caller : ~Idle(t) ~> Idle(t)
=============================================================================
