----------------------------- MODULE Sequencer -----------------------------
(***************************************************************************)
(* The sequencer (sequencer.rs): sequences, the states they are played in, *)
(* the order they were started in, and the bounded queue through which     *)
(* commands and pipeline nodes talk to it.                                 *)
(*                                                                         *)
(* Everything runs on the main loop, in this order in every frame: the     *)
(* commands of the users (edit), SequenceProcessor::process, which empties *)
(* the queue (drain) and then plays the active sequences, and the pipeline *)
(* nodes (nodes), one of which controls each sequence.  A send to a full   *)
(* queue therefore waits for the very thread that would empty it.          *)
(***************************************************************************)
EXTENDS SequencePlayback, SequencesExt

CONSTANTS
  Sequence,       \* the sequences of the project, with their cues
  NewCue,         \* what storing the programmer adds
  Rate,           \* values of the rate input of a node
  UserOp,         \* what the users do, a subset of Op
  QueueSize,      \* capacity of the command channel
  MaxCommands     \* bound on what the users do in a behaviour

SequenceId == DOMAIN Sequence

Op == {"GoForward", "GoBackward", "GoTo", "Stop", "Toggle", "Rate",
       "Store", "Unstore", "Delete", "Restore", "Close", "Load"}

Trigger == {"Go", "Follow", "Time"}

IsCue(cue) ==
  /\ cue.trigger \in Trigger /\ cue.after \in 0 .. MaxTime
  /\ \A timing \in {cue.delay, cue.fade} :
       timing = NoTiming \/ timing \in [cue.channels -> 0 .. MaxTime]

IsSequence(seq) ==
  /\ seq \in [cues : Seq(Range(seq.cues)), wrap : BOOLEAN, stopOnLast : BOOLEAN]
  /\ \A cue \in Range(seq.cues) : IsCue(cue)

ASSUME SequenceAssumption ==
  IsFiniteSet(SequenceId) /\ \A id \in SequenceId : IsSequence(Sequence[id])
ASSUME UserAssumption == UserOp \subseteq Op /\ IsCue(NewCue)
ASSUME RateAssumption == Rate \subseteq Nat /\ IsFiniteSet(Rate)
ASSUME SizeAssumption == QueueSize \in Nat /\ MaxCommands \in Nat

VARIABLES
  phase,        \* where the main loop is, "dead" after a panic, "stuck" in a send
  queue,        \* the channel of SequencerCommands
  sequences,    \* id -> sequence
  states,       \* id -> SequenceState
  order,        \* sequence_order, ids in the order they were started
  live,         \* EffectEngine.instances
  view,         \* id -> was it active when the views were last updated?
  port,         \* id -> what the rate input of its node reads
  commands      \* how much the users did

(* History variables.                                                      *)
VARIABLES
  age,          \* id -> frames since the sequence entered its cue
  written       \* id -> the channels it wrote in the last frame

vars == <<phase, queue, sequences, states, order, live, view, port, commands,
          age, written>>

Phase == {"edit", "drain", "nodes", "dead", "stuck"}

Init ==
  /\ phase = "edit" /\ queue = <<>>
  /\ sequences = Sequence /\ states = <<>> /\ order = <<>> /\ live = {}
  /\ view = [id \in SequenceId |-> FALSE]
  /\ port = [id \in SequenceId |-> 1]
  /\ commands = 0
  /\ age = [id \in SequenceId |-> 0]
  /\ written = [id \in SequenceId |-> {}]

With(f, x, y) == [z \in DOMAIN f \cup {x} |-> IF z = x THEN y ELSE f[z]]
Without(f, x) == Restrict(f, DOMAIN f \ {x})
-----------------------------------------------------------------------------
(* The users, between two frames.                                          *)
Using(op) ==
  /\ phase = "edit" /\ op \in UserOp /\ commands < MaxCommands
  /\ commands' = commands + 1
  /\ UNCHANGED <<age, written>>

(* SyncSender::send on the main loop, by the users or by the nodes, both   *)
(* of which the next edits follow.                                         *)
Enqueue(msgs) ==
  IF Len(queue) + Len(msgs) <= QueueSize
  THEN queue' = queue \o msgs /\ phase' = "edit"
  ELSE phase' = "stuck" /\ UNCHANGED queue

Send(op, id) ==
  /\ op \in {"GoForward", "GoBackward", "Stop"} /\ Using(op)
  /\ Enqueue(<<[type |-> op, id |-> id]>>)
  /\ UNCHANGED <<sequences, states, order, live, view, port>>

SendGoTo(id, cue) ==
  /\ Using("GoTo")
  /\ Enqueue(<<[type |-> "GoTo", id |-> id, cue |-> cue]>>)
  /\ UNCHANGED <<sequences, states, order, live, view, port>>

(* The toggle input of a node decides by the view, which knows nothing of  *)
(* the commands still in the queue.                                        *)
Toggle(id) ==
  /\ Using("Toggle") /\ id \in DOMAIN view
  /\ Enqueue(<<[type |-> IF view[id] THEN "Stop" ELSE "GoForward", id |-> id]>>)
  /\ UNCHANGED <<sequences, states, order, live, view, port>>

SetPort(id, rate) ==
  /\ Using("Rate") /\ port[id] # rate
  /\ port' = [port EXCEPT ![id] = rate]
  /\ UNCHANGED <<phase, queue, sequences, states, order, live, view>>

(* StoreProgrammerInSequence adds a cue, and undoing it takes it away from *)
(* a sequence that may be playing it.                                      *)
Store(id) ==
  /\ Using("Store") /\ id \in DOMAIN sequences
  /\ sequences' = [sequences EXCEPT ![id].cues = Append(@, NewCue)]
  /\ UNCHANGED <<phase, queue, states, order, live, view, port>>

Unstore(id) ==
  /\ Using("Unstore") /\ id \in DOMAIN sequences
  /\ Cues(sequences[id]) > 1
  /\ sequences' = [sequences EXCEPT ![id].cues = Front(@)]
  /\ UNCHANGED <<phase, queue, states, order, live, view, port>>

(* The sequence is gone at once, its state when the queue is drained.      *)
Delete(id) ==
  /\ Using("Delete") /\ id \in DOMAIN sequences
  /\ sequences' = Without(sequences, id)
  /\ Enqueue(<<[type |-> "DropState", id |-> id]>>)
  /\ UNCHANGED <<states, order, live, view, port>>

Restore(id) ==
  /\ Using("Restore") /\ id \notin DOMAIN sequences
  /\ sequences' = With(sequences, id, Sequence[id])
  /\ view' = With(view, id, FALSE)
  /\ UNCHANGED <<phase, queue, states, order, live, port>>

(* Sequencer::clear and EffectEngine::clear leave the queue alone.         *)
Close ==
  /\ Using("Close")
  /\ sequences' = <<>> /\ states' = <<>> /\ order' = <<>>
  /\ live' = {} /\ view' = <<>>
  /\ UNCHANGED <<phase, queue, port>>

Load ==
  /\ Using("Load") /\ sequences = <<>> /\ states = <<>>
  /\ sequences' = Sequence
  /\ view' = [id \in SequenceId |-> FALSE]
  /\ UNCHANGED <<phase, queue, states, order, live, port>>

StartFrame ==
  /\ phase = "edit" /\ phase' = "drain"
  /\ UNCHANGED <<queue, sequences, states, order, live, view, port, commands,
                 age, written>>
-----------------------------------------------------------------------------
StateOf(id) == IF id \in DOMAIN states THEN states[id] ELSE InitialState

Playback(id) ==
  [st |-> StateOf(id), live |-> {i \in live : i.sequence = id}, ok |-> TRUE]

(* The effect instances after sequence id went from its playback to p.     *)
LiveAfter(id, p) == (live \ Playback(id).live) \cup p.live

(* For the mutation checks: an order that grows at its front, and one that *)
(* keeps what was stopped.                                                 *)
InsertedFirst(s, id) == IF id \in Range(s) THEN s ELSE <<id>> \o s
ReorderedNever(id, was, is) ==
  IF is /\ ~was /\ id \notin Range(order) THEN Append(order, id) ELSE order

(* IndexSet::insert leaves a member where it is; shift_remove closes up.   *)
Inserted(s, id) == IF id \in Range(s) THEN s ELSE Append(s, id)
Removed(s, id)  ==
  IF id \in Range(s) THEN RemoveAt(s, CHOOSE i \in DOMAIN s : s[i] = id) ELSE s

Reordered(id, was, is) ==
  IF ~is THEN Removed(order, id)
  ELSE IF ~was THEN Inserted(order, id)
  ELSE order

Receiving(type) ==
  phase = "drain" /\ queue # <<>> /\ Head(queue).type = type

Received == queue' = Tail(queue)

(* Giving a sequence state p and taking it into or out of the order; a     *)
(* panic takes the whole program down.                                     *)
Settle(id, p) ==
  /\ states' = With(states, id, p.st)
  /\ live' = LiveAfter(id, p)
  /\ phase' = IF p.ok THEN phase ELSE "dead"
  /\ UNCHANGED <<sequences, view, port, commands, written>>

Reentered(id) == age' = [age EXCEPT ![id] = 0]

(* A command for a sequence that does not exist creates its state.         *)
HandleUnknown ==
  /\ \E type \in {"GoForward", "GoBackward", "GoTo"} : Receiving(type)
  /\ LET id == Head(queue).id
     IN  /\ id \notin DOMAIN sequences
         /\ Settle(id, Playback(id))
  /\ Received
  /\ UNCHANGED <<order, age>>

HandleGo ==
  \E op \in {"GoForward", "GoBackward", "GoTo"} :
    /\ Receiving(op)
    /\ LET id  == Head(queue).id
           seq == sequences[id]
           was == Playback(id)
           is  == CASE op = "GoForward"  -> Go(seq, was)
                    [] op = "GoBackward" -> GoBackward(seq, was)
                    [] op = "GoTo"       -> GoTo(seq, was, Head(queue).cue)
       IN  /\ id \in DOMAIN sequences
           /\ Settle(id, is)
           /\ order' = Reordered(id, was.st.active, is.st.active)
           /\ IF is = was THEN UNCHANGED age ELSE Reentered(id)
    /\ Received

HandleStop ==
  /\ Receiving("Stop")
  /\ LET id == Head(queue).id
     IN  /\ Settle(id, IF id \in DOMAIN sequences
                       THEN Stop(sequences[id], Playback(id))
                       ELSE Playback(id))
         /\ order' = Removed(order, id)
  /\ Received
  /\ UNCHANGED age

(* The node of a sequence sends its rate in every frame.                   *)
HandleSetRate ==
  /\ Receiving("SetRate")
  /\ LET id == Head(queue).id
     IN  states' = IF id \in DOMAIN states
                   THEN [states EXCEPT ![id].rate = Head(queue).rate]
                   ELSE states
  /\ Received
  /\ UNCHANGED <<phase, sequences, order, live, view, port, commands, age,
                 written>>

(* Effects are only stopped if the sequence exists again by now.           *)
HandleDropState ==
  /\ Receiving("DropState")
  /\ LET id == Head(queue).id
         p  == IF id \in DOMAIN sequences
               THEN Stop(sequences[id], Playback(id))
               ELSE Playback(id)
     IN  /\ states' = Without(states, id)
         /\ live' = LiveAfter(id, p)
         /\ phase' = IF p.ok THEN phase ELSE "dead"
         /\ order' = Removed(order, id)
  /\ Received
  /\ UNCHANGED <<sequences, view, port, commands, age, written>>
-----------------------------------------------------------------------------
Playing == Range(order) \cap DOMAIN sequences

(* handle_sequences runs what is in the order, update_views publishes.     *)
(* Sequences do not see each other, so their order matters only for whose  *)
(* value wins in the fixtures.                                             *)
RunSequences ==
  /\ phase = "drain" /\ queue = <<>>
  /\ LET ran == [id \in Playing |-> Run(id, sequences[id], Playback(id))]
     IN  /\ states' = [id \in DOMAIN states \cup Playing |->
                         IF id \in Playing THEN ran[id].st ELSE states[id]]
         /\ live' = UNION ({ran[id].live : id \in Playing}
                           \cup {{i \in live : i.sequence \notin Playing}})
         /\ phase' = IF \A id \in Playing : ran[id].ok
                     THEN "nodes" ELSE "dead"
         /\ view' = [id \in DOMAIN view \cup (DOMAIN states' \cap DOMAIN sequences) |->
                       IF id \in DOMAIN states' \cap DOMAIN sequences
                       THEN states'[id].active ELSE view[id]]
         /\ age' = [id \in SequenceId |->
                      IF id \in Playing /\ ran[id].st.goAt = "now"
                      THEN 0 ELSE age[id]]
  /\ written' = [id \in SequenceId |->
                   IF id \in Playing THEN Writes(sequences[id], Playback(id))
                   ELSE {}]
  /\ UNCHANGED <<queue, sequences, order, port, commands>>

(* The node of every sequence sends its rate, and the time until the next  *)
(* frame passes.                                                           *)
RateMessages ==
  LET ids == SetToSeq(DOMAIN sequences)
  IN  [i \in DOMAIN ids |->
         [type |-> "SetRate", id |-> ids[i], rate |-> port[ids[i]]]]

ProcessNodes ==
  /\ phase = "nodes"
  /\ Enqueue(RateMessages)
  /\ states' = [id \in DOMAIN states |-> Later(states[id])]
  /\ age' = [id \in SequenceId |-> Capped(age[id] + 1)]
  /\ UNCHANGED <<sequences, order, live, view, port, commands, written>>
-----------------------------------------------------------------------------
User ==
  \/ \E id \in SequenceId :
       \/ \E op \in {"GoForward", "GoBackward", "Stop"} : Send(op, id)
       \/ \E cue \in DOMAIN Sequence[id].cues : SendGoTo(id, cue)
       \/ Toggle(id)
       \/ \E rate \in Rate : SetPort(id, rate)
       \/ Store(id) \/ Unstore(id) \/ Delete(id) \/ Restore(id)
  \/ Close \/ Load

Handle ==
  HandleUnknown \/ HandleGo \/ HandleStop \/ HandleSetRate \/ HandleDropState

Frame == StartFrame \/ Handle \/ RunSequences \/ ProcessNodes

Next == User \/ Frame

(* The main loop never stops by itself.  This is WF_vars(Frame) with its    *)
(* ENABLED written out, which costs TLC more than all the rest: a step of  *)
(* the frame is possible unless the program is dead or stuck.              *)
Halted == phase \in {"dead", "stuck"}

Spec == Init /\ [][Next]_vars /\ ([]<><<Frame>>_vars \/ <>[]Halted)
-----------------------------------------------------------------------------
TypeOK ==
  /\ phase \in Phase /\ commands \in 0 .. MaxCommands
  /\ Len(queue) <= QueueSize
  /\ DOMAIN sequences \subseteq SequenceId /\ DOMAIN view \subseteq SequenceId
  /\ \A id \in DOMAIN states :
       LET st == states[id]
       IN  /\ st.active \in BOOLEAN /\ st.cue \in Nat /\ st.rate \in Rate \cup {1}
           /\ {st.goAt, st.finishedAt} \subseteq Pending
           /\ {st.sinceGo.time, st.sinceFinished.time} \subseteq 0 .. MaxTime
           /\ \A c \in DOMAIN st.channels :
                st.channels[c].is \in {"Delay", "Fading", "Active"}
  /\ port \in [SequenceId -> Rate \cup {1}]
  /\ age \in [SequenceId -> 0 .. MaxTime]

IsActive(id) == id \in DOMAIN states /\ states[id].active
Active       == {id \in DOMAIN states : states[id].active}

(* Sequences that stopped by themselves: only commands take a sequence out *)
(* of the order, the automatic stop of run() does not.                     *)
Lingering == Range(order) \ Active

(* What is run is what says it is active, each sequence once, but for the  *)
(* sequences that stopped by themselves: they stay in the order, at their  *)
(* first cue and with its effects, until a command stops them              *)
(* (handle_commands keeps sequence_order by comparing active before and    *)
(* after a command, so a sequence that a command stopped is not in it).    *)
(* Holds as long as no sequence is deleted and no cue taken away.          *)
OrderHoldsTheActive ==
  /\ IsInjective(order) /\ Active \subseteq Range(order)
  /\ \A id \in Lingering :
       /\ id \in DOMAIN sequences /\ sequences[id].stopOnLast
       /\ states[id].cue = 0
       /\ DOMAIN states[id].effects = CueAt(sequences[id], 0).effects

(* Sequences write in the order they were started in, so the one started   *)
(* last wins over the others: a sequence that becomes active is put after  *)
(* all others, whatever was stopped or restarted before, and they stay as  *)
(* they are.  One exception: a sequence that had stopped by itself is      *)
(* still in the order (sequencer.rs:178) and takes up its old place.       *)
OrderFollowsStarts ==
  [][\A id \in SequenceId :
       ~IsActive(id) /\ IsActive(id)' =>
         order' = IF id \in Lingering THEN order ELSE Append(order, id)]_vars

(* The effect engine runs exactly the instances that the sequences hold:   *)
(* no instance outlives the cue that started it, and none is lost while    *)
(* its cue is played.  A sequence that stops by itself is left with the    *)
(* effects of its first cue, which run() starts after the stop             *)
(* (sequence.rs:75), until it is started or stopped by a command.  Holds   *)
(* as long as no sequence is deleted and no cue taken away.                *)
EffectsFollowCues ==
  /\ live = UNION {Range(states[id].effects) : id \in Range(order)}
  /\ phase = "nodes" =>
       \A id \in Range(order) :
         DOMAIN states[id].effects = CueAt(sequences[id], states[id].cue).effects

(* A sequence that a command stopped is silent: it writes nothing, holds   *)
(* no values and runs no effects.  "Auto stop after last cue"              *)
(* (sequence.rs:25) is less than that: in the very frame in which it stops *)
(* the sequence writes its first cue, and it keeps those values and the    *)
(* effects of that cue (EffectsFollowCues).  In later frames it writes     *)
(* nothing any more.                                                       *)
StoppedIsSilent ==
  phase = "nodes" =>
    \A id \in DOMAIN states \ Active :
      /\ id \notin Lingering =>
           written[id] = {} /\ states[id].effects = <<>> /\ states[id].values = {}
      /\ id \in Lingering =>
           /\ written[id] # {} => states[id].goAt = "now"
           /\ written[id] \cup states[id].values \subseteq CueAt(sequences[id], 0).channels

FastestRate == CHOOSE r \in Rate \cup {1} : \A q \in Rate \cup {1} : r >= q

(* A channel is written no earlier than its delay after the cue was        *)
(* entered (the tests sequence_with_delay_should_not_write_values of       *)
(* lib.rs), however the rate was changed in between.                       *)
DelaysAreKept ==
  phase = "nodes" =>
    \A id \in Active : \A c \in written[id] :
      TimeOf(CueAt(sequences[id], states[id].cue).delay, c)
        <= age[id] * FastestRate

WentByItself(id) == states'[id].goAt = "now" /\ ~states'[id].goTimed

(* cue.rs on Time and Follow: a sequence moves to a Time cue no earlier    *)
(* than its time after it entered the cue before, to a Follow cue not      *)
(* before every channel of that cue had its delay and fade and the pause   *)
(* has passed, and never to a Go cue.                                      *)
CuesWaitTheirTurn ==
  [][RunSequences =>
       \A id \in Active \cap Active' : WentByItself(id) =>
         LET prev == CueAt(sequences[id], states[id].cue)
             next == CueAt(sequences[id], states'[id].cue)
             spent == age[id] * FastestRate
         IN  \/ next.trigger = "Time" /\ next.after <= spent
             \/ /\ next.trigger = "Follow"
                /\ \A c \in prev.channels :
                     TimeOf(prev.delay, c) + TimeOf(prev.fade, c) + next.after
                       <= spent]_vars

(* A cue that leads to a Time or Follow cue is left, by itself if nobody   *)
(* interferes, unless its node is set to rate 0.                           *)
AutomaticCuesAreReached ==
  \A id \in SequenceId : \A i \in 0 .. Cues(Sequence[id]) - 1 :
    LET At == IsActive(id) /\ states[id].cue = i
    IN  (At /\ \E next \in NextCues(Sequence[id], [cue |-> i]) :
                 next.trigger # "Go")
          ~> (~At \/ port[id] = 0)

(* With a queue that has room for one rate per sequence and for what the   *)
(* users send, the main loop neither panics nor waits for itself: there is *)
(* always another frame.                                                   *)
FramesGoOn == []<>(phase = "edit")

(* The cue a sequence is left in by a frame exists, whatever cues were     *)
(* added or taken away while it was played.                                *)
PlayedCueExists ==
  phase = "nodes" =>
    \A id \in DOMAIN states \cap DOMAIN sequences :
      HasCue(sequences[id], states[id].cue)
=============================================================================
