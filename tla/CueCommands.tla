---------------------------- MODULE CueCommands ----------------------------
(* The commands that edit what sequences and effects hold                  *)
(* (components/sequencer/commands): the settings of a sequence, its cues   *)
(* and what is stored into them, and the channels and steps of effects.    *)
(* How sequences are added, deleted and renamed is in SequenceDocument,    *)
(* how they are played in Sequencer. One fixture control and one type of   *)
(* preset stand for all, names are left out, and what an index or an id of *)
(* the code finds is found by it here.                                     *)
(*                                                                         *)
(* doc.sequences maps ids to [fixtures, cues, wrapAround, stopOnLastCue,   *)
(* priority], doc.effects maps ids to sequences of channels, which are     *)
(* sequences of steps; doc.nextSequence is the counter of the ids.         *)
EXTENDS NodeCommands, Naturals

HasSequence(doc, id) == id \in DOMAIN doc.sequences

NewSequence ==
  [fixtures |-> {}, cues |-> <<>>, wrapAround |-> FALSE, stopOnLastCue |-> FALSE, priority |-> 0]

NewCue(id) ==
  [id |-> id, name |-> 0, trigger |-> 0, triggerTime |-> 0, fade |-> 0, delay |-> 0,
   controls |-> <<>>, effects |-> <<>>, presets |-> <<>>]

-----------------------------------------------------------------------------
(* One setting of a sequence, or of a cue that is found by its id.         *)

SetSequence(doc, id, field, value) ==
  IF HasSequence(doc, id) THEN [doc EXCEPT !.sequences[id][field] = value] ELSE Failed(doc)

ChangeSequence(doc, c, field) ==
  Applied(SetSequence(doc, c.id, field, c.value),
          IF HasSequence(doc, c.id) THEN doc.sequences[c.id][field] ELSE NoState)

SetWrapAround(doc, c) == ChangeSequence(doc, c, "wrapAround")
SetPriority(doc, c)   == ChangeSequence(doc, c, "priority")

\* What is kept is the other of the two flags.
SetStopOnLastCue(doc, c) ==
  Applied(SetSequence(doc, c.id, "stopOnLastCue", c.value),
          IF HasSequence(doc, c.id) THEN doc.sequences[c.id].wrapAround ELSE NoState)

CueAt(doc, c) == SelectInSeq(doc.sequences[c.id].cues, LAMBDA cue : cue.id = c.cue)
HasCue(doc, c) == HasSequence(doc, c.id) /\ CueAt(doc, c) # 0
CueOf(doc, c) == doc.sequences[c.id].cues[CueAt(doc, c)]

SetCue(doc, c, field, value) ==
  IF HasCue(doc, c) THEN [doc EXCEPT !.sequences[c.id].cues[CueAt(doc, c)][field] = value]
  ELSE Failed(doc)

ChangeCue(doc, c, field) ==
  Applied(SetCue(doc, c, field, c.value), IF HasCue(doc, c) THEN CueOf(doc, c)[field] ELSE NoState)

RenameCue(doc, c)         == ChangeCue(doc, c, "name")
SetCueTrigger(doc, c)     == ChangeCue(doc, c, "trigger")
SetCueTriggerTime(doc, c) == ChangeCue(doc, c, "triggerTime")
SetFadeTime(doc, c)       == ChangeCue(doc, c, "fade")
SetDelayTime(doc, c)      == ChangeCue(doc, c, "delay")

\* The value of a control is found by its index, the offset of an effect by
\* the effect, which a cue can call several times: the first counts.
SetCueValue(doc, c, value) ==
  IF HasCue(doc, c) /\ c.index \in DOMAIN CueOf(doc, c).controls
  THEN [doc EXCEPT !.sequences[c.id].cues[CueAt(doc, c)].controls[c.index].value = value]
  ELSE Failed(doc)

ApplyCueValue(doc, c) ==
  LET changed == SetCueValue(doc, c, c.value)
  IN  Applied(changed, IF Ok(changed) THEN CueOf(doc, c).controls[c.index].value ELSE NoState)

CalledAt(doc, c) == SelectInSeq(CueOf(doc, c).effects, LAMBDA e : e.effect = c.effect)

SetEffectOffset(doc, c, value) ==
  IF HasCue(doc, c) /\ CalledAt(doc, c) # 0
  THEN [doc EXCEPT !.sequences[c.id].cues[CueAt(doc, c)].effects[CalledAt(doc, c)].offset = value]
  ELSE Failed(doc)

ApplyEffectOffset(doc, c) ==
  LET changed == SetEffectOffset(doc, c, c.value)
  IN  Applied(changed, IF Ok(changed) THEN CueOf(doc, c).effects[CalledAt(doc, c)].offset ELSE NoState)

-----------------------------------------------------------------------------
(* Storing the programmer. Controls and presets are [value, fixtures],     *)
(* effects [effect, offset].                                               *)

WithoutFixtures(entry, fixtures) == [entry EXCEPT !.fixtures = @ \ fixtures]
NotEmpty(entries) == SelectSeq(entries, LAMBDA e : e.fixtures # {})

\* Of the entries that share fixtures with a new one only the first gives
\* them up; an entry of the same value takes them.
MergeControl(controls, new) ==
  LET shares == SelectInSeq(controls, LAMBDA e : e.fixtures \cap new.fixtures # {})
      freed  == IF shares = 0 THEN controls
                ELSE [controls EXCEPT ![shares] = WithoutFixtures(@, new.fixtures)]
      same   == SelectInSeq(freed, LAMBDA e : e.value = new.value)
  IN  IF same = 0 THEN Append(freed, new)
      ELSE [freed EXCEPT ![same].fixtures = @ \cup new.fixtures]

MergeControls(controls, news) == NotEmpty(FoldLeft(MergeControl, controls, news))

MergePresets(presets, news) ==
  LET taken == UNION {e.fixtures : e \in ToSet(news)}
  IN  NotEmpty([n \in DOMAIN presets |-> WithoutFixtures(presets[n], taken)]) \o news

\* AddCue, and any store into an empty sequence, makes a cue; else the cue is
\* the one that was asked for, or the last.
StoredAt(sequence, c) ==
  CASE c.mode = "addCue" \/ sequence.cues = <<>> -> Len(sequence.cues) + 1
    [] c.cue # 0 -> SelectInSeq(sequence.cues, LAMBDA cue : cue.id = c.cue)
    [] OTHER     -> Len(sequence.cues)

StoredInto(cue, c) ==
  IF c.mode = "merge"
  THEN [cue EXCEPT !.controls = MergeControls(@, c.controls), !.presets = MergePresets(@, c.presets),
                   !.effects = @ \o c.effects]
  ELSE [cue EXCEPT !.controls = c.controls, !.presets = c.presets, !.effects = c.effects]

ApplyStore(doc, c) ==
  LET sequence == doc.sequences[c.id]
      at   == StoredAt(sequence, c)
      cues == IF at = Len(sequence.cues) + 1 THEN Append(sequence.cues, NewCue(at)) ELSE sequence.cues
      programmed == UNION {e.fixtures : e \in ToSet(c.controls)}
  IN  IF ~HasSequence(doc, c.id) \/ at = 0 THEN Applied(Failed(doc), NoState)
      ELSE Applied([doc EXCEPT !.sequences[c.id].cues = [cues EXCEPT ![at] = StoredInto(@, c)],
                               !.sequences[c.id].fixtures = @ \cup programmed],
                   sequence)

\* Only what a store changes is put back.
RevertStore(doc, c, sequence) ==
  IF HasSequence(doc, c.id)
  THEN [doc EXCEPT !.sequences[c.id].fixtures = sequence.fixtures,
                   !.sequences[c.id].cues = sequence.cues]
  ELSE Failed(doc)

-----------------------------------------------------------------------------
(* A copy of a sequence gets an id and a hidden node of its own; whether   *)
(* it stops on its last cue and its priority are not copied.               *)

HiddenNode(doc, type, setting) ==
  LET r == ApplyAddNode(doc, [type |-> type, vt |-> setting, children |-> <<>>, parent |-> NoParent])
  IN  [r EXCEPT !.doc.pipeline.nodes[r.state].designer.hidden = TRUE]

ApplyDuplicateSequence(doc, c) ==
  LET id   == doc.nextSequence
      from == doc.sequences[c.id]
      copy == [NewSequence EXCEPT !.cues = from.cues, !.fixtures = from.fixtures,
                                  !.wrapAround = from.wrapAround]
      node == HiddenNode([doc EXCEPT !.sequences = (id :> copy) @@ @, !.nextSequence = id + 1],
                         "sequencer", id)
  IN  IF HasSequence(doc, c.id) THEN Applied(node.doc, [id |-> id, node |-> node.state])
      ELSE Applied(Failed(doc), NoState)

RevertDuplicateSequence(doc, state) ==
  [RevertAddNode(doc, state.node) EXCEPT !.sequences = Without(@, {state.id})]

-----------------------------------------------------------------------------
(* Effects. The id after the highest is given to a new one; a channel or a *)
(* step is removed by its index without asking whether there is one.       *)

HasEffect(doc, c) == c.id \in DOMAIN doc.effects
ChannelsOf(doc, c) == doc.effects[c.id]
HasChannel(doc, c) == HasEffect(doc, c) /\ c.channel \in DOMAIN ChannelsOf(doc, c)
StepsOf(doc, c) == doc.effects[c.id][c.channel]

ApplyAddEffect(doc) ==
  LET id == Max(DOMAIN doc.effects \cup {0}) + 1
  IN  Applied([doc EXCEPT !.effects = (id :> <<>>) @@ @], id)
RevertAddEffect(doc, id) == [doc EXCEPT !.effects = Without(@, {id})]

ApplyDeleteEffect(doc, c) ==
  IF HasEffect(doc, c) THEN Applied(RevertAddEffect(doc, c.id), ChannelsOf(doc, c))
  ELSE Applied(Failed(doc), NoState)
RevertDeleteEffect(doc, c, channels) == [doc EXCEPT !.effects = (c.id :> channels) @@ @]

SetChannels(doc, c, channels) == [doc EXCEPT !.effects[c.id] = channels]
SetSteps(doc, c, steps) == [doc EXCEPT !.effects[c.id][c.channel] = steps]

\* Vec::pop, which does nothing to an empty vector.
Popped(seq) == IF seq = <<>> THEN seq ELSE Front(seq)

ApplyAddChannel(doc, c) ==
  IF HasEffect(doc, c) THEN Applied(SetChannels(doc, c, Append(ChannelsOf(doc, c), <<>>)), NoState)
  ELSE Applied(Failed(doc), NoState)
RevertAddChannel(doc, c) ==
  IF HasEffect(doc, c) THEN SetChannels(doc, c, Popped(ChannelsOf(doc, c))) ELSE Failed(doc)

ApplyAddStep(doc, c) ==
  IF HasChannel(doc, c) THEN Applied(SetSteps(doc, c, Append(StepsOf(doc, c), c.step)), NoState)
  ELSE Applied(Failed(doc), NoState)
RevertAddStep(doc, c) ==
  IF HasChannel(doc, c) THEN SetSteps(doc, c, Popped(StepsOf(doc, c))) ELSE Failed(doc)

ApplyDeleteChannel(doc, c) ==
  IF ~HasEffect(doc, c) THEN Applied(Failed(doc), NoState)
  ELSE IF ~HasChannel(doc, c) THEN Applied(Panicked(doc, "effect"), NoState)
  ELSE Applied(SetChannels(doc, c, RemoveAt(ChannelsOf(doc, c), c.channel)), StepsOf(doc, c))
RevertDeleteChannel(doc, c, steps) ==
  IF ~HasEffect(doc, c) THEN Failed(doc)
  ELSE IF c.channel > Len(ChannelsOf(doc, c)) + 1 THEN Panicked(doc, "effect")
  ELSE SetChannels(doc, c, InsertAt(ChannelsOf(doc, c), c.channel, steps))

ApplyDeleteStep(doc, c) ==
  IF ~HasChannel(doc, c) THEN Applied(Failed(doc), NoState)
  ELSE IF c.at \notin DOMAIN StepsOf(doc, c) THEN Applied(Panicked(doc, "effect"), NoState)
  ELSE Applied(SetSteps(doc, c, RemoveAt(StepsOf(doc, c), c.at)), StepsOf(doc, c)[c.at])
RevertDeleteStep(doc, c, step) ==
  IF ~HasChannel(doc, c) THEN Failed(doc)
  ELSE IF c.at > Len(StepsOf(doc, c)) + 1 THEN Panicked(doc, "effect")
  ELSE SetSteps(doc, c, InsertAt(StepsOf(doc, c), c.at, step))

SetStep(doc, c, step) ==
  IF HasChannel(doc, c) /\ c.at \in DOMAIN StepsOf(doc, c)
  THEN SetSteps(doc, c, [StepsOf(doc, c) EXCEPT ![c.at] = step]) ELSE Failed(doc)
ApplyUpdateStep(doc, c) ==
  LET changed == SetStep(doc, c, c.step)
  IN  Applied(changed, IF Ok(changed) THEN StepsOf(doc, c)[c.at] ELSE NoState)

-----------------------------------------------------------------------------

CueOps == {"setWrapAround", "setStopOnLastCue", "setPriority", "renameCue", "setCueTrigger",
           "setCueTriggerTime", "setFadeTime", "setDelayTime", "setCueValue", "setEffectOffset",
           "store", "duplicateSequence"}
EffectOps == {"addEffect", "deleteEffect", "addChannel", "deleteChannel", "addStep", "deleteStep",
              "updateStep"}

ApplyToCues(doc, c) ==
  CASE c.op = "setWrapAround"    -> SetWrapAround(doc, c)
    [] c.op = "setStopOnLastCue" -> SetStopOnLastCue(doc, c)
    [] c.op = "setPriority"      -> SetPriority(doc, c)
    [] c.op = "renameCue"        -> RenameCue(doc, c)
    [] c.op = "setCueTrigger"    -> SetCueTrigger(doc, c)
    [] c.op = "setCueTriggerTime" -> SetCueTriggerTime(doc, c)
    [] c.op = "setFadeTime"      -> SetFadeTime(doc, c)
    [] c.op = "setDelayTime"     -> SetDelayTime(doc, c)
    [] c.op = "setCueValue"      -> ApplyCueValue(doc, c)
    [] c.op = "setEffectOffset"  -> ApplyEffectOffset(doc, c)
    [] c.op = "store"            -> ApplyStore(doc, c)
    [] c.op = "duplicateSequence" -> ApplyDuplicateSequence(doc, c)

RevertOnCues(doc, c, state) ==
  CASE c.op = "setWrapAround"    -> SetSequence(doc, c.id, "wrapAround", state)
    [] c.op = "setStopOnLastCue" -> SetSequence(doc, c.id, "stopOnLastCue", state)
    [] c.op = "setPriority"      -> SetSequence(doc, c.id, "priority", state)
    [] c.op = "renameCue"        -> SetCue(doc, c, "name", state)
    [] c.op = "setCueTrigger"    -> SetCue(doc, c, "trigger", state)
    [] c.op = "setCueTriggerTime" -> SetCue(doc, c, "triggerTime", state)
    [] c.op = "setFadeTime"      -> SetCue(doc, c, "fade", state)
    [] c.op = "setDelayTime"     -> SetCue(doc, c, "delay", state)
    [] c.op = "setCueValue"      -> SetCueValue(doc, c, state)
    [] c.op = "setEffectOffset"  -> SetEffectOffset(doc, c, state)
    [] c.op = "store"            -> RevertStore(doc, c, state)
    [] c.op = "duplicateSequence" -> RevertDuplicateSequence(doc, state)

ApplyToEffects(doc, c) ==
  CASE c.op = "addEffect"     -> ApplyAddEffect(doc)
    [] c.op = "deleteEffect"  -> ApplyDeleteEffect(doc, c)
    [] c.op = "addChannel"    -> ApplyAddChannel(doc, c)
    [] c.op = "deleteChannel" -> ApplyDeleteChannel(doc, c)
    [] c.op = "addStep"       -> ApplyAddStep(doc, c)
    [] c.op = "deleteStep"    -> ApplyDeleteStep(doc, c)
    [] c.op = "updateStep"    -> ApplyUpdateStep(doc, c)

RevertOnEffects(doc, c, state) ==
  CASE c.op = "addEffect"     -> RevertAddEffect(doc, state)
    [] c.op = "deleteEffect"  -> RevertDeleteEffect(doc, c, state)
    [] c.op = "addChannel"    -> RevertAddChannel(doc, c)
    [] c.op = "deleteChannel" -> RevertDeleteChannel(doc, c, state)
    [] c.op = "addStep"       -> RevertAddStep(doc, c)
    [] c.op = "deleteStep"    -> RevertDeleteStep(doc, c, state)
    [] c.op = "updateStep"    -> SetStep(doc, c, state)
=============================================================================
