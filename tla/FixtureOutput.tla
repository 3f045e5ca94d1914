---------------------------- MODULE FixtureOutput ----------------------------
(* What the fixtures send. A frame applies the commands that wait, lets the *)
(* programmer write its values, then the sequences and the effects, and     *)
(* sends what the priorities and fades make of it. Calls of the API reach   *)
(* the programmer between any two of these steps. Every fixture has one     *)
(* channel, for its intensity.                                              *)
EXTENDS ProgrammerSession

CONSTANTS
  Sequences,     \* a set of [source, fixtures, value, priority, fadeOut]
  EffectValue,   \* what a running effect writes
  Master         \* fixture -> sub master

\* The priorities that are offered for sequences (sequencer.proto).
ASSUME SequencesAssumption ==
  \A s \in Sequences :
    s.source # NoSource /\ s.value \in 0 .. Full /\ s.priority \in LTP \cup {HTP} /\ s.fadeOut \in Nat
ASSUME LevelsAssumption == EffectValue \in 0 .. Full /\ Master \in [Fixtures -> 0 .. Full]

VARIABLES
  playing,       \* the sequences that write to their fixtures, in the order they were started
  engine,        \* EffectEngine.programmer_effects: the effects that have an instance
  channels,      \* fixture -> channel values
  out,           \* fixture -> what was sent last
  asked,         \* what the writers of this frame, or of the last one, wanted
  phase

frameVars == <<playing, engine, channels, out, asked, phase>>
outputVars == <<vars, frameVars>>

DefaultsOf(c) == Insert(Clear(c), 0, Lowest, NoSource, NoFadeOut)

NothingAsked == [values |-> [f \in Fixtures |-> NoValue], lit |-> {}, playing |-> <<>>,
                 effects |-> {}, offline |-> FALSE]

OutputInit ==
  /\ Init
  /\ playing = <<>> /\ engine = {}
  /\ channels = [f \in Fixtures |-> DefaultsOf(NewChannel)]
  /\ out = [f \in Fixtures |-> 0]
  /\ asked = NothingAsked
  /\ phase = "commands"

-----------------------------------------------------------------------------
(* Sequences are started and stopped with commands as well. *)

StartSequence ==
  \E s \in Sequences \ ToSet(playing) :
    /\ phase = "commands" /\ Used("sequence")
    /\ playing' = Append(playing, s)
    /\ UNCHANGED <<prog, done, engine, channels, out, asked, phase>>

StopSequence ==
  \E s \in ToSet(playing) :
    /\ phase = "commands" /\ Used("sequence")
    /\ playing' = RemoveFirst(playing, s)
    /\ UNCHANGED <<prog, done, engine, channels, out, asked, phase>>

RunCommand == phase = "commands" /\ Commands /\ UNCHANGED frameVars

CallProgrammer == Calls /\ UNCHANGED frameVars

-----------------------------------------------------------------------------
(* The steps of a frame *)

WriteProgrammed(c, value) ==
  IF value = NoValue THEN c ELSE Insert(c, value, Programmed, NoSource, NoFadeOut)
WriteHighlight(c, lit) == IF lit THEN Insert(c, Full, Highlight, NoSource, NoFadeOut) ELSE c

\* FixtureProcessor::process and Programmer::run
RunProgrammer ==
  /\ phase = "commands" /\ phase' = "sequences"
  /\ LET values == [f \in Fixtures |-> IF prog.offline THEN NoValue ELSE Value(prog, f)]
         lit    == IF prog.offline THEN {} ELSE Highlighted(prog)
     IN  /\ channels' = [f \in Fixtures |->
                           WriteHighlight(WriteProgrammed(channels[f], values[f]), f \in lit)]
         /\ asked' = [values |-> values, lit |-> lit, playing |-> playing, effects |-> {},
                      offline |-> prog.offline]
  /\ UNCHANGED <<vars, playing, engine, out>>

\* A sequence writes to the fixtures of its cue.
WriteSequence(c, s, f) ==
  IF f \in s.fixtures THEN Insert(c, s.value, s.priority, s.source, s.fadeOut) ELSE c

\* In the order in which they were started: the latest takes precedence.
WriteSequences(c, f) == FoldLeft(LAMBDA d, s : WriteSequence(d, s, f), c, playing)

RunSequences ==
  /\ phase = "sequences" /\ phase' = "effects"
  /\ channels' = [f \in Fixtures |-> WriteSequences(channels[f], f)]
  /\ UNCHANGED <<vars, playing, engine, out, asked>>

\* What is behind the first place of an effect.
Behind(rest, e) == SubSeq(rest, Min({n \in DOMAIN rest : rest[n] = e}) + 1, Len(rest))

\* Looking one effect up consumes the list up to it, or all of it.
LookUp(found, e) ==
  IF Contains(found.rest, e)
  THEN [found EXCEPT !.rest = Behind(found.rest, e)]
  ELSE [rest |-> <<>>, missing |-> found.missing \cup {e}]

LookUps(active, order) == FoldLeft(LookUp, [rest |-> active, missing |-> {}], order)

\* For the mutation checks: an effect that is not called any more keeps its entry.
EngineWithoutRemoval(active, order) ==
  LET looked == LookUps(active, order)
  IN  ToSet(order) \cup (ToSet(looked.rest) \ ToSet(order))

\* run_programmer_effects, for the order in which the map lists its entries
EngineAfter(active, order) ==
  LET looked == LookUps(active, order)
  IN  (ToSet(order) \ looked.missing) \cup (ToSet(looked.rest) \ ToSet(order))

RunEffects ==
  /\ phase = "effects" /\ phase' = "outputs"
  /\ \E order \in SetToSeqs(engine) : engine' = EngineAfter(prog.effects, order)
  /\ channels' = [f \in Fixtures |->
       IF \E e \in engine' : f \in Selected(e.fixtures)
       THEN Insert(channels[f], EffectValue, Normal, NoSource, NoFadeOut) ELSE channels[f]]
  /\ asked' = [asked EXCEPT !.effects = ToSet(prog.effects)]
  /\ UNCHANGED <<vars, playing, out>>

\* write_outputs, and the defaults at the beginning of the next frame
EndFrame ==
  /\ phase = "outputs" /\ phase' = "commands"
  /\ LET flushed == [f \in Fixtures |-> Flush(SetMaster(channels[f], Master[f]))]
     IN  /\ out' = [f \in Fixtures |-> Sent(flushed[f])]
         /\ channels' = [f \in Fixtures |-> DefaultsOf(Aged(flushed[f]))]
  /\ UNCHANGED <<vars, playing, engine, asked>>

Frame == RunProgrammer \/ RunSequences \/ RunEffects \/ EndFrame

OutputNext == RunCommand \/ CallProgrammer \/ StartSequence \/ StopSequence \/ Frame

\* The main loop runs frame after frame; operations are the users' choice.
OutputSpec == OutputInit /\ [][OutputNext]_outputVars /\ WF_outputVars(Frame)

-----------------------------------------------------------------------------
(* Properties *)

FrameIsOver == phase = "commands"

(* "Programmer always overrides everything else", "Highlight overrides      *)
(* programmer" (priority.rs): whatever sequences, effects and fades do, a   *)
(* frame sends the highlight, then the programmer's value, unscaled.        *)
ProgrammerHasTheLastWord ==
  FrameIsOver => \A f \in Fixtures :
    /\ f \in asked.lit => out[f] = Full
    /\ f \notin asked.lit /\ asked.values[f] # NoValue => out[f] = asked.values[f]

FadesOut(f) == channels[f].fade # NotFading

(* A fixture nobody wanted anything of in a frame is dark after it, unless  *)
(* a fade-out runs: no value of an earlier frame, of a cleared programmer   *)
(* or of an effect that is not called any more is left behind.              *)
UnaskedIsDark ==
  FrameIsOver => \A f \in Fixtures :
    \/ f \in asked.lit \/ asked.values[f] # NoValue \/ FadesOut(f) \/ out[f] = 0
    \/ \E s \in ToSet(asked.playing) : f \in s.fixtures
    \/ \E e \in asked.effects : f \in Selected(e.fixtures)

(* A fade-out ends although other sources begin and end meanwhile.          *)
FadesEnd == \A f \in Fixtures : []<>~FadesOut(f)

(* The only effect that is called, and stays called, runs in the end,       *)
(* whichever effects ran before. (Of two, one may be stopped for good.)     *)
CalledEffectRuns ==
  \A e \in Effects : \A s \in {SelectionOf(p) : p \in Picks \cup {<<>>}} :
    LET called == [effect |-> e, fixtures |-> s]
    IN  <>[](prog.effects = <<called>>) => <>[](called \in engine)

(* programmer.adoc: "When the programmer is offline it will *never* output  *)
(* anything to the fixtures."                                               *)
OfflineIsSilent ==
  FrameIsOver /\ asked.offline => \A f \in Fixtures :
    FadesOut(f) \/ out[f] = 0 \/ \E s \in ToSet(asked.playing) : f \in s.fixtures

=============================================================================
