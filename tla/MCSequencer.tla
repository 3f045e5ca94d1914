---------------------------- MODULE MCSequencer ----------------------------
(* Small shows for Sequencer: cues with every trigger, with and without    *)
(* delays, fades and effects, on two channels.                             *)
EXTENDS Sequencer

CONSTANTS c1, c2, e1, e2

Cue(trigger, after, channels, delay, fade, effects) ==
  [trigger |-> trigger, after |-> after, channels |-> channels,
   delay |-> delay, fade |-> fade, effects |-> effects]

Show(cues, wrap, stopOnLast) ==
  [cues |-> cues, wrap |-> wrap, stopOnLast |-> stopOnLast]

Simple  == Cue("Go", 0, {c1}, NoTiming, NoTiming, {e1})
Delayed == Cue("Go", 0, {c1, c2}, [c \in {c1, c2} |-> IF c = c1 THEN 0 ELSE 2],
               NoTiming, {e1, e2})
Faded   == Cue("Go", 0, {c1}, NoTiming, [c \in {c1} |-> 1], {e2})

(* These come by themselves, with fades but without delays.                *)
FollowCue(after) == Cue("Follow", after, {c1, c2}, NoTiming,
                        [c \in {c1, c2} |-> IF c = c1 THEN 1 ELSE 2], {e1})
TimeCue(after)   == Cue("Time", after, {c1}, NoTiming, NoTiming, {e2})

(* One that walks by itself, and one that is led by hand and stops by      *)
(* itself after its last cue.                                              *)
MixedShows == <<Show(<<FollowCue(2), TimeCue(3), Delayed>>, TRUE, FALSE),
                Show(<<Delayed, Faded>>, FALSE, TRUE)>>

(* One that stops by itself after its last cue and one that starts again.  *)
EditShows == <<Show(<<Simple, Faded>>, FALSE, TRUE),
               Show(<<Simple>>, TRUE, FALSE)>>
=============================================================================
