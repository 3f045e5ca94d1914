-------------------------- MODULE SequencePlayback --------------------------
(***************************************************************************)
(* One sequence of cues being played: SequenceState (state.rs), the cue    *)
(* timing of cue.rs and Sequence::run (sequence.rs).                       *)
(*                                                                         *)
(* Time is counted in frames, and a timer holds how long ago it was last   *)
(* brought up to date (lag, 0 or 1 frame) instead of an Instant, so that   *)
(* playback may go on forever in finitely many states.  Beats behave like  *)
(* seconds and are left out.  A channel is a control of a fixture; every   *)
(* cue control covers all fixtures of its sequence.                        *)
(*                                                                         *)
(* Operators map a playback [st, live, ok] to the next: the state of the   *)
(* sequence, its effect instances inside the EffectEngine, and whether the *)
(* code has not indexed past the end of the cue list, which panics.        *)
(***************************************************************************)
EXTENDS Integers, Sequences, FiniteSets, Functions

CONSTANT MaxTime    \* timers stop there: at least every time in a cue

ASSUME MaxTimeAssumption == MaxTime \in Nat \ {0}

(* cues: [trigger, after, channels, delay, fade, effects], where delay and *)
(* fade are NoTiming or give a time for every channel, and after is the    *)
(* trigger time (0 if there is none).                                      *)
NoTiming == <<>>

Cues(seq)       == Len(seq.cues)
HasCue(seq, i)  == i < Cues(seq)
CueAt(seq, i)   == seq.cues[i + 1]
LastIndex(seq)  == IF Cues(seq) = 0 THEN 0 ELSE Cues(seq) - 1

TimeOf(timing, c) == IF timing = NoTiming THEN 0 ELSE timing[c]
-----------------------------------------------------------------------------
(* SequenceRateMatchedDuration.                                            *)
Capped(t)         == IF t > MaxTime THEN MaxTime ELSE t
NewTimer          == [lag |-> 0, time |-> 0]
ForwardReversed(t, rate) ==    \* for the mutation checks: last_tick - now
  [lag |-> 0, time |-> Capped(t.time - t.lag * rate)]

Forward(t, rate)  == [lag |-> 0, time |-> Capped(t.time + t.lag * rate)]
Aged(t)           == [t EXCEPT !.lag = 1]

Pending == {"none", "now", "before"}
Unset   == "none"

(* goAt and finishedAt are last_go and cue_finished_at: "now" and "before" *)
(* are timestamps of this and of an earlier frame.  goTimed and            *)
(* finishTimed say that the timer already counts from that timestamp.      *)
InitialState ==
  [active |-> FALSE, cue |-> 0, rate |-> 1,
   goAt |-> Unset, goTimed |-> FALSE, sinceGo |-> NewTimer,
   finishedAt |-> Unset, finishTimed |-> FALSE, sinceFinished |-> NewTimer,
   channels |-> <<>>, values |-> {}, effects |-> <<>>]

Finished(st) == st.finishedAt # Unset

(* For the mutation checks: a timer that is never started over.            *)
RestartedNever(timer, at, timed) == timer

(* A timer that does not count from the timestamp yet starts over from it. *)
Restarted(timer, at, timed) ==
  IF timed THEN timer ELSE [lag |-> IF at = "now" THEN 0 ELSE 1, time |-> 0]

UpdateTimestamps(st) ==
  [st EXCEPT
     !.sinceGo = IF st.goAt = Unset THEN @
                 ELSE Forward(Restarted(@, st.goAt, st.goTimed), st.rate),
     !.goTimed = st.goAt # Unset,
     !.sinceFinished =
        IF Finished(st)
        THEN Forward(Restarted(@, st.finishedAt, st.finishTimed), st.rate)
        ELSE @,
     !.finishTimed = Finished(st)]

(* A frame passes.                                                         *)
Later(st) ==
  LET before(at) == IF at = "now" THEN "before" ELSE at
  IN  [st EXCEPT !.goAt = before(@), !.finishedAt = before(@),
                 !.sinceGo = Aged(@), !.sinceFinished = Aged(@),
                 !.channels = [c \in DOMAIN st.channels |->
                                 [st.channels[c] EXCEPT !.spent = Aged(@)]]]
-----------------------------------------------------------------------------
(* For the mutation checks: forgets the instances without stopping them.   *)
StopEffectsForgetting(p) == [p EXCEPT !.st.effects = <<>>]

StopEffects(p) ==
  [p EXCEPT !.live = @ \ Range(p.st.effects), !.st.effects = <<>>]

InitialChannelState(cue) ==
  IF cue.delay # NoTiming THEN "Delay"
  ELSE IF cue.fade # NoTiming THEN "Fading"
  ELSE "Active"

(* The channels are cleared before the index is used.                      *)
UpdateChannelStates(seq, p) ==
  IF HasCue(seq, p.st.cue)
  THEN LET cue == CueAt(seq, p.st.cue)
       IN  [p EXCEPT !.st.channels =
              [c \in cue.channels |->
                 [is |-> InitialChannelState(cue), spent |-> NewTimer]]]
  ELSE [p EXCEPT !.st.channels = <<>>, !.ok = FALSE]

(* Wrong stops, for the mutation checks.                                   *)
StopKeepingCue(seq, p) ==
  StopEffects(UpdateChannelStates(seq,
    [p EXCEPT !.st.active = FALSE, !.st.values = {}]))

StopKeepingValues(seq, p) ==
  StopEffects(UpdateChannelStates(seq,
    [p EXCEPT !.st.active = FALSE, !.st.cue = 0]))

(* stop() keeps last_go and cue_finished_at.                               *)
Stop(seq, p) ==
  StopEffects(UpdateChannelStates(seq,
    [p EXCEPT !.st.active = FALSE, !.st.cue = 0, !.st.values = {}]))

NextCue(seq, p) ==
  IF HasCue(seq, p.st.cue + 1) THEN [p EXCEPT !.st.cue = @ + 1]
  ELSE IF seq.wrap THEN [p EXCEPT !.st.cue = 0]
  ELSE Stop(seq, p)

PrevCue(seq, p) ==
  IF p.st.cue > 0 THEN [p EXCEPT !.st.cue = @ - 1]
  ELSE IF seq.wrap THEN [p EXCEPT !.st.cue = LastIndex(seq)]
  ELSE Stop(seq, p)

(* What go, go_backward and go_to begin with.                              *)
Started(p) ==
  StopEffects([p EXCEPT !.st.goAt = "now", !.st.goTimed = FALSE,
                        !.st.finishedAt = Unset, !.st.finishTimed = FALSE])

Activate(p, i) == [p EXCEPT !.st.active = TRUE, !.st.cue = i]

Go(seq, p) ==
  UpdateChannelStates(seq,
    IF p.st.active THEN NextCue(seq, Started(p)) ELSE Activate(Started(p), 0))

GoBackward(seq, p) ==
  UpdateChannelStates(seq,
    IF p.st.active THEN PrevCue(seq, Started(p))
    ELSE Activate(Started(p), LastIndex(seq)))

(* A cue id is its position counted from 1 (Sequence::add_cue).            *)
GoTo(seq, p, id) ==
  IF id \in DOMAIN seq.cues
  THEN UpdateChannelStates(seq, Activate(Started(p), id - 1))
  ELSE p
-----------------------------------------------------------------------------
NextCues(seq, st) ==
  IF HasCue(seq, st.cue + 1) THEN {CueAt(seq, st.cue + 1)}
  ELSE IF seq.wrap /\ HasCue(seq, 0) THEN {CueAt(seq, 0)}
  ELSE {}

(* For the mutation checks: a Follow cue that does not ask is_cue_finished.*)
ShouldGoUnfinished(cue, st) ==
  \/ cue.trigger = "Time" /\ st.sinceGo.time >= cue.after
  \/ cue.trigger = "Follow" /\ st.sinceFinished.time >= cue.after

ShouldGo(cue, st) ==
  \/ cue.trigger = "Time" /\ st.sinceGo.time >= cue.after
  \/ /\ cue.trigger = "Follow" /\ Finished(st)
     /\ st.sinceFinished.time >= cue.after

IsDone(st) == \A c \in DOMAIN st.channels : st.channels[c].is = "Active"

(* One frame of a channel: at most one step of Delay, Fading, Active.      *)
Progressed(channel, delay, fade, rate) ==
  LET spent == Forward(channel.spent, rate)
  IN  IF channel.is = "Delay" /\ spent.time >= delay
      THEN [is |-> "Fading", spent |-> NewTimer]
      ELSE IF channel.is = "Fading" /\ spent.time >= fade
      THEN [is |-> "Active", spent |-> NewTimer]
      ELSE IF channel.is = "Active" THEN channel
      ELSE [channel EXCEPT !.spent = spent]

(* For the mutation checks: no early return for a finished cue.            *)
UpdateStateAlways(cue, st) ==
  [st EXCEPT
     !.finishedAt = IF IsDone(st) THEN "now" ELSE Unset,
     !.finishTimed = FALSE,
     !.channels = [c \in DOMAIN @ |->
        Progressed(@[c], TimeOf(cue.delay, c), TimeOf(cue.fade, c), st.rate)]]

(* Cue::update_state looks whether the cue is done before it lets the      *)
(* channels progress, so a cue is finished a frame after its last channel. *)
UpdateState(cue, st) ==
  IF Finished(st) THEN st
  ELSE [st EXCEPT
          !.finishedAt = IF IsDone(st) THEN "now" ELSE Unset,
          !.finishTimed = FALSE,
          !.channels = [c \in DOMAIN @ |->
             IF c \in cue.channels
             THEN Progressed(@[c], TimeOf(cue.delay, c), TimeOf(cue.fade, c),
                             st.rate)
             ELSE @[c]]]

(* CueControl::delay_values withholds a channel until its delay is over on *)
(* the timer of the sequence.                                              *)
Written(cue, st) ==
  {c \in cue.channels : TimeOf(cue.delay, c) <= st.sinceGo.time}

(* The engine hands out an instance id that is not in use (a UUID).        *)
NewInstance(id, e, live) ==
  [sequence |-> id, effect |-> e,
   n |-> CHOOSE n \in 0 .. Cardinality(live) :
           [sequence |-> id, effect |-> e, n |-> n] \notin live]

RunEffects(id, cue, p) ==
  LET started == [e \in cue.effects \ DOMAIN p.st.effects |->
                    NewInstance(id, e, p.live)]
  IN  [p EXCEPT !.live = @ \cup Range(started),
                !.st.effects =
                   [e \in DOMAIN @ \cup DOMAIN started |->
                      IF e \in DOMAIN started THEN started[e] ELSE @[e]]]

Output(id, cue, p) ==
  LET st == UpdateState(cue, p.st)
  IN  RunEffects(id, cue,
        [p EXCEPT !.st = [st EXCEPT !.values = @ \cup Written(cue, st)]])

(* The three reasons for which Sequence::run itself moves on.  The second  *)
(* and the third look at the state the ones before them leave behind.      *)
AutoGo(seq, p) ==
  IF \E cue \in NextCues(seq, p.st) : ShouldGo(cue, p.st)
  THEN Go(seq, p) ELSE p

AutoStop(seq, p) ==
  IF NextCues(seq, p.st) = {} /\ Finished(p.st) /\ seq.stopOnLast
  THEN Go(seq, p) ELSE p

StayAtMissingCue(seq, p) == p    \* for the mutation checks

LeaveMissingCue(seq, p) ==
  IF HasCue(seq, p.st.cue) THEN p ELSE Go(seq, p)

Advanced(seq, p) ==
  LeaveMissingCue(seq, AutoStop(seq, AutoGo(seq,
    [p EXCEPT !.st = UpdateTimestamps(@),
              !.ok = @ /\ ~(seq.wrap /\ Cues(seq) = 0)])))

Run(id, seq, p) ==
  LET q == Advanced(seq, p)
  IN  IF ~p.st.active THEN p
      ELSE IF ~HasCue(seq, q.st.cue) THEN q
      ELSE Output(id, CueAt(seq, q.st.cue), q)

(* The channels Sequence::run writes to the fixtures in this frame.        *)
Writes(seq, p) ==
  LET q == Advanced(seq, p)
  IN  IF p.st.active /\ HasCue(seq, q.st.cue)
      THEN Written(CueAt(seq, q.st.cue), q.st)
      ELSE {}
=============================================================================
