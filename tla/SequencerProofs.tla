-------------------------- MODULE SequencerProofs --------------------------
(***************************************************************************)
(* Proofs about Sequencer, for any sequences, cues and rates. The last     *)
(* part is about its times: what timers that run at changing rates count   *)
(* never exceeds the age of a cue at the fastest of the rates.             *)
(***************************************************************************)
EXTENDS Sequencer, TLAPS, FiniteSetTheorems, SequenceTheorems, WellFoundedInduction

Rates == Rate \cup {1}
Timer == [lag : {0, 1}, time : 0 .. MaxTime]
ChannelState == [is : {"Delay", "Fading", "Active"}, spent : Timer]

IsState(st) ==
  /\ st \in [active : BOOLEAN, cue : Nat, rate : Rates,
             goAt : Pending, goTimed : BOOLEAN, sinceGo : Timer,
             finishedAt : Pending, finishTimed : BOOLEAN, sinceFinished : Timer,
             channels : {st.channels}, values : {st.values}, effects : {st.effects}]
  /\ \A c \in DOMAIN st.channels : st.channels[c] \in ChannelState

IsPlayback(p) ==
  /\ p \in [st : {p.st}, live : {p.live}, ok : BOOLEAN]
  /\ IsState(p.st)

-----------------------------------------------------------------------------
(* Steps of a playback *)

\* A sequence has a cue at an index, if any, that is one.
LEMMA CueFacts ==
  ASSUME NEW seq, IsSequence(seq)
  PROVE  /\ seq \in [cues : Seq(Range(seq.cues)), wrap : BOOLEAN, stopOnLast : BOOLEAN]
         /\ Cues(seq) \in Nat /\ DOMAIN seq.cues = 1 .. Cues(seq)
         /\ \A i \in Nat : HasCue(seq, i) => i + 1 \in DOMAIN seq.cues /\ IsCue(CueAt(seq, i))
         /\ LastIndex(seq) \in Nat
<1>1. seq \in [cues : Seq(Range(seq.cues)), wrap : BOOLEAN, stopOnLast : BOOLEAN]
  BY DEF IsSequence
<1>2. seq.cues \in Seq(Range(seq.cues))
  BY <1>1
<1>3. Cues(seq) \in Nat /\ DOMAIN seq.cues = 1 .. Cues(seq)
  BY <1>2 DEF Cues
<1>4. \A i \in Nat : HasCue(seq, i) => i + 1 \in DOMAIN seq.cues
  BY <1>3 DEF HasCue
<1>5. \A i \in Nat : HasCue(seq, i) => IsCue(CueAt(seq, i))
  BY <1>4 DEF CueAt, IsSequence, Range
<1> QED BY <1>1, <1>3, <1>4, <1>5 DEF LastIndex

\* Timers that start anew and that go on.
LEMMA TimerFacts ==
  /\ NewTimer \in Timer
  /\ \A t \in Timer, r \in Rates : Forward(t, r) \in Timer
  /\ \A t \in Timer : Aged(t) \in Timer
  /\ \A t \in Timer, timed \in BOOLEAN : \A at : Restarted(t, at, timed) \in Timer
<1>1. MaxTime \in Nat \ {0} /\ Rates \subseteq Nat
  BY MaxTimeAssumption, RateAssumption DEF Rates
<1>2. NewTimer \in Timer
  BY <1>1 DEF NewTimer, Timer
<1>3. ASSUME NEW t \in Timer, NEW r \in Rates PROVE Forward(t, r) \in Timer
  <2>1. t.time \in Nat /\ t.lag \in {0, 1} /\ r \in Nat
    BY <1>1 DEF Timer
  <2>2. t.lag * r \in Nat
    BY <2>1
  <2>3. Capped(t.time + t.lag * r) \in 0 .. MaxTime
    BY <1>1, <2>1, <2>2 DEF Capped
  <2> QED BY <2>3 DEF Forward, Timer
<1>4. ASSUME NEW t \in Timer PROVE Aged(t) \in Timer
  BY DEF Aged, Timer
<1>5. ASSUME NEW t \in Timer, NEW at, NEW timed \in BOOLEAN PROVE Restarted(t, at, timed) \in Timer
  BY <1>1 DEF Restarted, Timer
<1> QED BY <1>2, <1>3, <1>4, <1>5

\* The state of a sequence that was never played.
LEMMA InitialIsState == IsState(InitialState)
<1>1. InitialState.channels = <<>> /\ DOMAIN <<>> = {}
  BY DEF InitialState
<1>2. NewTimer \in Timer /\ 1 \in Rates
  BY TimerFacts DEF Rates
<1> HIDE DEF NewTimer
<1> QED BY <1>1, <1>2 DEF IsState, InitialState, Pending, Unset

\* Stopping the effects leaves all else.
LEMMA StopEffectsFacts ==
  ASSUME NEW p, IsPlayback(p)
  PROVE  LET q == StopEffects(p)
         IN  /\ IsPlayback(q) /\ q.ok = p.ok
             /\ q.live = p.live \ Range(p.st.effects)
             /\ q.st.effects = <<>>
             /\ q.st.active = p.st.active /\ q.st.cue = p.st.cue
             /\ q.st.values = p.st.values /\ q.st.channels = p.st.channels
             /\ q.st.goAt = p.st.goAt /\ q.st.goTimed = p.st.goTimed
             /\ q.st.finishedAt = p.st.finishedAt /\ q.st.finishTimed = p.st.finishTimed
<1> DEFINE q == StopEffects(p)
<1>1. /\ q.st = [p.st EXCEPT !.effects = <<>>] /\ q.live = p.live \ Range(p.st.effects) /\ q.ok = p.ok
      /\ q \in [st : {q.st}, live : {q.live}, ok : BOOLEAN]
  BY DEF IsPlayback, StopEffects
<1> HIDE DEF q
<1> QED BY <1>1 DEF IsPlayback, IsState, q

\* The channels of the cue start anew; a cue that is missing is a panic.
LEMMA UpdateChannelStatesFacts ==
  ASSUME NEW p, IsPlayback(p), NEW seq
  PROVE  LET q == UpdateChannelStates(seq, p)
         IN  /\ IsPlayback(q) /\ q.live = p.live
             /\ q.ok <=> p.ok /\ HasCue(seq, p.st.cue)
             /\ HasCue(seq, p.st.cue) =>
                  q.st.channels = [c \in CueAt(seq, p.st.cue).channels |->
                    [is |-> InitialChannelState(CueAt(seq, p.st.cue)), spent |-> NewTimer]]
             /\ q.st.effects = p.st.effects
             /\ q.st.active = p.st.active /\ q.st.cue = p.st.cue
             /\ q.st.values = p.st.values
             /\ q.st.goAt = p.st.goAt /\ q.st.goTimed = p.st.goTimed
             /\ q.st.finishedAt = p.st.finishedAt /\ q.st.finishTimed = p.st.finishTimed
<1> DEFINE q == UpdateChannelStates(seq, p)
           cue == CueAt(seq, p.st.cue)
           initial == [is |-> InitialChannelState(cue), spent |-> NewTimer]
           channels == [c \in cue.channels |-> initial]
<1>1. initial \in ChannelState
  BY TimerFacts DEF ChannelState, InitialChannelState
<1>2. CASE HasCue(seq, p.st.cue)
  <2>1. /\ q.st = [p.st EXCEPT !.channels = channels] /\ q.live = p.live /\ q.ok = p.ok
        /\ q \in [st : {q.st}, live : {q.live}, ok : BOOLEAN]
    BY <1>2 DEF IsPlayback, UpdateChannelStates
  <2>2. \A c \in DOMAIN channels : channels[c] \in ChannelState
    BY <1>1
  <2> HIDE DEF q, initial, channels
  <2>3. /\ IsPlayback(q) /\ q.st.channels = channels /\ q.st.effects = p.st.effects
        /\ q.st.active = p.st.active /\ q.st.cue = p.st.cue
        /\ q.st.values = p.st.values
        /\ q.st.goAt = p.st.goAt /\ q.st.goTimed = p.st.goTimed
        /\ q.st.finishedAt = p.st.finishedAt /\ q.st.finishTimed = p.st.finishTimed
    BY <2>1, <2>2 DEF IsPlayback, IsState
  <2> QED BY <1>2, <2>1, <2>3 DEF q, initial, channels, cue
<1>3. CASE ~HasCue(seq, p.st.cue)
  <2>1. /\ q.st = [p.st EXCEPT !.channels = <<>>] /\ q.live = p.live /\ q.ok = FALSE
        /\ q \in [st : {q.st}, live : {q.live}, ok : BOOLEAN]
    BY <1>3 DEF IsPlayback, UpdateChannelStates
  <2>2. DOMAIN <<>> = {}
    OBVIOUS
  <2> HIDE DEF q
  <2> QED BY <1>3, <2>1, <2>2 DEF IsPlayback, IsState, q
<1> QED BY <1>2, <1>3


\* The empty tuple holds nothing.
LEMMA NothingIn == Range(<<>>) = {}
  BY DEF Range

\* The timestamps of two playbacks agree.
SameTimestamps(p, q) ==
  /\ q.st.goAt = p.st.goAt /\ q.st.goTimed = p.st.goTimed
  /\ q.st.finishedAt = p.st.finishedAt /\ q.st.finishTimed = p.st.finishTimed

\* stop() leaves an inactive, silent state at the first cue.
LEMMA StopFacts ==
  ASSUME NEW p, IsPlayback(p), NEW seq
  PROVE  LET q == Stop(seq, p)
         IN  /\ IsPlayback(q) /\ q.live = p.live \ Range(p.st.effects)
             /\ q.ok <=> p.ok /\ HasCue(seq, 0)
             /\ q.st.effects = <<>> /\ q.st.active = FALSE /\ q.st.cue = 0
             /\ q.st.values = {}
             /\ SameTimestamps(p, q)
<1> DEFINE r == [p EXCEPT !.st.active = FALSE, !.st.cue = 0, !.st.values = {}]
<1>1. /\ r.st = [active |-> FALSE, cue |-> 0, rate |-> p.st.rate,
                 goAt |-> p.st.goAt, goTimed |-> p.st.goTimed, sinceGo |-> p.st.sinceGo,
                 finishedAt |-> p.st.finishedAt, finishTimed |-> p.st.finishTimed,
                 sinceFinished |-> p.st.sinceFinished,
                 channels |-> p.st.channels, values |-> {}, effects |-> p.st.effects]
      /\ r.live = p.live /\ r.ok = p.ok
      /\ r \in [st : {r.st}, live : {r.live}, ok : BOOLEAN]
  BY DEF IsPlayback, IsState
<1> HIDE DEF r
<1>2. /\ IsPlayback(r) /\ r.live = p.live /\ r.ok = p.ok
      /\ r.st.active = FALSE /\ r.st.cue = 0 /\ r.st.values = {}
      /\ r.st.effects = p.st.effects
      /\ SameTimestamps(p, r)
  BY <1>1 DEF IsPlayback, IsState, SameTimestamps
<1> DEFINE u == UpdateChannelStates(seq, r)
<1>3. IsPlayback(u) /\ u.live = p.live /\ u.st.effects = p.st.effects
  BY <1>2, UpdateChannelStatesFacts
<1>4. u.ok <=> p.ok /\ HasCue(seq, 0)
  BY <1>2, UpdateChannelStatesFacts
<1>5. u.st.active = FALSE /\ u.st.cue = 0 /\ u.st.values = {} /\ SameTimestamps(p, u)
  BY <1>2, UpdateChannelStatesFacts DEF SameTimestamps
<1>6. Stop(seq, p) = StopEffects(u)
  BY DEF Stop, r, u
<1> HIDE DEF u
<1> QED BY <1>3, <1>4, <1>5, <1>6, StopEffectsFacts DEF SameTimestamps

\* What the commands that move a sequence begin with.
LEMMA StartedFacts ==
  ASSUME NEW p, IsPlayback(p)
  PROVE  LET q == Started(p)
         IN  /\ IsPlayback(q) /\ q.ok = p.ok
             /\ q.live = p.live \ Range(p.st.effects)
             /\ q.st.effects = <<>>
             /\ q.st.active = p.st.active /\ q.st.cue = p.st.cue
             /\ q.st.goAt = "now" /\ q.st.goTimed = FALSE
             /\ q.st.finishedAt = Unset /\ q.st.finishTimed = FALSE
<1> DEFINE r == [p EXCEPT !.st.goAt = "now", !.st.goTimed = FALSE,
                          !.st.finishedAt = Unset, !.st.finishTimed = FALSE]
<1>1. /\ r.st = [p.st EXCEPT !.goAt = "now", !.goTimed = FALSE,
                             !.finishedAt = Unset, !.finishTimed = FALSE]
      /\ r.live = p.live /\ r.ok = p.ok
      /\ r \in [st : {r.st}, live : {r.live}, ok : BOOLEAN]
  BY DEF IsPlayback, IsState
<1>2. Started(p) = StopEffects(r)
  BY DEF Started
<1> HIDE DEF r
<1>3. /\ IsPlayback(r) /\ r.live = p.live /\ r.ok = p.ok
      /\ r.st.active = p.st.active /\ r.st.cue = p.st.cue
      /\ r.st.effects = p.st.effects
      /\ r.st.goAt = "now" /\ r.st.goTimed = FALSE
      /\ r.st.finishedAt = Unset /\ r.st.finishTimed = FALSE
  BY <1>1 DEF IsPlayback, IsState, Pending, Unset
<1> QED BY <1>2, <1>3, StopEffectsFacts

\* Moving to another cue touches neither the effects nor the timestamps.
Moved(p, q) ==
  /\ IsPlayback(q) /\ q.live = p.live
  /\ q.st.effects = <<>> /\ SameTimestamps(p, q)
  /\ ~q.st.active => q.st.cue = 0 /\ q.st.values = {}

\* Playing a given cue.
LEMMA ActivateFacts ==
  ASSUME NEW p, IsPlayback(p), p.st.effects = <<>>, NEW i \in Nat
  PROVE  LET q == Activate(p, i)
         IN  Moved(p, q) /\ q.ok = p.ok /\ q.st.active /\ q.st.cue = i
<1> DEFINE q == Activate(p, i)
<1>1. /\ q.st = [p.st EXCEPT !.active = TRUE, !.cue = i]
      /\ q.live = p.live /\ q.ok = p.ok
      /\ q \in [st : {q.st}, live : {q.live}, ok : BOOLEAN]
  BY DEF IsPlayback, IsState, Activate
<1> HIDE DEF q
<1> QED BY <1>1 DEF IsPlayback, IsState, SameTimestamps, Moved, q

\* Changing the cue of a sequence that is played.
AtCue(p, i) == [p EXCEPT !.st.cue = i]

LEMMA AtCueFacts ==
  ASSUME NEW p, IsPlayback(p), p.st.effects = <<>>, p.st.active, NEW i \in Nat
  PROVE  LET q == AtCue(p, i)
         IN  Moved(p, q) /\ q.ok = p.ok /\ q.st.active /\ q.st.cue = i
<1> DEFINE q == AtCue(p, i)
<1>1. /\ q.st = [p.st EXCEPT !.cue = i]
      /\ q.live = p.live /\ q.ok = p.ok
      /\ q \in [st : {q.st}, live : {q.live}, ok : BOOLEAN]
  BY DEF IsPlayback, IsState, AtCue
<1> HIDE DEF q
<1> QED BY <1>1 DEF IsPlayback, IsState, SameTimestamps, Moved, q

\* The cue after the one that is played.
FollowingCue(seq, st) ==
  IF HasCue(seq, st.cue + 1) THEN st.cue + 1 ELSE 0

LEMMA NextCueFacts ==
  ASSUME NEW p, IsPlayback(p), p.st.effects = <<>>, p.st.active,
         NEW seq, IsSequence(seq)
  PROVE  LET q == NextCue(seq, p)
         IN  /\ Moved(p, q)
             /\ q.st.active <=> seq.wrap \/ HasCue(seq, p.st.cue + 1)
             /\ q.st.cue = FollowingCue(seq, p.st)
             /\ q.ok <=> p.ok /\ (q.st.active \/ HasCue(seq, 0))
<1>1. p.st.cue \in Nat
  BY DEF IsPlayback, IsState
<1>2. CASE HasCue(seq, p.st.cue + 1)
  <2>1. NextCue(seq, p) = AtCue(p, p.st.cue + 1)
    BY <1>2 DEF NextCue, AtCue
  <2> DEFINE q == AtCue(p, p.st.cue + 1)
  <2>2. p.st.cue + 1 \in Nat
    BY <1>1
  <2>3. Moved(p, q) /\ q.ok = p.ok /\ q.st.active /\ q.st.cue = p.st.cue + 1
    BY <2>2, AtCueFacts
  <2> HIDE DEF q
  <2> QED BY <1>2, <2>1, <2>3 DEF FollowingCue, q
<1>3. CASE ~HasCue(seq, p.st.cue + 1) /\ seq.wrap
  <2>1. NextCue(seq, p) = AtCue(p, 0)
    BY <1>3 DEF NextCue, AtCue
  <2> QED BY <1>1, <1>3, <2>1, AtCueFacts DEF FollowingCue
<1>4. CASE ~HasCue(seq, p.st.cue + 1) /\ ~seq.wrap
  <2>1. NextCue(seq, p) = Stop(seq, p)
    BY <1>4 DEF NextCue
  <2> DEFINE q == Stop(seq, p)
  <2>2. Moved(p, q) /\ q.st.active = FALSE /\ q.st.cue = 0
    <3>1. q.live = p.live
      BY StopFacts, NothingIn
    <3> QED BY <3>1, StopFacts DEF Moved
  <2>3. q.ok <=> p.ok /\ HasCue(seq, 0)
    BY StopFacts
  <2> HIDE DEF q
  <2> QED BY <1>4, <2>1, <2>2, <2>3 DEF FollowingCue, q
<1> QED BY <1>2, <1>3, <1>4

\* The cue before it.
LEMMA PrevCueFacts ==
  ASSUME NEW p, IsPlayback(p), p.st.effects = <<>>, p.st.active,
         NEW seq, IsSequence(seq)
  PROVE  LET q == PrevCue(seq, p)
         IN  /\ Moved(p, q)
             /\ q.ok <=> p.ok /\ (q.st.active \/ HasCue(seq, 0))
             /\ HasCue(seq, p.st.cue) => HasCue(seq, q.st.cue)
<1>1. p.st.cue \in Nat /\ LastIndex(seq) \in Nat /\ Cues(seq) \in Nat
  BY CueFacts DEF IsPlayback, IsState
<1>5. HasCue(seq, p.st.cue) => HasCue(seq, LastIndex(seq)) /\ HasCue(seq, 0)
                               /\ HasCue(seq, p.st.cue - 1)
  BY <1>1 DEF HasCue, LastIndex
<1>2. CASE p.st.cue > 0
  <2>1. PrevCue(seq, p) = AtCue(p, p.st.cue - 1)
    BY <1>2 DEF PrevCue, AtCue
  <2>2. p.st.cue - 1 \in Nat
    BY <1>1, <1>2
  <2> QED BY <1>5, <2>1, <2>2, AtCueFacts
<1>3. CASE ~(p.st.cue > 0) /\ seq.wrap
  <2>1. PrevCue(seq, p) = AtCue(p, LastIndex(seq))
    BY <1>3 DEF PrevCue, AtCue
  <2> QED BY <1>1, <1>5, <2>1, AtCueFacts
<1>4. CASE ~(p.st.cue > 0) /\ ~seq.wrap
  <2>1. PrevCue(seq, p) = Stop(seq, p)
    BY <1>4 DEF PrevCue
  <2> DEFINE q == Stop(seq, p)
  <2>2. Moved(p, q) /\ q.st.active = FALSE /\ q.st.cue = 0
    <3>1. q.live = p.live
      BY StopFacts, NothingIn
    <3> QED BY <3>1, StopFacts DEF Moved
  <2>3. q.ok <=> p.ok /\ HasCue(seq, 0)
    BY StopFacts
  <2> HIDE DEF q
  <2> QED BY <1>5, <2>1, <2>2, <2>3 DEF q
<1> QED BY <1>2, <1>3, <1>4

\* A sequence entered a cue: its channels start anew, its effects are
\* stopped, its timers count from now.
Entered(seq, p, q) ==
  /\ IsPlayback(q)
  /\ q.ok <=> p.ok /\ HasCue(seq, q.st.cue)
  /\ q.live = p.live \ Range(p.st.effects) /\ q.st.effects = <<>>
  /\ HasCue(seq, q.st.cue) =>
       q.st.channels = [c \in CueAt(seq, q.st.cue).channels |->
         [is |-> InitialChannelState(CueAt(seq, q.st.cue)), spent |-> NewTimer]]
  /\ q.st.goAt = "now" /\ q.st.goTimed = FALSE
  /\ q.st.finishedAt = Unset /\ q.st.finishTimed = FALSE
  /\ ~q.st.active => q.st.cue = 0 /\ q.st.values = {}

LEMMA EnteredByMoving ==
  ASSUME NEW p, IsPlayback(p), NEW seq, NEW r, Moved(Started(p), r),
         r.ok <=> p.ok /\ (r.st.active \/ HasCue(seq, 0))
  PROVE  LET q == UpdateChannelStates(seq, r)
         IN  Entered(seq, p, q) /\ q.st.active = r.st.active /\ q.st.cue = r.st.cue
<1>1. /\ IsPlayback(r) /\ r.live = p.live \ Range(p.st.effects)
      /\ r.st.effects = <<>>
      /\ r.st.goAt = "now" /\ r.st.goTimed = FALSE
      /\ r.st.finishedAt = Unset /\ r.st.finishTimed = FALSE
      /\ ~r.st.active => r.st.cue = 0 /\ r.st.values = {}
  BY StartedFacts DEF Moved, SameTimestamps
<1> DEFINE q == UpdateChannelStates(seq, r)
<1>2. /\ IsPlayback(q) /\ q.live = p.live \ Range(p.st.effects)
      /\ q.st.effects = <<>>
      /\ q.st.active = r.st.active /\ q.st.cue = r.st.cue /\ q.st.values = r.st.values
  BY <1>1, UpdateChannelStatesFacts
<1>3. q.ok <=> p.ok /\ HasCue(seq, q.st.cue)
  <2>1. q.ok <=> r.ok /\ HasCue(seq, r.st.cue)
    BY <1>1, UpdateChannelStatesFacts
  <2> QED BY <1>1, <1>2, <2>1
<1>4. HasCue(seq, q.st.cue) =>
        q.st.channels = [c \in CueAt(seq, q.st.cue).channels |->
          [is |-> InitialChannelState(CueAt(seq, q.st.cue)), spent |-> NewTimer]]
  BY <1>1, <1>2, UpdateChannelStatesFacts
<1>5. /\ q.st.goAt = "now" /\ q.st.goTimed = FALSE
      /\ q.st.finishedAt = Unset /\ q.st.finishTimed = FALSE
  BY ZenonT(40), <1>1, UpdateChannelStatesFacts
<1> HIDE DEF q
<1> QED BY <1>1, <1>2, <1>3, <1>4, <1>5 DEF Entered, q

LEMMA GoFacts ==
  ASSUME NEW p, IsPlayback(p), NEW seq, IsSequence(seq)
  PROVE  LET q == Go(seq, p)
         IN  /\ Entered(seq, p, q)
             /\ p.st.active =>
                  /\ q.st.active <=> seq.wrap \/ HasCue(seq, p.st.cue + 1)
                  /\ q.st.cue = FollowingCue(seq, p.st)
             /\ ~p.st.active => q.st.active /\ q.st.cue = 0
<1> DEFINE s == Started(p)
<1>1. /\ IsPlayback(s) /\ s.ok = p.ok /\ s.st.effects = <<>>
      /\ s.st.active = p.st.active /\ s.st.cue = p.st.cue
  BY StartedFacts
<1>2. CASE p.st.active
  <2> DEFINE r == NextCue(seq, s)
  <2>1. /\ Moved(s, r)
        /\ r.ok <=> p.ok /\ (r.st.active \/ HasCue(seq, 0))
        /\ r.st.active <=> seq.wrap \/ HasCue(seq, p.st.cue + 1)
        /\ r.st.cue = FollowingCue(seq, p.st)
    <3> HIDE DEF s
    <3>1. /\ Moved(s, r)
          /\ r.ok <=> s.ok /\ (r.st.active \/ HasCue(seq, 0))
          /\ r.st.active <=> seq.wrap \/ HasCue(seq, s.st.cue + 1)
          /\ r.st.cue = FollowingCue(seq, s.st)
      BY <1>1, <1>2, NextCueFacts
    <3>2. FollowingCue(seq, s.st) = FollowingCue(seq, p.st)
      BY <1>1 DEF FollowingCue
    <3> HIDE DEF r
    <3> QED BY <1>1, <3>1, <3>2
  <2>2. Go(seq, p) = UpdateChannelStates(seq, r)
    BY <1>2 DEF Go
  <2> HIDE DEF r
  <2> QED BY <1>2, <2>1, <2>2, EnteredByMoving
<1>3. CASE ~p.st.active
  <2> DEFINE r == Activate(s, 0)
  <2>1. Moved(s, r) /\ r.ok = p.ok /\ r.st.active /\ r.st.cue = 0
    <3> HIDE DEF s
    <3> QED BY <1>1, ActivateFacts
  <2>2. Go(seq, p) = UpdateChannelStates(seq, r)
    BY <1>3 DEF Go
  <2> HIDE DEF r
  <2> QED BY <1>3, <2>1, <2>2, EnteredByMoving
<1> QED BY <1>2, <1>3

LEMMA GoBackwardFacts ==
  ASSUME NEW p, IsPlayback(p), NEW seq, IsSequence(seq)
  PROVE  LET q == GoBackward(seq, p)
         IN  /\ Entered(seq, p, q)
             /\ Cues(seq) > 0 /\ (p.st.active => HasCue(seq, p.st.cue)) => HasCue(seq, q.st.cue)
<1> DEFINE s == Started(p)
<1>1. /\ IsPlayback(s) /\ s.ok = p.ok /\ s.st.effects = <<>>
      /\ s.st.active = p.st.active /\ s.st.cue = p.st.cue
  BY StartedFacts
<1>2. CASE p.st.active
  <2> DEFINE r == PrevCue(seq, s)
  <2>1. /\ Moved(s, r)
        /\ r.ok <=> p.ok /\ (r.st.active \/ HasCue(seq, 0))
        /\ HasCue(seq, p.st.cue) => HasCue(seq, r.st.cue)
    <3> HIDE DEF s
    <3> QED BY <1>1, <1>2, PrevCueFacts
  <2>2. GoBackward(seq, p) = UpdateChannelStates(seq, r)
    BY <1>2 DEF GoBackward
  <2> HIDE DEF r
  <2> QED BY <1>2, <2>1, <2>2, EnteredByMoving
<1>3. CASE ~p.st.active
  <2> DEFINE r == Activate(s, LastIndex(seq))
  <2>1. Moved(s, r) /\ r.ok = p.ok /\ r.st.active /\ r.st.cue = LastIndex(seq)
    <3> HIDE DEF s
    <3> QED BY <1>1, ActivateFacts, CueFacts
  <2>2. GoBackward(seq, p) = UpdateChannelStates(seq, r)
    BY <1>3 DEF GoBackward
  <2>3. Cues(seq) > 0 => HasCue(seq, LastIndex(seq))
    BY CueFacts DEF HasCue, LastIndex
  <2> HIDE DEF r
  <2> QED BY <1>3, <2>1, <2>2, <2>3, EnteredByMoving
<1> QED BY <1>2, <1>3

LEMMA GoToFacts ==
  ASSUME NEW p, IsPlayback(p), NEW seq, IsSequence(seq), NEW id \in DOMAIN seq.cues
  PROVE  LET q == GoTo(seq, p, id)
         IN  Entered(seq, p, q) /\ q.st.active /\ q.st.cue = id - 1 /\ HasCue(seq, q.st.cue)
<1> DEFINE s == Started(p)
           r == Activate(s, id - 1)
<1>1. /\ IsPlayback(s) /\ s.ok = p.ok /\ s.st.effects = <<>>
      /\ s.st.active = p.st.active /\ s.st.cue = p.st.cue
  BY StartedFacts
<1>2. id \in 1 .. Cues(seq) /\ Cues(seq) \in Nat /\ id - 1 \in Nat /\ HasCue(seq, id - 1)
  BY CueFacts DEF HasCue
<1>3. Moved(s, r) /\ r.ok = p.ok /\ r.st.active /\ r.st.cue = id - 1
  <2> HIDE DEF s
  <2> QED BY <1>1, <1>2, ActivateFacts
<1>4. GoTo(seq, p, id) = UpdateChannelStates(seq, r)
  BY DEF GoTo
<1> HIDE DEF r
<1> QED BY <1>2, <1>3, <1>4, EnteredByMoving

-----------------------------------------------------------------------------
(* One frame of a playback *)

\* The timers are brought up to date, and count from their timestamps.
LEMMA UpdateTimestampsFacts ==
  ASSUME NEW st, IsState(st)
  PROVE  LET new == UpdateTimestamps(st)
         IN  /\ IsState(new)
             /\ new.active = st.active /\ new.cue = st.cue /\ new.rate = st.rate
             /\ new.goAt = st.goAt /\ new.goTimed = (st.goAt # Unset)
             /\ new.finishedAt = st.finishedAt /\ new.finishTimed = Finished(st)
             /\ new.channels = st.channels /\ new.values = st.values
             /\ new.effects = st.effects
             /\ st.goAt # Unset =>
                  new.sinceGo = Forward(Restarted(st.sinceGo, st.goAt, st.goTimed), st.rate)
             /\ Finished(st) =>
                  new.sinceFinished =
                    Forward(Restarted(st.sinceFinished, st.finishedAt, st.finishTimed), st.rate)
<1> DEFINE new == UpdateTimestamps(st)
           go  == IF st.goAt = Unset THEN st.sinceGo
                  ELSE Forward(Restarted(st.sinceGo, st.goAt, st.goTimed), st.rate)
           finished == IF Finished(st)
                       THEN Forward(Restarted(st.sinceFinished, st.finishedAt, st.finishTimed), st.rate)
                       ELSE st.sinceFinished
           timed == st.goAt # Unset
           done == Finished(st)
<1>1. go \in Timer /\ finished \in Timer
  <2>1. /\ st.sinceGo \in Timer /\ st.sinceFinished \in Timer /\ st.rate \in Rates
        /\ st.goTimed \in BOOLEAN /\ st.finishTimed \in BOOLEAN
    BY DEF IsState
  <2>2. /\ Restarted(st.sinceGo, st.goAt, st.goTimed) \in Timer
        /\ Restarted(st.sinceFinished, st.finishedAt, st.finishTimed) \in Timer
    BY <2>1, MaxTimeAssumption DEF Restarted, Timer
  <2> QED BY <2>1, <2>2, TimerFacts
<1>2. new = [active |-> st.active, cue |-> st.cue, rate |-> st.rate,
             goAt |-> st.goAt, goTimed |-> timed, sinceGo |-> go,
             finishedAt |-> st.finishedAt, finishTimed |-> done,
             sinceFinished |-> finished,
             channels |-> st.channels, values |-> st.values, effects |-> st.effects]
  <2>1. new = [st EXCEPT !.sinceGo = go, !.goTimed = timed,
                         !.sinceFinished = finished, !.finishTimed = done]
    BY DEF UpdateTimestamps, IsState
  <2> HIDE DEF new, go, finished, timed, done
  <2> QED BY <2>1 DEF IsState
<1>3. go = (IF st.goAt = Unset THEN st.sinceGo
            ELSE Forward(Restarted(st.sinceGo, st.goAt, st.goTimed), st.rate))
      /\ finished = (IF Finished(st)
                     THEN Forward(Restarted(st.sinceFinished, st.finishedAt, st.finishTimed), st.rate)
                     ELSE st.sinceFinished)
  OBVIOUS
<1>4. timed \in BOOLEAN /\ done \in BOOLEAN
  BY DEF Finished
<1> HIDE DEF new, go, finished, timed, done
<1>5. IsState(new)
  BY <1>1, <1>2, <1>4 DEF IsState
<1> QED BY <1>2, <1>3, <1>5 DEF new, timed, done

\* The playback that Sequence::run looks at before it moves on.
Updated(seq, p) ==
  [p EXCEPT !.st = UpdateTimestamps(@),
            !.ok = @ /\ ~(seq.wrap /\ Cues(seq) = 0)]

LEMMA UpdatedFacts ==
  ASSUME NEW p, IsPlayback(p), NEW seq
  PROVE  LET q == Updated(seq, p)
         IN  /\ IsPlayback(q) /\ q.st = UpdateTimestamps(p.st) /\ q.live = p.live
             /\ q.ok = (p.ok /\ ~(seq.wrap /\ Cues(seq) = 0))
<1> DEFINE q == Updated(seq, p)
<1>1. /\ q.st = UpdateTimestamps(p.st) /\ q.live = p.live
      /\ q.ok = (p.ok /\ ~(seq.wrap /\ Cues(seq) = 0))
      /\ q \in [st : {q.st}, live : {q.live}, ok : {q.ok}]
  BY DEF Updated, IsPlayback
<1>2. IsState(UpdateTimestamps(p.st))
  BY UpdateTimestampsFacts DEF IsPlayback
<1>3. q.ok \in BOOLEAN
  BY <1>1
<1> HIDE DEF q
<1> QED BY <1>1, <1>2, <1>3 DEF IsPlayback, q

\* A channel of a playing cue makes a step.
LEMMA ProgressedFacts ==
  ASSUME NEW channel \in ChannelState, NEW delay, NEW fade, NEW rate \in Rates
  PROVE  Progressed(channel, delay, fade, rate) \in ChannelState
<1> DEFINE spent == Forward(channel.spent, rate)
<1>1. spent \in Timer /\ NewTimer \in Timer
  BY TimerFacts DEF ChannelState
<1> HIDE DEF spent
<1> QED BY <1>1 DEF ChannelState, Progressed, spent

\* The new channels of a playing cue.
ChannelsOf(cue, st) ==
  [c \in DOMAIN st.channels |->
     IF c \in cue.channels
     THEN Progressed(st.channels[c], TimeOf(cue.delay, c), TimeOf(cue.fade, c), st.rate)
     ELSE st.channels[c]]

LEMMA UpdateStateFacts ==
  ASSUME NEW st, IsState(st), NEW cue
  PROVE  LET new == UpdateState(cue, st)
         IN  /\ IsState(new)
             /\ new.active = st.active /\ new.cue = st.cue /\ new.rate = st.rate
             /\ new.goAt = st.goAt /\ new.goTimed = st.goTimed /\ new.sinceGo = st.sinceGo
             /\ new.values = st.values /\ new.effects = st.effects
             /\ new.sinceFinished = st.sinceFinished
             /\ Finished(st) => new = st
             /\ ~Finished(st) =>
                  /\ new.finishedAt = (IF IsDone(st) THEN "now" ELSE Unset)
                  /\ new.finishTimed = FALSE
                  /\ new.channels = ChannelsOf(cue, st)
<1> DEFINE new == UpdateState(cue, st)
<1>1. CASE Finished(st)
  BY <1>1 DEF UpdateState
<1>2. CASE ~Finished(st)
  <2> DEFINE channels == ChannelsOf(cue, st)
             at == IF IsDone(st) THEN "now" ELSE Unset
  <2>1. \A c \in DOMAIN channels : channels[c] \in ChannelState
    <3>1. \A c \in DOMAIN st.channels : st.channels[c] \in ChannelState
      BY DEF IsState
    <3>2. st.rate \in Rates
      BY DEF IsState
    <3> QED BY <3>1, <3>2, ProgressedFacts DEF ChannelsOf
  <2>2. at \in Pending
    BY DEF Pending, Unset
  <2>3. new = [st EXCEPT !.finishedAt = at, !.finishTimed = FALSE, !.channels = channels]
    BY <1>2 DEF UpdateState, ChannelsOf
  <2> HIDE DEF channels, at, new
  <2>4. new = [active |-> st.active, cue |-> st.cue, rate |-> st.rate,
             goAt |-> st.goAt, goTimed |-> st.goTimed, sinceGo |-> st.sinceGo,
             finishedAt |-> at, finishTimed |-> FALSE,
             sinceFinished |-> st.sinceFinished,
             channels |-> channels, values |-> st.values, effects |-> st.effects]
    BY <2>3 DEF IsState
  <2>5. IsState(new)
    BY <2>1, <2>2, <2>4 DEF IsState
  <2> QED BY <1>2, <2>4, <2>5 DEF new, at, channels
<1> QED BY <1>1, <1>2

\* A playback runs exactly the effects that its state holds.
Own(id, p) ==
  /\ p.live = Range(p.st.effects)
  /\ \A i \in p.live : i.sequence = id

\* Running a cue: its channels progress, its values are written and the
\* effects that do not run yet are started.
LEMMA OutputFacts ==
  ASSUME NEW p, IsPlayback(p), NEW id, NEW cue
  PROVE  LET q  == Output(id, cue, p)
             st == UpdateState(cue, p.st)
         IN  /\ IsPlayback(q) /\ q.ok = p.ok
             /\ q.st.active = p.st.active /\ q.st.cue = p.st.cue /\ q.st.rate = p.st.rate
             /\ q.st.goAt = p.st.goAt /\ q.st.goTimed = p.st.goTimed
             /\ q.st.sinceGo = p.st.sinceGo
             /\ q.st.finishedAt = st.finishedAt /\ q.st.finishTimed = st.finishTimed
             /\ q.st.sinceFinished = st.sinceFinished
             /\ q.st.channels = st.channels
             /\ DOMAIN q.st.effects = DOMAIN p.st.effects \cup cue.effects
             /\ q.st.values \subseteq p.st.values \cup cue.channels
             /\ Own(id, p) => Own(id, q)
<1> DEFINE q  == Output(id, cue, p)
           st == UpdateState(cue, p.st)
           values  == st.values \cup Written(cue, st)
           started == [e \in cue.effects \ DOMAIN p.st.effects |-> NewInstance(id, e, p.live)]
           effects == [e \in DOMAIN p.st.effects \cup DOMAIN started |->
                         IF e \in DOMAIN started THEN started[e] ELSE p.st.effects[e]]
<1>1. /\ IsState(st)
      /\ st.active = p.st.active /\ st.cue = p.st.cue /\ st.rate = p.st.rate
      /\ st.goAt = p.st.goAt /\ st.goTimed = p.st.goTimed /\ st.sinceGo = p.st.sinceGo
      /\ st.effects = p.st.effects /\ st.values = p.st.values
  BY ZenonT(40), UpdateStateFacts DEF IsPlayback
<1>2. /\ q.st = [st EXCEPT !.values = values, !.effects = effects]
      /\ q.live = p.live \cup Range(started) /\ q.ok = p.ok
      /\ q \in [st : {q.st}, live : {q.live}, ok : BOOLEAN]
  <2> DEFINE r == [p EXCEPT !.st = [st EXCEPT !.values = values]]
  <2>1. q = RunEffects(id, cue, r)
    BY <1>1 DEF Output, IsState
  <2>2. /\ r.st = [st EXCEPT !.values = values] /\ r.live = p.live /\ r.ok = p.ok
        /\ r \in [st : {r.st}, live : {r.live}, ok : BOOLEAN]
    BY DEF IsPlayback
  <2>3. r.st.effects = p.st.effects
    BY <1>1, <2>2 DEF IsState
  <2> HIDE DEF r, st, values
  <2>4. RunEffects(id, cue, r) = [r EXCEPT !.live = p.live \cup Range(started), !.st.effects = effects]
    BY <2>2, <2>3 DEF RunEffects
  <2> HIDE DEF q, started, effects
  <2>5. q.st = [r.st EXCEPT !.effects = effects]
    BY <2>1, <2>2, <2>4
  <2>6. /\ q.live = p.live \cup Range(started) /\ q.ok = p.ok
        /\ q \in [st : {q.st}, live : {q.live}, ok : BOOLEAN]
    BY <2>1, <2>2, <2>4
  <2> QED BY <1>1, <2>2, <2>5, <2>6 DEF IsState
<1>3. DOMAIN effects = DOMAIN p.st.effects \cup cue.effects
  OBVIOUS
<1>9. values \subseteq p.st.values \cup cue.channels
  BY <1>1 DEF Written
<1>4. ASSUME Own(id, p) PROVE Range(effects) = p.live \cup Range(started) /\ \A i \in Range(started) : i.sequence = id
  <2>1. Range(effects) = Range(p.st.effects) \cup Range(started)
    <3> DEFINE new == DOMAIN started
    <3>1. new \cap DOMAIN p.st.effects = {} /\ DOMAIN effects = DOMAIN p.st.effects \cup new
      OBVIOUS
    <3>2. /\ \A e \in new : effects[e] = started[e]
          /\ \A e \in DOMAIN p.st.effects : effects[e] = p.st.effects[e]
      OBVIOUS
    <3> HIDE DEF new, effects, started
    <3> QED BY <3>1, <3>2 DEF Range, new
  <2>2. \A i \in Range(started) : i.sequence = id
    <3>1. \A e : NewInstance(id, e, p.live).sequence = id
      BY DEF NewInstance
    <3> QED BY <3>1 DEF Range
  <2> QED BY <1>4, <2>1, <2>2 DEF Own
<1> HIDE DEF q, st, values, started, effects
<1>5. q.st = [active |-> st.active, cue |-> st.cue, rate |-> st.rate,
             goAt |-> st.goAt, goTimed |-> st.goTimed, sinceGo |-> st.sinceGo,
             finishedAt |-> st.finishedAt, finishTimed |-> st.finishTimed,
             sinceFinished |-> st.sinceFinished,
             channels |-> st.channels, values |-> values, effects |-> effects]
  BY <1>1, <1>2 DEF IsState
<1>6. IsState(q.st)
  BY <1>1, <1>5 DEF IsState
<1>7. IsPlayback(q)
  BY <1>2, <1>6 DEF IsPlayback
<1>8. Own(id, p) => Own(id, q)
  BY <1>2, <1>4, <1>5 DEF Own
<1> QED BY <1>1, <1>2, <1>3, <1>5, <1>7, <1>8, <1>9 DEF q, st

\* The state of a sequence that is being played.
Running(seq, p) == IsPlayback(p) /\ p.st.active /\ HasCue(seq, p.st.cue)

\* A sequence that goes on by itself.
LEMMA AdvancedSteps ==
  ASSUME NEW seq, NEW p
  PROVE  Advanced(seq, p) = LeaveMissingCue(seq, AutoStop(seq, AutoGo(seq, Updated(seq, p))))
  BY DEF Advanced, Updated

\* It always stands at a cue that exists afterwards, if there is one.
LEMMA AdvancedFacts ==
  ASSUME NEW seq, IsSequence(seq), NEW p, IsPlayback(p)
  PROVE  LET q == Advanced(seq, p)
         IN  /\ IsPlayback(q)
             /\ Cues(seq) > 0 => HasCue(seq, q.st.cue)
             /\ p.st.active => (~q.st.active => q.st.cue = 0)
<1> DEFINE u == Updated(seq, p)
           g == AutoGo(seq, u)
           s == AutoStop(seq, g)
<1>1. IsPlayback(u) /\ u.st.active = p.st.active
  <2>1. IsPlayback(u) /\ u.st = UpdateTimestamps(p.st)
    BY UpdatedFacts
  <2>2. IsState(p.st)
    BY DEF IsPlayback
  <2> QED BY <2>1, <2>2, UpdateTimestampsFacts
<1> HIDE DEF u
<1>2. IsPlayback(g) /\ (u.st.active => (~g.st.active => g.st.cue = 0))
  BY <1>1, GoFacts DEF AutoGo, Entered
<1> HIDE DEF g
<1>3. IsPlayback(s) /\ (u.st.active => (~s.st.active => s.st.cue = 0))
  BY <1>1, <1>2, GoFacts DEF AutoStop, Entered
<1> HIDE DEF s
<1>4. Advanced(seq, p) = LeaveMissingCue(seq, s)
  BY AdvancedSteps DEF s, g, u
<1>5. CASE HasCue(seq, s.st.cue)
  BY <1>1, <1>3, <1>4, <1>5 DEF LeaveMissingCue
<1>6. CASE ~HasCue(seq, s.st.cue)
  <2>1. Advanced(seq, p) = Go(seq, s)
    BY <1>4, <1>6 DEF LeaveMissingCue
  <2>2. Go(seq, s).st.cue = FollowingCue(seq, s.st) \/ Go(seq, s).st.cue = 0
    BY <1>3, GoFacts DEF IsPlayback, IsState
  <2>3. Cues(seq) > 0 => HasCue(seq, Go(seq, s).st.cue)
    BY <2>2 DEF HasCue, FollowingCue
  <2>4. /\ IsPlayback(Go(seq, s))
        /\ ~Go(seq, s).st.active => Go(seq, s).st.cue = 0
    BY <1>3, GoFacts DEF Entered
  <2> QED BY <2>1, <2>3, <2>4
<1> QED BY <1>5, <1>6

\* What Sequence::run leaves behind.
LEMMA RunFacts ==
  ASSUME NEW seq, IsSequence(seq), NEW p, IsPlayback(p), NEW id
  PROVE  LET q == Run(id, seq, p)
         IN  /\ IsPlayback(q)
             /\ p.st.active =>
                  /\ Cues(seq) > 0 => HasCue(seq, q.st.cue)
                  /\ ~q.st.active => q.st.cue = 0
             /\ ~p.st.active => q = p
<1> DEFINE a == Advanced(seq, p)
           q == Run(id, seq, p)
<1>1. CASE ~p.st.active
  BY <1>1 DEF Run
<1>2. CASE p.st.active /\ ~HasCue(seq, a.st.cue)
  <2>1. q = a
    BY <1>2 DEF Run
  <2> QED BY <1>2, <2>1, AdvancedFacts
<1>3. CASE p.st.active /\ HasCue(seq, a.st.cue)
  <2>1. q = Output(id, CueAt(seq, a.st.cue), a)
    BY <1>3 DEF Run
  <2>2. IsPlayback(a) /\ (~a.st.active => a.st.cue = 0)
    BY <1>3, AdvancedFacts
  <2> HIDE DEF a, q
  <2>3. IsPlayback(q) /\ q.st.active = a.st.active /\ q.st.cue = a.st.cue
    BY <2>1, <2>2, OutputFacts
  <2> QED BY <1>3, <2>2, <2>3 DEF q
<1> QED BY <1>1, <1>2, <1>3

\* An active sequence whose cues stay goes on in no other way than by entering
\* the next cue, if that is due, or by stopping at its first, if it stops by
\* itself.
LEMMA SteadyAdvance ==
  ASSUME NEW seq, IsSequence(seq), NEW p, Running(seq, p)
  PROVE  LET q == Advanced(seq, p)
             u == Updated(seq, p)
         IN  /\ IsPlayback(q) /\ HasCue(seq, q.st.cue)
             /\ \/ q = u /\ q.st.active
                \/ /\ Entered(seq, u, q) /\ q.st.active
                   /\ ShouldGo(CueAt(seq, q.st.cue), u.st)
                \/ /\ Entered(seq, u, q) /\ ~q.st.active
                   /\ seq.stopOnLast /\ q.st.cue = 0
<1> DEFINE u == Updated(seq, p)
           q == Advanced(seq, p)
<1>1. /\ IsPlayback(u) /\ u.st.active = p.st.active /\ u.st.cue = p.st.cue
      /\ p.st.active /\ HasCue(seq, p.st.cue)
  <2>1. IsPlayback(u) /\ u.st = UpdateTimestamps(p.st)
    BY UpdatedFacts DEF Running
  <2>2. IsState(p.st)
    BY DEF IsPlayback, Running
  <2> HIDE DEF u
  <2>3. /\ UpdateTimestamps(p.st).active = p.st.active
        /\ UpdateTimestamps(p.st).cue = p.st.cue
    BY <2>2, UpdateTimestampsFacts
  <2> QED BY <2>1, <2>3 DEF Running
<1> HIDE DEF u
<1>2. CASE \E cue \in NextCues(seq, u.st) : ShouldGo(cue, u.st)
  <2> DEFINE g == Go(seq, u)
  <2>1. PICK cue \in NextCues(seq, u.st) : ShouldGo(cue, u.st)
    BY <1>2
  <2>2. AutoGo(seq, u) = g
    BY <1>2 DEF AutoGo
  <2>3. /\ HasCue(seq, FollowingCue(seq, u.st)) /\ CueAt(seq, FollowingCue(seq, u.st)) = cue
        /\ seq.wrap \/ HasCue(seq, u.st.cue + 1)
    <3>1. CASE HasCue(seq, u.st.cue + 1)
      BY <2>1, <3>1 DEF NextCues, FollowingCue
    <3>2. CASE ~HasCue(seq, u.st.cue + 1)
      BY <2>1, <3>2 DEF NextCues, FollowingCue
    <3> QED BY <3>1, <3>2
  <2>4. Entered(seq, u, g)
    BY <1>1, GoFacts
  <2>5. g.st.cue = FollowingCue(seq, u.st)
    BY <1>1, GoFacts
  <2>6. g.st.active
    BY <1>1, <2>3, GoFacts
  <2> HIDE DEF g
  <2>7. Running(seq, g) /\ ShouldGo(CueAt(seq, g.st.cue), u.st)
    BY <2>1, <2>3, <2>4, <2>5, <2>6 DEF Running, Entered
  <2>8. AutoStop(seq, g) = g
    BY <2>4 DEF AutoStop, Entered, Finished
  <2>9. LeaveMissingCue(seq, g) = g
    BY <2>7 DEF LeaveMissingCue, Running
  <2>10. q = g
    BY <2>2, <2>8, <2>9, AdvancedSteps DEF u
  <2> QED BY <2>4, <2>7, <2>10 DEF u, Running
<1>3. CASE /\ ~\E cue \in NextCues(seq, u.st) : ShouldGo(cue, u.st)
           /\ ~(NextCues(seq, u.st) = {} /\ Finished(u.st) /\ seq.stopOnLast)
  <2>1. AutoGo(seq, u) = u /\ AutoStop(seq, u) = u /\ LeaveMissingCue(seq, u) = u
    BY <1>1, <1>3 DEF AutoGo, AutoStop, LeaveMissingCue
  <2>2. q = u
    BY <2>1, AdvancedSteps DEF u
  <2> QED BY <1>1, <2>2 DEF u
<1>4. CASE /\ ~\E cue \in NextCues(seq, u.st) : ShouldGo(cue, u.st)
           /\ NextCues(seq, u.st) = {} /\ Finished(u.st) /\ seq.stopOnLast
  <2> DEFINE g == Go(seq, u)
  <2>1. AutoGo(seq, u) = u /\ AutoStop(seq, u) = g
    BY <1>4 DEF AutoGo, AutoStop
  <2>2. HasCue(seq, 0)
    BY <1>1, CueFacts DEF HasCue, IsPlayback, IsState
  <2>3. ~HasCue(seq, u.st.cue + 1) /\ ~seq.wrap
    BY <1>4, <2>2 DEF NextCues
  <2>4. Entered(seq, u, g)
    BY <1>1, GoFacts
  <2>5. ~g.st.active
    BY <1>1, <2>3, GoFacts
  <2> HIDE DEF g
  <2>6. IsPlayback(g) /\ g.st.cue = 0
    BY <2>4, <2>5 DEF Entered
  <2>7. LeaveMissingCue(seq, g) = g
    BY <2>2, <2>6 DEF LeaveMissingCue
  <2>8. q = g
    BY <2>1, <2>7, AdvancedSteps DEF u
  <2> QED BY <1>4, <2>2, <2>4, <2>5, <2>6, <2>8 DEF u
<1> QED BY <1>2, <1>3, <1>4

-----------------------------------------------------------------------------
(* Types *)

Message ==
  [type : {"GoForward", "GoBackward", "Stop", "DropState"}, id : SequenceId]
    \cup [type : {"GoTo"}, id : SequenceId, cue : Nat]
    \cup [type : {"SetRate"}, id : SequenceId, rate : Rates]

AreSequences(f) ==
  DOMAIN f \subseteq SequenceId /\ \A id \in DOMAIN f : IsSequence(f[id])

AreStates(f) ==
  DOMAIN f \subseteq SequenceId /\ \A id \in DOMAIN f : IsState(f[id])

QueueInv == queue \in Seq(Message) /\ Len(queue) <= QueueSize
OrderInv == order \in Seq(SequenceId) /\ IsInjective(order)
ViewInv  == DOMAIN view \subseteq SequenceId
ClockInv == port \in [SequenceId -> Rates] /\ age \in [SequenceId -> 0 .. MaxTime]

PhaseInv == phase \in Phase /\ commands \in 0 .. MaxCommands
SequencesInv == AreSequences(sequences)
StatesInv    == AreStates(states)

TypeInv ==
  PhaseInv /\ QueueInv /\ OrderInv /\ ViewInv /\ ClockInv /\ SequencesInv /\ StatesInv

LEMMA TypeInvImpliesTypeOK == TypeInv => TypeOK
<1> SUFFICES ASSUME TypeInv PROVE TypeOK
  OBVIOUS
<1>1. ASSUME NEW id \in DOMAIN states
      PROVE  LET st == states[id]
             IN  /\ st.active \in BOOLEAN /\ st.cue \in Nat /\ st.rate \in Rate \cup {1}
                 /\ {st.goAt, st.finishedAt} \subseteq Pending
                 /\ {st.sinceGo.time, st.sinceFinished.time} \subseteq 0 .. MaxTime
                 /\ \A c \in DOMAIN st.channels :
                      st.channels[c].is \in {"Delay", "Fading", "Active"}
  <2> DEFINE st == states[id]
  <2>1. IsState(st)
    BY DEF TypeInv, StatesInv, AreStates
  <2> HIDE DEF st
  <2>2. st.active \in BOOLEAN /\ st.cue \in Nat /\ st.rate \in Rate \cup {1}
        /\ st.goAt \in Pending /\ st.finishedAt \in Pending
    BY <2>1 DEF IsState, Rates
  <2>3. st.sinceGo \in Timer /\ st.sinceFinished \in Timer
    BY <2>1 DEF IsState
  <2>4. \A c \in DOMAIN st.channels : st.channels[c].is \in {"Delay", "Fading", "Active"}
    BY <2>1 DEF IsState, ChannelState
  <2> QED BY <2>2, <2>3, <2>4 DEF Timer, st
<1>2. /\ phase \in Phase /\ commands \in 0 .. MaxCommands
      /\ Len(queue) <= QueueSize
      /\ DOMAIN sequences \subseteq SequenceId /\ DOMAIN view \subseteq SequenceId
      /\ port \in [SequenceId -> Rate \cup {1}]
      /\ age \in [SequenceId -> 0 .. MaxTime]
  BY DEF TypeInv, PhaseInv, QueueInv, ViewInv, ClockInv, SequencesInv, AreSequences, Rates
<1> QED BY <1>1, <1>2 DEF TypeOK

\* The order, with an element moved in or out.
LEMMA InsertedFacts ==
  ASSUME NEW S, NEW s \in Seq(S), IsInjective(s), NEW x \in S
  PROVE  /\ Inserted(s, x) \in Seq(S) /\ IsInjective(Inserted(s, x))
         /\ Range(Inserted(s, x)) = Range(s) \cup {x}
         /\ x \notin Range(s) => Inserted(s, x) # <<>> /\ Last(Inserted(s, x)) = x
<1>1. CASE x \in Range(s)
  BY <1>1 DEF Inserted
<1>2. CASE x \notin Range(s)
  <2> DEFINE t == Append(s, x)
             n == Len(s)
  <2>1. n \in Nat /\ DOMAIN s = 1 .. n /\ t \in Seq(S) /\ t # <<>> /\ Len(t) = n + 1 /\ DOMAIN t = 1 .. n + 1
    OBVIOUS
  <2>2. t[n + 1] = x /\ \A i \in 1 .. n : t[i] = s[i]
    OBVIOUS
  <2> HIDE DEF t, n
  <2>3. \A i \in 1 .. n : s[i] \in Range(s)
    BY <2>1 DEF Range
  <2>4. IsInjective(t)
    <3> SUFFICES ASSUME NEW i \in 1 .. n + 1, NEW j \in 1 .. n + 1, t[i] = t[j] PROVE i = j
      BY <2>1 DEF IsInjective
    <3>1. CASE i \in 1 .. n /\ j \in 1 .. n
      BY <2>1, <2>2, <3>1 DEF IsInjective
    <3>2. CASE i = n + 1 /\ j \in 1 .. n
      BY <1>2, <2>1, <2>2, <2>3, <3>2
    <3>3. CASE i \in 1 .. n /\ j = n + 1
      BY <1>2, <2>1, <2>2, <2>3, <3>3
    <3> QED BY <2>1, <3>1, <3>2, <3>3
  <2>5. Range(t) = Range(s) \cup {x}
    <3>1. Range(t) = {t[i] : i \in 1 .. n + 1} /\ Range(s) = {s[i] : i \in 1 .. n}
      BY <2>1 DEF Range
    <3>2. 1 .. n + 1 = 1 .. n \cup {n + 1}
      BY <2>1
    <3> QED BY <2>1, <2>2, <3>1, <3>2
  <2>6. Last(t) = x
    BY <2>1, <2>2 DEF Last
  <2>7. Inserted(s, x) = t
    BY <1>2 DEF Inserted, t
  <2> QED BY <1>2, <2>1, <2>4, <2>5, <2>6, <2>7
<1> QED BY <1>1, <1>2

LEMMA RemovedFacts ==
  ASSUME NEW S, NEW s \in Seq(S), IsInjective(s), NEW x
  PROVE  /\ Removed(s, x) \in Seq(S) /\ IsInjective(Removed(s, x))
         /\ Range(Removed(s, x)) = Range(s) \ {x}
<1>1. CASE x \notin Range(s)
  BY <1>1 DEF Removed
<1>2. CASE x \in Range(s)
  <2> DEFINE k == CHOOSE i \in DOMAIN s : s[i] = x
             n == Len(s)
             t == SubSeq(s, 1, k - 1) \o SubSeq(s, k + 1, n)
  <2>1. n \in Nat /\ DOMAIN s = 1 .. n /\ \A i \in 1 .. n : s[i] \in S
    OBVIOUS
  <2>2. k \in 1 .. n /\ s[k] = x /\ k \in Int /\ k <= n
    BY <1>2, <2>1 DEF Range
  <2> HIDE DEF k, n
  <2>3. /\ SubSeq(s, 1, k - 1) \in Seq(S) /\ Len(SubSeq(s, 1, k - 1)) = k - 1
        /\ \A i \in 1 .. k - 1 : SubSeq(s, 1, k - 1)[i] = s[i]
    BY <2>1, <2>2
  <2>4. /\ SubSeq(s, k + 1, n) \in Seq(S) /\ Len(SubSeq(s, k + 1, n)) = n - k
        /\ \A i \in 1 .. n - k : SubSeq(s, k + 1, n)[i] = s[k + i]
    <3> DEFINE b == SubSeq(s, k + 1, n)
    <3>1. /\ b \in Seq(S) /\ Len(b) = IF k + 1 <= n THEN n - (k + 1) + 1 ELSE 0
          /\ \A i \in 1 .. n - (k + 1) + 1 : b[i] = s[(k + 1) + i - 1]
      BY <2>1, <2>2, SubSeqProperties
    <3> HIDE DEF b
    <3>2. n \in Int /\ k \in Int /\ n - (k + 1) + 1 = n - k /\ (k + 1 <= n <=> k < n)
      BY <2>1, <2>2
    <3>3. Len(b) = n - k
      <4>1. CASE k < n
        BY <3>1, <3>2, <4>1
      <4>2. CASE k = n
        <5>1. ~(k + 1 <= n) /\ n - k = 0
          BY <3>2, <4>2
        <5> QED BY <3>1, <5>1
      <4>3. k < n \/ k = n
        BY <2>2, <3>2
      <4> QED BY <4>1, <4>2, <4>3
    <3>4. ASSUME NEW i \in 1 .. n - k PROVE b[i] = s[k + i]
      <4>1. (k + 1) + i - 1 = k + i
        BY <3>2
      <4> QED BY <3>1, <3>2, <4>1
    <3> QED BY <3>1, <3>3, <3>4 DEF b
  <2>5. /\ t \in Seq(S) /\ Len(t) = n - 1 /\ DOMAIN t = 1 .. n - 1
        /\ \A i \in 1 .. n - 1 : t[i] = IF i < k THEN s[i] ELSE s[i + 1]
    <3> DEFINE a == SubSeq(s, 1, k - 1)
               b == SubSeq(s, k + 1, n)
    <3>1. /\ a \in Seq(S) /\ Len(a) = k - 1 /\ \A i \in 1 .. k - 1 : a[i] = s[i]
          /\ b \in Seq(S) /\ Len(b) = n - k /\ \A i \in 1 .. n - k : b[i] = s[k + i]
      BY <2>3, <2>4
    <3> HIDE DEF a, b
    <3>2. /\ a \o b \in Seq(S) /\ Len(a \o b) = n - 1
          /\ \A i \in 1 .. n - 1 : (a \o b)[i] = IF i <= k - 1 THEN a[i] ELSE b[i - (k - 1)]
      <4>1. Len(a) + Len(b) = n - 1
        BY <2>1, <2>2, <3>1
      <4>2. /\ a \o b \in Seq(S) /\ Len(a \o b) = Len(a) + Len(b)
            /\ \A i \in 1 .. Len(a) + Len(b) :
                 (a \o b)[i] = IF i <= Len(a) THEN a[i] ELSE b[i - Len(a)]
        BY <3>1, ConcatProperties
      <4> QED BY <3>1, <4>1, <4>2
    <3>3. \A i \in 1 .. n - 1 : ~(i < k) => b[i - (k - 1)] = s[i + 1]
      <4> TAKE i \in 1 .. n - 1
      <4>1. ~(i < k) => i - (k - 1) \in 1 .. n - k /\ k + (i - (k - 1)) = i + 1
        BY <2>1, <2>2
      <4> QED BY <3>1, <4>1
    <3>4. DOMAIN (a \o b) = 1 .. n - 1
      BY <3>2
    <3>5. t = a \o b
      BY DEF a, b
    <3> HIDE DEF t
    <3>6. ASSUME NEW i \in 1 .. n - 1 PROVE t[i] = IF i < k THEN s[i] ELSE s[i + 1]
      <4>1. CASE i < k
        <5>1. i <= k - 1 /\ i \in 1 .. k - 1
          BY <2>1, <2>2, <4>1
        <5> QED BY <3>1, <3>2, <3>5, <4>1, <5>1
      <4>2. CASE ~(i < k)
        <5>1. ~(i <= k - 1)
          BY <2>1, <2>2, <4>2
        <5> QED BY <3>2, <3>3, <3>5, <4>2, <5>1
      <4> QED BY <4>1, <4>2
    <3> QED BY <3>2, <3>4, <3>5, <3>6
  <2> HIDE DEF t, n
  <2>6. IsInjective(t)
    <3> SUFFICES ASSUME NEW i \in 1 .. n - 1, NEW j \in 1 .. n - 1, t[i] = t[j] PROVE i = j
      BY <2>5 DEF IsInjective
    <3>1. \A a, b \in 1 .. n : s[a] = s[b] => a = b
      BY <2>1 DEF IsInjective
    <3> QED BY <2>1, <2>2, <2>5, <3>1
  <2>7. Range(t) = Range(s) \ {x}
    <3>1. Range(t) = {t[i] : i \in 1 .. n - 1} /\ Range(s) = {s[i] : i \in 1 .. n}
      BY <2>1, <2>5 DEF Range
    <3>2. \A i \in 1 .. n : s[i] = x => i = k
      BY <2>1, <2>2 DEF IsInjective
    <3>3. \A i \in 1 .. n - 1 : t[i] \in Range(s) \ {x}
      BY <2>1, <2>2, <2>5, <3>1, <3>2
    <3>4. ASSUME NEW y \in Range(s), y # x PROVE \E i \in 1 .. n - 1 : t[i] = y
      <4>1. PICK i \in 1 .. n : s[i] = y
        BY <3>1
      <4>2. CASE i < k
        BY <2>1, <2>2, <2>5, <4>1, <4>2
      <4>3. CASE i > k
        <5>1. i - 1 \in 1 .. n - 1 /\ ~(i - 1 < k) /\ (i - 1) + 1 = i
          BY <2>1, <2>2, <4>3
        <5> QED BY <2>5, <4>1, <5>1
      <4>4. i # k
        BY <2>2, <3>4, <4>1
      <4> QED BY <2>1, <2>2, <4>2, <4>3, <4>4
    <3> QED BY <3>1, <3>3, <3>4
  <2>8. Removed(s, x) = t
    BY <1>2 DEF Removed, RemoveAt, t, k, n
  <2> QED BY <2>5, <2>6, <2>7, <2>8
<1> QED BY <1>1, <1>2

\* What waits in the queue stays, except for its head.
LEMMA QueueFacts ==
  ASSUME QueueInv, queue # <<>>
  PROVE  /\ Head(queue) \in Message /\ Head(queue) = queue[1]
         /\ Tail(queue) \in Seq(Message) /\ Len(Tail(queue)) <= QueueSize
         /\ \A i \in 2 .. Len(queue) : i - 1 \in 1 .. Len(Tail(queue)) /\ Tail(queue)[i - 1] = queue[i]
         /\ \A i \in 1 .. Len(Tail(queue)) : i + 1 \in 1 .. Len(queue) /\ Tail(queue)[i] = queue[i + 1]
<1>1. queue \in Seq(Message) /\ Len(queue) \in Nat /\ Len(queue) > 0
  BY DEF QueueInv
<1>2. /\ Head(queue) = queue[1] /\ Head(queue) \in Message
      /\ Tail(queue) \in Seq(Message) /\ Len(Tail(queue)) = Len(queue) - 1
      /\ \A i \in 1 .. Len(queue) - 1 : Tail(queue)[i] = queue[i + 1]
  BY <1>1
<1>3. Len(Tail(queue)) <= QueueSize
  BY <1>1, <1>2, SizeAssumption DEF QueueInv
<1>4. ASSUME NEW i \in 2 .. Len(queue)
      PROVE  i - 1 \in 1 .. Len(Tail(queue)) /\ Tail(queue)[i - 1] = queue[i]
  <2>1. i - 1 \in 1 .. Len(queue) - 1 /\ (i - 1) + 1 = i
    BY <1>1
  <2> QED BY <1>2, <2>1
<1>5. ASSUME NEW i \in 1 .. Len(Tail(queue))
      PROVE  i + 1 \in 1 .. Len(queue) /\ Tail(queue)[i] = queue[i + 1]
  BY <1>1, <1>2
<1> QED BY <1>2, <1>3, <1>4, <1>5

LEMMA EnqueueFacts ==
  ASSUME QueueInv, NEW msgs \in Seq(Message), Enqueue(msgs)
  PROVE  /\ QueueInv' /\ phase' \in {"edit", "stuck"}
         /\ phase' = "edit" => queue' = queue \o msgs
<1>1. CASE Len(queue) + Len(msgs) <= QueueSize
  <2>1. queue' = queue \o msgs /\ phase' = "edit"
    BY <1>1 DEF Enqueue
  <2>2. queue \o msgs \in Seq(Message) /\ Len(queue \o msgs) = Len(queue) + Len(msgs)
    BY DEF QueueInv
  <2> QED BY <1>1, <2>1, <2>2 DEF QueueInv
<1>2. CASE ~(Len(queue) + Len(msgs) <= QueueSize)
  BY <1>2 DEF QueueInv, Enqueue
<1> QED BY <1>1, <1>2

\* Nodes send one rate for every sequence.
LEMMA RateMessagesFacts ==
  ASSUME AreSequences(sequences), ClockInv
  PROVE  /\ RateMessages \in Seq(Message)
         /\ \A i \in 1 .. Len(RateMessages) : RateMessages[i].type = "SetRate"
<1> DEFINE S == DOMAIN sequences
           ids == SetToSeq(S)
           n == Cardinality(S)
<1>1. IsFiniteSet(S)
  BY SequenceAssumption, FS_Subset DEF AreSequences
<1>2. n \in Nat /\ ExistsBijection(1 .. n, S)
  BY <1>1, FS_CardinalityType
<1>3. \E f \in [1 .. n -> S] : IsInjective(f)
  BY <1>2 DEF ExistsBijection, Bijection, Injection, IsInjective
<1> HIDE DEF n
<1>4. ids \in [1 .. n -> S]
  BY <1>3 DEF SetToSeq, n
<1> HIDE DEF ids
<1>5. \A i \in 1 .. n : ids[i] \in SequenceId /\ port[ids[i]] \in Rates
  BY <1>4 DEF AreSequences, ClockInv
<1>6. RateMessages = [i \in 1 .. n |-> [type |-> "SetRate", id |-> ids[i], rate |-> port[ids[i]]]]
  BY <1>4 DEF RateMessages, ids
<1>7. \A i \in 1 .. n : [type |-> "SetRate", id |-> ids[i], rate |-> port[ids[i]]] \in Message
  BY <1>5 DEF Message
<1> QED BY <1>2, <1>6, <1>7

LEMMA PlaybackFacts ==
  ASSUME AreStates(states), NEW id
  PROVE  /\ IsPlayback(Playback(id)) /\ Playback(id).st = StateOf(id)
         /\ Playback(id).ok = TRUE /\ Playback(id).live = {i \in live : i.sequence = id}
         /\ IsState(StateOf(id))
<1>1. IsState(StateOf(id))
  BY InitialIsState DEF StateOf, AreStates
<1> QED BY <1>1 DEF Playback, IsPlayback

LEMMA ReceivingFacts ==
  ASSUME QueueInv, NEW type, Receiving(type), Received
  PROVE  /\ QueueInv' /\ phase = "drain" /\ queue # <<>>
         /\ Head(queue) = queue[1] /\ Head(queue).type = type
         /\ Head(queue).id \in SequenceId
         /\ type = "SetRate" => Head(queue).rate \in Rates
<1>1. queue # <<>> /\ Head(queue).type = type /\ phase = "drain"
  BY DEF Receiving
<1>2. Head(queue) \in Message
  BY <1>1, QueueFacts
<1>3. Head(queue).id \in SequenceId
  BY <1>2 DEF Message
<1>4. type = "SetRate" => Head(queue).rate \in Rates
  BY <1>1, <1>2 DEF Message
<1>5. QueueInv'
  BY <1>1, QueueFacts DEF Received, QueueInv
<1> QED BY <1>1, <1>3, <1>4, <1>5, QueueFacts

\* What one of the commands Go, GoBackward and GoTo does to a playback: it
\* enters a cue, unless GoTo names one that does not exist.
Arrived(seq, p, q) ==
  /\ Entered(seq, p, q)
  /\ Cues(seq) > 0 /\ (p.st.active => HasCue(seq, p.st.cue)) => HasCue(seq, q.st.cue)

Commanded(seq, p, q) == q = p \/ Arrived(seq, p, q)

LEMMA GoCommanded ==
  ASSUME NEW p, IsPlayback(p), NEW seq, IsSequence(seq)
  PROVE  /\ Arrived(seq, p, Go(seq, p)) /\ Arrived(seq, p, GoBackward(seq, p))
         /\ \A cue \in DOMAIN seq.cues : Arrived(seq, p, GoTo(seq, p, cue))
         /\ \A cue : Commanded(seq, p, GoTo(seq, p, cue))
<1>1. p.st.cue \in Nat
  BY DEF IsPlayback, IsState
<1>2. Arrived(seq, p, Go(seq, p))
  <2> DEFINE q == Go(seq, p)
  <2>1. q.st.cue = FollowingCue(seq, p.st) \/ q.st.cue = 0
    BY GoFacts DEF IsPlayback, IsState
  <2>2. Cues(seq) > 0 => HasCue(seq, q.st.cue)
    BY <2>1 DEF HasCue, FollowingCue
  <2> QED BY <2>2, GoFacts DEF Arrived
<1>3. Arrived(seq, p, GoBackward(seq, p))
  BY GoBackwardFacts DEF Arrived
<1>4. ASSUME NEW cue \in DOMAIN seq.cues PROVE Arrived(seq, p, GoTo(seq, p, cue))
  BY GoToFacts DEF Arrived
<1>5. ASSUME NEW cue PROVE Commanded(seq, p, GoTo(seq, p, cue))
  <2>1. CASE cue \in DOMAIN seq.cues
    BY <1>4, <2>1 DEF Commanded
  <2>2. CASE cue \notin DOMAIN seq.cues
    BY <2>2 DEF Commanded, GoTo
  <2> QED BY <2>1, <2>2
<1> QED BY <1>2, <1>3, <1>4, <1>5

LEMMA HandleGoMeans ==
  ASSUME QueueInv, AreSequences(sequences), AreStates(states), HandleGo
  PROVE  \E id, is :
           /\ id \in DOMAIN sequences
           /\ phase = "drain" /\ queue # <<>> /\ QueueInv' /\ Received
           /\ Head(queue) = queue[1] /\ Head(queue).id = id
           /\ Head(queue).type # "DropState"
           /\ IsPlayback(is) /\ Commanded(sequences[id], Playback(id), is)
           /\ (Head(queue).type = "GoTo" => Head(queue).cue \in DOMAIN sequences[id].cues)
                => Arrived(sequences[id], Playback(id), is)
           /\ Settle(id, is)
           /\ order' = Reordered(id, Playback(id).st.active, is.st.active)
           /\ IF is = Playback(id) THEN UNCHANGED age ELSE Reentered(id)
<1> DEFINE id == Head(queue).id
           is(op) == CASE op = "GoForward"  -> Go(sequences[id], Playback(id))
                       [] op = "GoBackward" -> GoBackward(sequences[id], Playback(id))
                       [] op = "GoTo"       -> GoTo(sequences[id], Playback(id), Head(queue).cue)
<1>1. PICK op \in {"GoForward", "GoBackward", "GoTo"} :
        /\ Receiving(op) /\ Received
        /\ id \in DOMAIN sequences
        /\ Settle(id, is(op))
        /\ order' = Reordered(id, Playback(id).st.active, is(op).st.active)
        /\ IF is(op) = Playback(id) THEN UNCHANGED age ELSE Reentered(id)
  BY DEF HandleGo
<1>2. /\ phase = "drain" /\ queue # <<>> /\ QueueInv'
      /\ Head(queue) = queue[1] /\ Head(queue).type = op
  BY <1>1, ReceivingFacts
<1>3. IsSequence(sequences[id]) /\ IsPlayback(Playback(id))
  BY <1>1, PlaybackFacts DEF AreSequences
<1>4. \/ is(op) = Go(sequences[id], Playback(id))
      \/ is(op) = GoBackward(sequences[id], Playback(id))
      \/ op = "GoTo" /\ is(op) = GoTo(sequences[id], Playback(id), Head(queue).cue)
  BY <1>1
<1> HIDE DEF is
<1>5. Commanded(sequences[id], Playback(id), is(op))
  BY <1>3, <1>4, GoCommanded DEF Commanded
<1>6. (op = "GoTo" => Head(queue).cue \in DOMAIN sequences[id].cues)
        => Arrived(sequences[id], Playback(id), is(op))
  BY <1>3, <1>4, GoCommanded
<1>7. IsPlayback(is(op))
  BY <1>3, <1>5 DEF Commanded, Arrived, Entered
<1>8. op # "DropState"
  BY <1>1
<1> QED BY <1>1, <1>2, <1>5, <1>6, <1>7, <1>8

\* Giving a sequence another state.
LEMMA SettleFacts ==
  ASSUME AreStates(states), phase = "drain", NEW id \in SequenceId, NEW p, IsPlayback(p), Settle(id, p)
  PROVE  /\ AreStates(states') /\ phase' \in {"drain", "dead"}
         /\ DOMAIN states' = DOMAIN states \cup {id} /\ states'[id] = p.st
         /\ \A other \in DOMAIN states : other # id => states'[other] = states[other]
         /\ UNCHANGED <<sequences, view, port, commands, written>>
<1>1. /\ states' = With(states, id, p.st) /\ UNCHANGED <<sequences, view, port, commands, written>>
      /\ phase' \in {"drain", "dead"}
  BY DEF Settle
<1>2. IsState(p.st)
  BY DEF IsPlayback
<1>3. DOMAIN states' = DOMAIN states \cup {id} /\ states'[id] = p.st
  BY <1>1 DEF With
<1>4. \A other \in DOMAIN states : other # id => states'[other] = states[other]
  BY <1>1 DEF With
<1>5. AreStates(states')
  BY <1>2, <1>3, <1>4 DEF AreStates
<1> QED BY <1>1, <1>3, <1>4, <1>5

LEMMA ReorderedFacts ==
  ASSUME OrderInv, NEW id \in SequenceId, NEW was, NEW is
  PROVE  LET new == Reordered(id, was, is)
         IN  new \in Seq(SequenceId) /\ IsInjective(new)
  BY InsertedFacts, RemovedFacts DEF OrderInv, Reordered

\* A sequence is one over any set that holds its elements.
LEMMA SequenceOver ==
  ASSUME NEW S, NEW T, NEW s \in Seq(S), \A i \in 1 .. Len(s) : s[i] \in T
  PROVE  s \in Seq(T)
<1>1. Len(s) \in Nat /\ s = [i \in 1 .. Len(s) |-> s[i]]
  OBVIOUS
<1> QED BY <1>1

\* What is left alone keeps its type.
LEMMA UnchangedTypes ==
  ASSUME TypeInv
  PROVE  /\ UNCHANGED queue => QueueInv'
         /\ UNCHANGED order => OrderInv'
         /\ UNCHANGED view => ViewInv'
         /\ UNCHANGED <<port, age>> => ClockInv'
         /\ UNCHANGED sequences => SequencesInv'
         /\ UNCHANGED states => StatesInv'
         /\ UNCHANGED <<phase, commands>> => PhaseInv'
         /\ \A op : Using(op) => (phase' \in Phase => PhaseInv') /\ UNCHANGED <<age, written>>
<1>1. commands < MaxCommands /\ commands' = commands + 1 => commands' \in 0 .. MaxCommands
  BY SizeAssumption DEF TypeInv, PhaseInv
<1> QED BY <1>1 DEF TypeInv, PhaseInv, QueueInv, OrderInv, ViewInv, ClockInv, SequencesInv, StatesInv, Using

\* The users change no state and no effects but by closing a project.
LEMMA UserTypes == TypeInv /\ User => TypeInv'
<1> SUFFICES ASSUME TypeInv, User PROVE TypeInv'
  OBVIOUS
<1>0. /\ QueueInv /\ SequencesInv /\ StatesInv /\ ViewInv /\ ClockInv /\ phase \in Phase
  BY DEF TypeInv, PhaseInv
<1>1. ASSUME NEW op \in {"GoForward", "GoBackward", "Stop"}, NEW id \in SequenceId, Send(op, id)
      PROVE TypeInv'
  <2>1. <<[type |-> op, id |-> id]>> \in Seq(Message)
    BY DEF Message
  <2>2. QueueInv' /\ phase' \in Phase
    BY <1>1, <1>0, <2>1, EnqueueFacts DEF Send, Phase
  <2> QED BY <1>0, <1>1, <2>2, UnchangedTypes DEF Send, TypeInv
<1>2. ASSUME NEW id \in SequenceId, NEW cue \in DOMAIN Sequence[id].cues, SendGoTo(id, cue)
      PROVE TypeInv'
  <2>1. cue \in Nat
    BY SequenceAssumption, CueFacts
  <2>2. <<[type |-> "GoTo", id |-> id, cue |-> cue]>> \in Seq(Message)
    BY <2>1 DEF Message
  <2>3. QueueInv' /\ phase' \in Phase
    BY <1>2, <1>0, <2>2, EnqueueFacts DEF SendGoTo, Phase
  <2> QED BY <1>0, <1>2, <2>3, UnchangedTypes DEF SendGoTo, TypeInv
<1>3. ASSUME NEW id \in SequenceId, Toggle(id) PROVE TypeInv'
  <2>1. <<[type |-> IF view[id] THEN "Stop" ELSE "GoForward", id |-> id]>> \in Seq(Message)
    BY DEF Message
  <2>2. QueueInv' /\ phase' \in Phase
    BY <1>3, <1>0, <2>1, EnqueueFacts DEF Toggle, Phase
  <2> QED BY <1>0, <1>3, <2>2, UnchangedTypes DEF Toggle, TypeInv
<1>4. ASSUME NEW id \in SequenceId, NEW rate \in Rate, SetPort(id, rate) PROVE TypeInv'
  <2>1. ClockInv'
    BY <1>0, <1>4 DEF SetPort, Using, ClockInv, Rates
  <2> QED BY <1>0, <1>4, <2>1, UnchangedTypes DEF SetPort, TypeInv
<1>5. ASSUME NEW id \in SequenceId, Store(id) PROVE TypeInv'
  <2> DEFINE seq == sequences[id]
             new == [seq EXCEPT !.cues = Append(@, NewCue)]
  <2>1. IsSequence(seq) /\ sequences' = [sequences EXCEPT ![id] = new] /\ id \in DOMAIN sequences
    BY <1>0, <1>5 DEF Store, SequencesInv, AreSequences
  <2>2. IsSequence(new)
    <3>1. seq \in [cues : Seq(Range(seq.cues)), wrap : BOOLEAN, stopOnLast : BOOLEAN]
      BY <2>1 DEF IsSequence
    <3>2. /\ new = [cues |-> Append(seq.cues, NewCue), wrap |-> seq.wrap, stopOnLast |-> seq.stopOnLast]
      <4>1. new = [seq EXCEPT !.cues = Append(seq.cues, NewCue)]
        OBVIOUS
      <4> HIDE DEF seq, new
      <4> QED BY <3>1, <4>1
    <3> DEFINE S == Range(seq.cues) \cup {NewCue}
               t == Append(seq.cues, NewCue)
    <3>3. seq.cues \in Seq(S)
      BY <3>1, SeqMonotonic
    <3>4. t \in Seq(S) /\ DOMAIN t = 1 .. Len(seq.cues) + 1
      BY <3>3
    <3>5. Range(t) \subseteq S
      BY <3>4 DEF Range
    <3>6. t \in Seq(Range(t))
      <4>1. \A i \in 1 .. Len(t) : t[i] \in Range(t)
        BY <3>4 DEF Range
      <4> HIDE DEF t
      <4> QED BY <3>4, <4>1, SequenceOver
    <3>7. \A cue \in Range(t) : IsCue(cue)
      BY <2>1, <3>5, UserAssumption DEF IsSequence
    <3> HIDE DEF t, seq, new
    <3>8. new.cues = t /\ new.wrap \in BOOLEAN /\ new.stopOnLast \in BOOLEAN
      BY <3>1, <3>2 DEF t
    <3> QED BY <3>1, <3>2, <3>6, <3>7, <3>8 DEF IsSequence
  <2> HIDE DEF new
  <2>3. SequencesInv'
    BY <1>0, <2>1, <2>2 DEF AreSequences, SequencesInv
  <2> QED BY <1>0, <1>5, <2>3, UnchangedTypes DEF Store, TypeInv
<1>6. ASSUME NEW id \in SequenceId, Unstore(id) PROVE TypeInv'
  <2> DEFINE seq == sequences[id]
             new == [seq EXCEPT !.cues = Front(@)]
  <2>1. IsSequence(seq) /\ sequences' = [sequences EXCEPT ![id] = new] /\ id \in DOMAIN sequences
        /\ Cues(seq) > 1
    BY <1>0, <1>6 DEF Unstore, SequencesInv, AreSequences
  <2>2. IsSequence(new)
    <3>1. seq \in [cues : Seq(Range(seq.cues)), wrap : BOOLEAN, stopOnLast : BOOLEAN]
      BY <2>1 DEF IsSequence
    <3> DEFINE t == SubSeq(seq.cues, 1, Len(seq.cues) - 1)
               n == Len(seq.cues)
    <3>2. /\ new = [cues |-> t, wrap |-> seq.wrap, stopOnLast |-> seq.stopOnLast]
      <4>1. new = [seq EXCEPT !.cues = t]
        BY DEF Front
      <4> HIDE DEF seq, t, new
      <4> QED BY <3>1, <4>1
    <3>3. n \in Nat /\ n - 1 \in Nat /\ DOMAIN seq.cues = 1 .. n
      BY <2>1, <3>1 DEF Cues
    <3>4. t \in Seq(Range(seq.cues)) /\ Len(t) = n - 1 /\ \A i \in 1 .. n - 1 : t[i] = seq.cues[i]
      BY <3>1, <3>3
    <3>5. DOMAIN t = 1 .. n - 1 /\ Range(t) \subseteq Range(seq.cues)
      BY <3>3, <3>4 DEF Range
    <3>6. t \in Seq(Range(t))
      <4>1. \A i \in 1 .. Len(t) : t[i] \in Range(t)
        BY <3>3, <3>4, <3>5 DEF Range
      <4> QED BY <3>4, <4>1, SequenceOver
    <3>7. \A cue \in Range(t) : IsCue(cue)
      BY <2>1, <3>5 DEF IsSequence
    <3> HIDE DEF t, seq, new
    <3>8. new.cues = t /\ new.wrap \in BOOLEAN /\ new.stopOnLast \in BOOLEAN
      BY <3>1, <3>2 DEF t
    <3> QED BY <3>1, <3>2, <3>6, <3>7, <3>8 DEF IsSequence
  <2> HIDE DEF new
  <2>3. SequencesInv'
    BY <1>0, <2>1, <2>2 DEF AreSequences, SequencesInv
  <2> QED BY <1>0, <1>6, <2>3, UnchangedTypes DEF Unstore, TypeInv
<1>7. ASSUME NEW id \in SequenceId, Delete(id) PROVE TypeInv'
  <2>1. <<[type |-> "DropState", id |-> id]>> \in Seq(Message)
    BY DEF Message
  <2>2. QueueInv' /\ phase' \in Phase
    BY <1>7, <1>0, <2>1, EnqueueFacts DEF Delete, Phase
  <2>3. SequencesInv'
    BY <1>0, <1>7 DEF Delete, Without, Restrict, SequencesInv, AreSequences
  <2> QED BY <1>0, <1>7, <2>2, <2>3, UnchangedTypes DEF Delete, TypeInv
<1>8. ASSUME NEW id \in SequenceId, Restore(id) PROVE TypeInv'
  <2>1. SequencesInv'
    <3>1. DOMAIN sequences' = DOMAIN sequences \cup {id} /\ sequences'[id] = Sequence[id]
          /\ \A x \in DOMAIN sequences : x # id => sequences'[x] = sequences[x]
      BY <1>8 DEF Restore, With
    <3> QED BY <1>0, <3>1, SequenceAssumption DEF SequencesInv, AreSequences
  <2>2. ViewInv'
    BY <1>0, <1>8 DEF Restore, With, ViewInv
  <2> QED BY <1>0, <1>8, <2>1, <2>2, UnchangedTypes DEF Restore, TypeInv
<1>9. CASE Close
  <2>1. DOMAIN <<>> = {}
    OBVIOUS
  <2>2. SequencesInv' /\ StatesInv' /\ ViewInv' /\ OrderInv'
    BY <1>9, <2>1 DEF Close, SequencesInv, StatesInv, AreSequences, AreStates, ViewInv, OrderInv, IsInjective
  <2> QED BY <1>0, <1>9, <2>2, UnchangedTypes DEF Close, TypeInv
<1>10. CASE Load
  <2>1. SequencesInv' /\ ViewInv'
    BY <1>10, SequenceAssumption DEF Load, SequencesInv, AreSequences, ViewInv, SequenceId
  <2> QED BY <1>0, <1>10, <2>1, UnchangedTypes DEF Load, TypeInv
<1> QED BY <1>1, <1>2, <1>3, <1>4, <1>5, <1>6, <1>7, <1>8, <1>9, <1>10 DEF User

LEMMA HandleUnknownTypes == TypeInv /\ HandleUnknown => TypeInv'
<1> SUFFICES ASSUME TypeInv, HandleUnknown PROVE TypeInv'
  OBVIOUS
<1> DEFINE id == Head(queue).id
<1>0. QueueInv /\ AreStates(states)
  BY DEF TypeInv, StatesInv
<1>1. PICK type \in {"GoForward", "GoBackward", "GoTo"} : Receiving(type)
  BY DEF HandleUnknown
<1>2. Received /\ Settle(id, Playback(id)) /\ UNCHANGED <<order, age>>
  BY DEF HandleUnknown
<1>3. id \in SequenceId /\ QueueInv' /\ phase = "drain"
  BY <1>0, <1>1, <1>2, ReceivingFacts
<1>4. IsPlayback(Playback(id))
  BY <1>0, PlaybackFacts
<1> HIDE DEF id
<1>5. AreStates(states') /\ phase' \in Phase /\ UNCHANGED <<sequences, view, port, commands, written>>
  BY <1>0, <1>2, <1>3, <1>4, SettleFacts DEF Phase
<1>6. StatesInv' /\ PhaseInv'
  BY <1>5 DEF StatesInv, PhaseInv, TypeInv
<1> QED BY <1>2, <1>3, <1>5, <1>6, UnchangedTypes DEF TypeInv

LEMMA HandleGoTypes == TypeInv /\ HandleGo => TypeInv'
<1> SUFFICES ASSUME TypeInv, HandleGo PROVE TypeInv'
  OBVIOUS
<1>0. QueueInv /\ AreStates(states) /\ AreSequences(sequences) /\ OrderInv /\ ClockInv
  BY DEF TypeInv, StatesInv, SequencesInv
<1>1. PICK id, is :
           /\ id \in DOMAIN sequences
           /\ phase = "drain" /\ QueueInv'
           /\ IsPlayback(is)
           /\ Settle(id, is)
           /\ order' = Reordered(id, Playback(id).st.active, is.st.active)
           /\ IF is = Playback(id) THEN UNCHANGED age ELSE Reentered(id)
  BY <1>0, HandleGoMeans
<1>2. id \in SequenceId
  BY <1>0, <1>1 DEF AreSequences
<1>3. AreStates(states') /\ phase' \in Phase /\ UNCHANGED <<sequences, view, port, commands, written>>
  BY <1>0, <1>1, <1>2, SettleFacts DEF Phase
<1>4. StatesInv' /\ PhaseInv'
  BY <1>3 DEF StatesInv, PhaseInv, TypeInv
<1>5. OrderInv'
  BY <1>0, <1>1, <1>2, ReorderedFacts DEF OrderInv
<1>6. ClockInv'
  BY <1>0, <1>1, <1>2, <1>3, MaxTimeAssumption DEF ClockInv, Reentered
<1> QED BY <1>1, <1>3, <1>4, <1>5, <1>6, UnchangedTypes DEF TypeInv

\* What stopping or dropping a sequence does to its playback.
Halting(id) ==
  IF id \in DOMAIN sequences THEN Stop(sequences[id], Playback(id)) ELSE Playback(id)

LEMMA HaltingFacts ==
  ASSUME AreStates(states), NEW id
  PROVE  /\ IsPlayback(Halting(id))
         /\ id \in DOMAIN sequences =>
              /\ Halting(id).live = Playback(id).live \ Range(Playback(id).st.effects)
              /\ Halting(id).st.effects = <<>> /\ Halting(id).st.active = FALSE
              /\ Halting(id).st.cue = 0 /\ Halting(id).st.values = {}
         /\ id \notin DOMAIN sequences => Halting(id) = Playback(id)
<1>1. IsPlayback(Playback(id))
  BY PlaybackFacts
<1>2. CASE id \in DOMAIN sequences
  <2>1. Halting(id) = Stop(sequences[id], Playback(id))
    BY <1>2 DEF Halting
  <2> QED BY ZenonT(40), <1>1, <1>2, <2>1, StopFacts
<1>3. CASE id \notin DOMAIN sequences
  <2>1. Halting(id) = Playback(id)
    BY <1>3 DEF Halting
  <2> QED BY <1>1, <1>3, <2>1
<1> QED BY <1>2, <1>3

LEMMA HandleStopTypes == TypeInv /\ HandleStop => TypeInv'
<1> SUFFICES ASSUME TypeInv, HandleStop PROVE TypeInv'
  OBVIOUS
<1> DEFINE id == Head(queue).id
<1>0. QueueInv /\ AreStates(states) /\ OrderInv
  BY DEF TypeInv, StatesInv
<1>1. /\ Receiving("Stop") /\ Received /\ UNCHANGED age
      /\ Settle(id, Halting(id)) /\ order' = Removed(order, id)
  BY DEF HandleStop, Halting
<1>2. id \in SequenceId /\ QueueInv' /\ phase = "drain"
  BY <1>0, <1>1, ReceivingFacts
<1> HIDE DEF id
<1>3. IsPlayback(Halting(id))
  BY <1>0, HaltingFacts
<1>4. AreStates(states') /\ phase' \in Phase /\ UNCHANGED <<sequences, view, port, commands, written>>
  BY <1>0, <1>1, <1>2, <1>3, SettleFacts DEF Phase
<1>5. StatesInv' /\ PhaseInv'
  BY <1>4 DEF StatesInv, PhaseInv, TypeInv
<1>6. OrderInv'
  BY <1>0, <1>1, RemovedFacts DEF OrderInv
<1> QED BY <1>1, <1>2, <1>4, <1>5, <1>6, UnchangedTypes DEF TypeInv

LEMMA HandleDropStateTypes == TypeInv /\ HandleDropState => TypeInv'
<1> SUFFICES ASSUME TypeInv, HandleDropState PROVE TypeInv'
  OBVIOUS
<1> DEFINE id == Head(queue).id
<1>0. QueueInv /\ AreStates(states) /\ OrderInv
  BY DEF TypeInv, StatesInv
<1>1. /\ Receiving("DropState") /\ Received
      /\ states' = Without(states, id) /\ order' = Removed(order, id)
      /\ phase' = IF Halting(id).ok THEN phase ELSE "dead"
      /\ UNCHANGED <<sequences, view, port, commands, age, written>>
  BY DEF HandleDropState, Halting
<1>2. QueueInv' /\ phase = "drain"
  BY <1>0, <1>1, ReceivingFacts
<1>3. StatesInv' /\ PhaseInv'
  BY <1>0, <1>1, <1>2 DEF StatesInv, AreStates, Without, Restrict, PhaseInv, Phase, TypeInv
<1>4. OrderInv'
  BY <1>0, <1>1, RemovedFacts DEF OrderInv
<1> QED BY <1>1, <1>2, <1>3, <1>4, UnchangedTypes DEF TypeInv

\* Another rate changes nothing else.
LEMMA RateFacts ==
  ASSUME NEW st, IsState(st), NEW rate \in Rates
  PROVE  LET new == [st EXCEPT !.rate = rate]
         IN  /\ IsState(new)
             /\ new.active = st.active /\ new.cue = st.cue
             /\ new.effects = st.effects /\ new.values = st.values
             /\ new.goAt = st.goAt /\ new.goTimed = st.goTimed /\ new.sinceGo = st.sinceGo
             /\ new.finishedAt = st.finishedAt /\ new.finishTimed = st.finishTimed
             /\ new.sinceFinished = st.sinceFinished /\ new.channels = st.channels
<1> DEFINE new == [st EXCEPT !.rate = rate]
<1>1. new = [active |-> st.active, cue |-> st.cue, rate |-> rate,
             goAt |-> st.goAt, goTimed |-> st.goTimed, sinceGo |-> st.sinceGo,
             finishedAt |-> st.finishedAt, finishTimed |-> st.finishTimed,
             sinceFinished |-> st.sinceFinished,
             channels |-> st.channels, values |-> st.values, effects |-> st.effects]
  BY DEF IsState
<1> HIDE DEF new
<1>2. IsState(new)
  BY <1>1 DEF IsState
<1> QED BY <1>1, <1>2 DEF new

LEMMA HandleSetRateMeans ==
  ASSUME QueueInv, AreStates(states), HandleSetRate
  PROVE  /\ phase = "drain" /\ queue # <<>> /\ QueueInv' /\ Received
         /\ Head(queue) = queue[1] /\ Head(queue).type = "SetRate"
         /\ AreStates(states') /\ DOMAIN states' = DOMAIN states
         /\ \A id \in DOMAIN states : \E rate \in Rates : states'[id] = [states[id] EXCEPT !.rate = rate]
         /\ UNCHANGED <<phase, sequences, order, live, view, port, commands, age, written>>
<1> DEFINE id == Head(queue).id
           rate == Head(queue).rate
<1>1. /\ Receiving("SetRate") /\ Received
      /\ states' = IF id \in DOMAIN states THEN [states EXCEPT ![id].rate = rate] ELSE states
      /\ UNCHANGED <<phase, sequences, order, live, view, port, commands, age, written>>
  BY DEF HandleSetRate
<1>2. /\ phase = "drain" /\ queue # <<>> /\ QueueInv' /\ rate \in Rates
      /\ Head(queue) = queue[1] /\ Head(queue).type = "SetRate"
  BY <1>1, ReceivingFacts
<1>3. \A st : IsState(st) => st = [st EXCEPT !.rate = st.rate] /\ st.rate \in Rates
  BY DEF IsState
<1> HIDE DEF id, rate
<1>4. ASSUME NEW x \in DOMAIN states
      PROVE  \E r \in Rates : states'[x] = [states[x] EXCEPT !.rate = r]
  <2>1. IsState(states[x])
    BY DEF AreStates
  <2>2. CASE x = id
    BY <1>1, <1>2, <2>2
  <2>3. CASE x # id
    <3>1. states'[x] = states[x]
      BY <1>1, <2>3
    <3> QED BY <1>3, <2>1, <3>1
  <2> QED BY <2>2, <2>3
<1>5. DOMAIN states' = DOMAIN states
  BY <1>1
<1>6. AreStates(states')
  <2> SUFFICES ASSUME NEW x \in DOMAIN states PROVE IsState(states'[x])
    BY <1>5 DEF AreStates
  <2>1. PICK r \in Rates : states'[x] = [states[x] EXCEPT !.rate = r]
    BY <1>4
  <2> QED BY <2>1, RateFacts DEF AreStates
<1> QED BY <1>1, <1>2, <1>4, <1>5, <1>6

LEMMA HandleSetRateTypes == TypeInv /\ HandleSetRate => TypeInv'
<1> SUFFICES ASSUME TypeInv, HandleSetRate PROVE TypeInv'
  OBVIOUS
<1>1. /\ QueueInv' /\ AreStates(states')
      /\ UNCHANGED <<phase, sequences, order, live, view, port, commands, age, written>>
  BY HandleSetRateMeans DEF TypeInv, StatesInv
<1>2. StatesInv'
  BY <1>1 DEF StatesInv
<1> QED BY <1>1, <1>2, UnchangedTypes DEF TypeInv

\* A frame plays what is in the order.
Ran == [id \in Playing |-> Run(id, sequences[id], Playback(id))]

LEMMA RunSequencesMeans ==
  ASSUME AreSequences(sequences), AreStates(states), RunSequences
  PROVE  /\ AreStates(states')
         /\ DOMAIN states' = DOMAIN states \cup Playing
         /\ \A id \in Playing :
              /\ IsPlayback(Playback(id)) /\ IsPlayback(Run(id, sequences[id], Playback(id)))
              /\ states'[id] = Run(id, sequences[id], Playback(id)).st
         /\ \A id \in DOMAIN states \ Playing : states'[id] = states[id]
         /\ live' = UNION ({Run(id, sequences[id], Playback(id)).live : id \in Playing}
                             \cup {{i \in live : i.sequence \notin Playing}})
         /\ phase = "drain" /\ queue = <<>> /\ phase' \in {"nodes", "dead"}
         /\ UNCHANGED <<queue, sequences, order, port, commands>>
<1>1. /\ states' = [id \in DOMAIN states \cup Playing |->
                         IF id \in Playing THEN Ran[id].st ELSE states[id]]
      /\ live' = UNION ({Ran[id].live : id \in Playing}
                           \cup {{i \in live : i.sequence \notin Playing}})
      /\ phase = "drain" /\ queue = <<>> /\ phase' \in {"nodes", "dead"}
      /\ UNCHANGED <<queue, sequences, order, port, commands>>
  BY DEF RunSequences, Ran
<1>2. ASSUME NEW id \in Playing
      PROVE  /\ id \in SequenceId
             /\ IsPlayback(Playback(id)) /\ IsPlayback(Run(id, sequences[id], Playback(id)))
  <2>1. id \in SequenceId /\ IsSequence(sequences[id])
    BY DEF Playing, AreSequences
  <2> QED BY <2>1, PlaybackFacts, RunFacts
<1>3. \A id \in Playing : Ran[id] = Run(id, sequences[id], Playback(id))
  BY DEF Ran
<1>4. {Ran[id].live : id \in Playing} = {Run(id, sequences[id], Playback(id)).live : id \in Playing}
  BY <1>3
<1>5. /\ \A id \in Playing : states'[id] = Run(id, sequences[id], Playback(id)).st
      /\ \A id \in DOMAIN states \ Playing : states'[id] = states[id]
      /\ DOMAIN states' = DOMAIN states \cup Playing
  BY <1>1, <1>3
<1>6. AreStates(states')
  BY <1>2, <1>5 DEF AreStates, IsPlayback
<1> QED BY <1>1, <1>2, <1>4, <1>5, <1>6

LEMMA RunSequencesTypes == TypeInv /\ RunSequences => TypeInv'
<1> SUFFICES ASSUME TypeInv, RunSequences PROVE TypeInv'
  OBVIOUS
<1>1. /\ AreStates(states') /\ phase' \in Phase
      /\ UNCHANGED <<queue, sequences, order, port, commands>>
  BY RunSequencesMeans DEF TypeInv, StatesInv, SequencesInv, Phase
<1>2. StatesInv' /\ PhaseInv'
  BY <1>1 DEF StatesInv, PhaseInv, TypeInv
<1>3. ViewInv'
  <2>1. DOMAIN view' = DOMAIN view \cup (DOMAIN states' \cap DOMAIN sequences)
    BY DEF RunSequences
  <2> QED BY <2>1 DEF ViewInv, TypeInv, SequencesInv, AreSequences
<1>4. ClockInv'
  <2> DEFINE reset(id) == id \in Playing /\ Ran[id].st.goAt = "now"
  <2>1. age' = [id \in SequenceId |-> IF reset(id) THEN 0 ELSE age[id]]
    BY DEF RunSequences, Ran
  <2> HIDE DEF reset
  <2> QED BY <1>1, <2>1, MaxTimeAssumption DEF ClockInv, TypeInv
<1> QED BY <1>1, <1>2, <1>3, <1>4, UnchangedTypes DEF TypeInv

\* A frame passes for a state.
LEMMA LaterFacts ==
  ASSUME NEW st, IsState(st)
  PROVE  LET new == Later(st)
         IN  /\ IsState(new)
             /\ new.active = st.active /\ new.cue = st.cue /\ new.rate = st.rate
             /\ new.effects = st.effects /\ new.values = st.values
             /\ new.goAt = (IF st.goAt = "now" THEN "before" ELSE st.goAt)
             /\ new.finishedAt = (IF st.finishedAt = "now" THEN "before" ELSE st.finishedAt)
             /\ new.goTimed = st.goTimed /\ new.sinceGo = Aged(st.sinceGo)
             /\ new.finishTimed = st.finishTimed /\ new.sinceFinished = Aged(st.sinceFinished)
             /\ new.channels = [c \in DOMAIN st.channels |->
                                  [st.channels[c] EXCEPT !.spent = Aged(@)]]
<1> DEFINE new == Later(st)
           before(at) == IF at = "now" THEN "before" ELSE at
           channels == [c \in DOMAIN st.channels |-> [st.channels[c] EXCEPT !.spent = Aged(@)]]
<1>1. new = [active |-> st.active, cue |-> st.cue, rate |-> st.rate,
             goAt |-> before(st.goAt), goTimed |-> st.goTimed, sinceGo |-> Aged(st.sinceGo),
             finishedAt |-> before(st.finishedAt), finishTimed |-> st.finishTimed,
             sinceFinished |-> Aged(st.sinceFinished),
             channels |-> channels, values |-> st.values, effects |-> st.effects]
  <2> DEFINE goAt == before(st.goAt)
             finishedAt == before(st.finishedAt)
             sinceGo == Aged(st.sinceGo)
             sinceFinished == Aged(st.sinceFinished)
  <2>1. new = [st EXCEPT !.goAt = goAt, !.finishedAt = finishedAt,
                         !.sinceGo = sinceGo, !.sinceFinished = sinceFinished,
                         !.channels = channels]
    BY DEF Later
  <2> HIDE DEF new, goAt, finishedAt, sinceGo, sinceFinished, channels
  <2>2. new = [active |-> st.active, cue |-> st.cue, rate |-> st.rate,
             goAt |-> goAt, goTimed |-> st.goTimed, sinceGo |-> sinceGo,
             finishedAt |-> finishedAt, finishTimed |-> st.finishTimed,
             sinceFinished |-> sinceFinished,
             channels |-> channels, values |-> st.values, effects |-> st.effects]
    BY <2>1 DEF IsState
  <2> QED BY <2>2 DEF goAt, finishedAt, sinceGo, sinceFinished
<1>2. /\ before(st.goAt) \in Pending /\ before(st.finishedAt) \in Pending
      /\ Aged(st.sinceGo) \in Timer /\ Aged(st.sinceFinished) \in Timer
  BY TimerFacts DEF IsState, Pending
<1>3. \A c \in DOMAIN channels : channels[c] \in ChannelState
  BY TimerFacts DEF IsState, ChannelState
<1> HIDE DEF new, channels
<1>4. IsState(new)
  BY <1>1, <1>2, <1>3 DEF IsState
<1> QED BY <1>1, <1>4 DEF new, channels

LEMMA ProcessNodesMeans ==
  ASSUME QueueInv, AreSequences(sequences), ClockInv, AreStates(states), ProcessNodes
  PROVE  /\ phase = "nodes" /\ phase' \in {"edit", "stuck"} /\ QueueInv'
         /\ phase' = "edit" => queue' = queue \o RateMessages
         /\ AreStates(states') /\ DOMAIN states' = DOMAIN states
         /\ \A id \in DOMAIN states : states'[id] = Later(states[id])
         /\ age' = [id \in SequenceId |-> Capped(age[id] + 1)] /\ ClockInv'
         /\ UNCHANGED <<sequences, order, live, view, port, commands, written>>
<1>1. /\ states' = [id \in DOMAIN states |-> Later(states[id])]
      /\ age' = [id \in SequenceId |-> Capped(age[id] + 1)]
      /\ phase = "nodes" /\ Enqueue(RateMessages)
      /\ UNCHANGED <<sequences, order, live, view, port, commands, written>>
  BY DEF ProcessNodes
<1>2. /\ phase' \in {"edit", "stuck"} /\ QueueInv'
      /\ phase' = "edit" => queue' = queue \o RateMessages
  BY <1>1, RateMessagesFacts, EnqueueFacts
<1>3. AreStates(states')
  BY <1>1, LaterFacts DEF AreStates
<1>4. \A a \in 0 .. MaxTime : Capped(a + 1) \in 0 .. MaxTime
  BY MaxTimeAssumption DEF Capped
<1>5. ClockInv'
  BY <1>1, <1>4 DEF ClockInv
<1> QED BY <1>1, <1>2, <1>3, <1>5

LEMMA ProcessNodesTypes == TypeInv /\ ProcessNodes => TypeInv'
<1> SUFFICES ASSUME TypeInv, ProcessNodes PROVE TypeInv'
  OBVIOUS
<1>1. /\ phase' \in Phase /\ QueueInv' /\ AreStates(states') /\ ClockInv'
      /\ UNCHANGED <<sequences, order, live, view, port, commands, written>>
  BY ProcessNodesMeans DEF TypeInv, StatesInv, SequencesInv, Phase
<1>2. StatesInv' /\ PhaseInv'
  BY <1>1 DEF StatesInv, PhaseInv, TypeInv
<1> QED BY <1>1, <1>2, UnchangedTypes DEF TypeInv

LEMMA InitTypes == Init => TypeInv
<1> SUFFICES ASSUME Init PROVE TypeInv
  OBVIOUS
<1>1. DOMAIN <<>> = {}
  OBVIOUS
<1>2. PhaseInv /\ QueueInv /\ OrderInv
  BY <1>1, SizeAssumption DEF Init, PhaseInv, Phase, QueueInv, OrderInv, IsInjective
<1>3. ViewInv /\ ClockInv
  BY MaxTimeAssumption DEF Init, ViewInv, ClockInv, Rates
<1>4. SequencesInv /\ StatesInv
  BY <1>1, SequenceAssumption DEF Init, SequencesInv, StatesInv, AreSequences, AreStates, SequenceId
<1> QED BY <1>2, <1>3, <1>4 DEF TypeInv

LEMMA NextTypes == TypeInv /\ [Next]_vars => TypeInv'
<1> SUFFICES ASSUME TypeInv, [Next]_vars PROVE TypeInv'
  OBVIOUS
<1>1. CASE User
  BY <1>1, UserTypes
<1>2. CASE StartFrame
  BY <1>2, UnchangedTypes DEF StartFrame, Phase, TypeInv, PhaseInv
<1>3. CASE Handle
  BY <1>3, HandleUnknownTypes, HandleGoTypes, HandleStopTypes, HandleSetRateTypes,
     HandleDropStateTypes DEF Handle
<1>4. CASE RunSequences
  BY <1>4, RunSequencesTypes
<1>5. CASE ProcessNodes
  BY <1>5, ProcessNodesTypes
<1>6. CASE UNCHANGED vars
  BY <1>6, UnchangedTypes DEF vars, TypeInv
<1> QED BY <1>1, <1>2, <1>3, <1>4, <1>5, <1>6 DEF Next, Frame

\* The sequencer keeps its types, whatever sequences, rates and users.
THEOREM AlwaysTyped == Spec => []TypeInv
<1>1. Init => TypeInv
  BY InitTypes
<1>2. TypeInv /\ [Next]_vars => TypeInv'
  BY NextTypes
<1> QED BY <1>1, <1>2, PTL DEF Spec

\* TypeOK: timers stay within their bound, rates are ones of the port or the
\* default, channels are in one of their three states, the queue never holds
\* more than it can.
THEOREM SequencerTypes == Spec => []TypeOK
  BY AlwaysTyped, TypeInvImpliesTypeOK, PTL

-----------------------------------------------------------------------------
(* The cue that is played exists *)

\* A sequence starts with at least one cue.
SequencesHaveCues == \A id \in SequenceId : Cues(Sequence[id]) > 0

\* The state of a sequence is about to be dropped.
Dropping(id) ==
  \E i \in 1 .. Len(queue) : queue[i].type = "DropState" /\ queue[i].id = id

HaveCues    == \A id \in DOMAIN sequences : Cues(sequences[id]) > 0
StoppedAtFirst ==
  \A id \in DOMAIN states : ~states[id].active => states[id].cue = 0
ActiveAreHeld ==
  phase \in {"edit", "drain", "nodes"} =>
    \A id \in DOMAIN states : states[id].active =>
      Dropping(id) \/ (id \in DOMAIN sequences /\ id \in Range(order))
NodesSeeNoQueue == phase = "nodes" => queue = <<>>

PlayedInv ==
  HaveCues /\ StoppedAtFirst /\ ActiveAreHeld /\ NodesSeeNoQueue /\ PlayedCueExists

LEMMA DroppingStays ==
  ASSUME QueueInv, NEW id, Dropping(id)
  PROVE  /\ \A msgs \in Seq(Message) : queue' = queue \o msgs => Dropping(id)'
         /\ queue # <<>> /\ Received /\ ~(queue[1].type = "DropState" /\ queue[1].id = id)
              => Dropping(id)'
<1>1. PICK i \in 1 .. Len(queue) : queue[i].type = "DropState" /\ queue[i].id = id
  BY DEF Dropping
<1>2. ASSUME NEW msgs \in Seq(Message), queue' = queue \o msgs PROVE Dropping(id)'
  <2>1. i \in 1 .. Len(queue') /\ queue'[i] = queue[i]
    BY <1>2 DEF QueueInv
  <2> QED BY <1>1, <2>1 DEF Dropping
<1>3. ASSUME queue # <<>>, Received, ~(queue[1].type = "DropState" /\ queue[1].id = id)
      PROVE  Dropping(id)'
  <2>1. i \in 2 .. Len(queue)
    BY <1>1, <1>3 DEF QueueInv
  <2>2. i - 1 \in 1 .. Len(queue') /\ queue'[i - 1] = queue[i]
    BY <1>3, <2>1, QueueFacts DEF Received
  <2> QED BY <1>1, <2>2 DEF Dropping
<1> QED BY <1>2, <1>3

\* Sending something, or nothing, drops and holds what it did before.
LEMMA SendingPlays ==
  ASSUME TypeInv, PlayedInv, phase = "edit", phase' \in {"edit", "drain", "stuck"},
         phase' # "stuck" => UNCHANGED queue \/ \E msgs \in Seq(Message) : queue' = queue \o msgs,
         UNCHANGED <<states, order>>, DOMAIN sequences \subseteq DOMAIN sequences', HaveCues'
  PROVE  PlayedInv'
<1>1. StoppedAtFirst' /\ NodesSeeNoQueue' /\ PlayedCueExists'
  BY DEF PlayedInv, StoppedAtFirst, NodesSeeNoQueue, PlayedCueExists
<1>2. ActiveAreHeld'
  <2> SUFFICES ASSUME phase' # "stuck", NEW id \in DOMAIN states, states[id].active
               PROVE  Dropping(id)' \/ (id \in DOMAIN sequences' /\ id \in Range(order))
    BY DEF ActiveAreHeld
  <2>1. Dropping(id) \/ (id \in DOMAIN sequences /\ id \in Range(order))
    BY DEF PlayedInv, ActiveAreHeld
  <2>2. Dropping(id) => Dropping(id)'
    <3>1. UNCHANGED queue /\ Dropping(id) => Dropping(id)'
      BY DEF Dropping
    <3> QED BY <3>1, DroppingStays DEF TypeInv
  <2> QED BY <2>1, <2>2
<1> QED BY <1>1, <1>2 DEF PlayedInv

LEMMA UserPlays ==
  SequencesHaveCues /\ TypeInv /\ PlayedInv /\ User => PlayedInv'
<1> SUFFICES ASSUME SequencesHaveCues, TypeInv, PlayedInv, User PROVE PlayedInv'
  OBVIOUS
<1>0. QueueInv /\ SequencesInv /\ HaveCues /\ UNCHANGED sequences => HaveCues'
  BY DEF HaveCues
<1>1. ASSUME NEW msgs \in Seq(Message), Enqueue(msgs), phase = "edit",
             UNCHANGED <<sequences, states, order>>
      PROVE PlayedInv'
  <2>1. phase' \in {"edit", "stuck"} /\ (phase' = "edit" => queue' = queue \o msgs)
    BY <1>1, EnqueueFacts DEF TypeInv
  <2>2. HaveCues'
    BY <1>1 DEF HaveCues, PlayedInv
  <2> QED BY <1>1, <2>1, <2>2, SendingPlays
<1>2. ASSUME NEW op \in {"GoForward", "GoBackward", "Stop"}, NEW id \in SequenceId, Send(op, id)
      PROVE PlayedInv'
  <2>1. <<[type |-> op, id |-> id]>> \in Seq(Message)
    BY DEF Message
  <2> QED BY <1>1, <1>2, <2>1 DEF Send, Using
<1>3. ASSUME NEW id \in SequenceId, NEW cue \in DOMAIN Sequence[id].cues, SendGoTo(id, cue)
      PROVE PlayedInv'
  <2>1. cue \in Nat
    BY SequenceAssumption, CueFacts
  <2>2. <<[type |-> "GoTo", id |-> id, cue |-> cue]>> \in Seq(Message)
    BY <2>1 DEF Message
  <2> QED BY <1>1, <1>3, <2>2 DEF SendGoTo, Using
<1>4. ASSUME NEW id \in SequenceId, Toggle(id) PROVE PlayedInv'
  <2>1. <<[type |-> IF view[id] THEN "Stop" ELSE "GoForward", id |-> id]>> \in Seq(Message)
    BY DEF Message
  <2> QED BY <1>1, <1>4, <2>1 DEF Toggle, Using
<1>5. ASSUME NEW id \in SequenceId, NEW rate \in Rate, SetPort(id, rate) PROVE PlayedInv'
  <2>1. HaveCues'
    BY <1>5 DEF SetPort, HaveCues, PlayedInv
  <2> QED BY <1>5, <2>1, SendingPlays DEF SetPort, Using
<1>6. ASSUME NEW id \in SequenceId, Store(id) PROVE PlayedInv'
  <2> DEFINE seq == sequences[id]
             new == [seq EXCEPT !.cues = Append(@, NewCue)]
  <2>1. sequences' = [sequences EXCEPT ![id] = new] /\ id \in DOMAIN sequences
    BY <1>6 DEF Store
  <2>2. Cues(new) > 0
    <3>1. seq \in [cues : Seq(Range(seq.cues)), wrap : BOOLEAN, stopOnLast : BOOLEAN]
      BY <2>1 DEF TypeInv, SequencesInv, AreSequences, IsSequence
    <3>2. new.cues = Append(seq.cues, NewCue)
      BY <3>1
    <3>3. seq.cues \in Seq(Range(seq.cues) \cup {NewCue})
      BY <3>1, SeqMonotonic
    <3>4. Len(Append(seq.cues, NewCue)) = Len(seq.cues) + 1 /\ Len(seq.cues) \in Nat
      BY <3>3
    <3> HIDE DEF new, seq
    <3> QED BY <3>2, <3>4 DEF Cues
  <2> HIDE DEF new
  <2>3. HaveCues' /\ DOMAIN sequences' = DOMAIN sequences
    BY <2>1, <2>2 DEF HaveCues, PlayedInv
  <2> QED BY <1>6, <2>3, SendingPlays DEF Store, Using
<1>7. ASSUME NEW id \in SequenceId, Unstore(id) PROVE PlayedInv'
  <2> DEFINE seq == sequences[id]
             new == [seq EXCEPT !.cues = Front(@)]
  <2>1. sequences' = [sequences EXCEPT ![id] = new] /\ id \in DOMAIN sequences /\ Cues(seq) > 1
    BY <1>7 DEF Unstore
  <2>2. Cues(new) > 0
    <3>1. seq \in [cues : Seq(Range(seq.cues)), wrap : BOOLEAN, stopOnLast : BOOLEAN]
      BY <2>1 DEF TypeInv, SequencesInv, AreSequences, IsSequence
    <3>2. new.cues = SubSeq(seq.cues, 1, Len(seq.cues) - 1)
      BY <3>1 DEF Front
    <3>3. Len(seq.cues) \in Nat /\ Len(seq.cues) > 1
      BY <2>1, <3>1 DEF Cues
    <3>4. Len(SubSeq(seq.cues, 1, Len(seq.cues) - 1)) = Len(seq.cues) - 1
      BY <3>1, <3>3
    <3> HIDE DEF new, seq
    <3> QED BY <3>2, <3>3, <3>4 DEF Cues
  <2> HIDE DEF new
  <2>3. HaveCues' /\ DOMAIN sequences' = DOMAIN sequences
    BY <2>1, <2>2 DEF HaveCues, PlayedInv
  <2> QED BY <1>7, <2>3, SendingPlays DEF Unstore, Using
<1>8. ASSUME NEW id \in SequenceId, Delete(id) PROVE PlayedInv'
  <2> DEFINE msg == [type |-> "DropState", id |-> id]
  <2>1. <<msg>> \in Seq(Message)
    BY DEF Message
  <2>2. phase' \in {"edit", "stuck"} /\ (phase' = "edit" => queue' = queue \o <<msg>>)
    BY <1>8, <2>1, EnqueueFacts DEF Delete, TypeInv
  <2>3. /\ DOMAIN sequences' = DOMAIN sequences \ {id}
        /\ \A x \in DOMAIN sequences' : sequences'[x] = sequences[x]
    BY <1>8 DEF Delete, Without, Restrict
  <2>4. HaveCues'
    BY <2>3 DEF HaveCues, PlayedInv
  <2>5. StoppedAtFirst' /\ NodesSeeNoQueue' /\ PlayedCueExists'
    BY <1>8, <2>2 DEF Delete, PlayedInv, StoppedAtFirst, NodesSeeNoQueue, PlayedCueExists
  <2>6. ActiveAreHeld'
    <3> SUFFICES ASSUME phase' = "edit", NEW x \in DOMAIN states, states[x].active
                 PROVE  Dropping(x)' \/ (x \in DOMAIN sequences' /\ x \in Range(order))
      BY <1>8, <2>2 DEF Delete, ActiveAreHeld
    <3>1. Dropping(x) \/ (x \in DOMAIN sequences /\ x \in Range(order))
      BY <1>8 DEF PlayedInv, ActiveAreHeld, Delete, Using
    <3>2. Dropping(x) => Dropping(x)'
      BY <2>1, <2>2, DroppingStays DEF TypeInv
    <3>3. x = id => Dropping(x)'
      <4> DEFINE n == Len(queue) + 1
      <4>1. n \in 1 .. Len(queue') /\ queue'[n] = msg
        BY <2>1, <2>2 DEF TypeInv, QueueInv
      <4> HIDE DEF n
      <4> QED BY <4>1 DEF Dropping
    <3> QED BY <2>3, <3>1, <3>2, <3>3
  <2> QED BY <2>4, <2>5, <2>6 DEF PlayedInv
<1>9. ASSUME NEW id \in SequenceId, Restore(id) PROVE PlayedInv'
  <2>1. /\ DOMAIN sequences' = DOMAIN sequences \cup {id} /\ sequences'[id] = Sequence[id]
        /\ \A x \in DOMAIN sequences : x # id => sequences'[x] = sequences[x]
    BY <1>9 DEF Restore, With
  <2>2. HaveCues'
    BY <2>1 DEF SequencesHaveCues, HaveCues, PlayedInv
  <2> QED BY <1>9, <2>1, <2>2, SendingPlays DEF Restore, Using
<1>10. CASE Close
  <2>1. DOMAIN <<>> = {}
    OBVIOUS
  <2>2. HaveCues' /\ StoppedAtFirst' /\ ActiveAreHeld' /\ PlayedCueExists'
    BY <1>10, <2>1 DEF Close, HaveCues, StoppedAtFirst, ActiveAreHeld, PlayedCueExists
  <2> QED BY <1>10, <2>2 DEF Close, Using, PlayedInv, NodesSeeNoQueue
<1>11. CASE Load
  <2>1. DOMAIN <<>> = {}
    OBVIOUS
  <2>2. HaveCues' /\ StoppedAtFirst' /\ ActiveAreHeld' /\ PlayedCueExists'
    BY <1>11, <2>1 DEF Load, HaveCues, StoppedAtFirst, ActiveAreHeld, PlayedCueExists,
       SequencesHaveCues, SequenceId
  <2> QED BY <1>11, <2>2 DEF Load, Using, PlayedInv, NodesSeeNoQueue
<1> QED BY <1>2, <1>3, <1>4, <1>5, <1>6, <1>7, <1>8, <1>9, <1>10, <1>11 DEF User

\* A handler that changes the state of one sequence only.
LEMMA HandlingPlays ==
  ASSUME TypeInv, PlayedInv, NEW id,
         phase' \in {"drain", "dead"}, queue # <<>>, Received,
         queue[1].type = "DropState" => queue[1].id = id /\ id \notin DOMAIN states',
         UNCHANGED sequences, Range(order) \ {id} \subseteq Range(order'),
         DOMAIN states' \subseteq DOMAIN states \cup {id},
         \A other \in DOMAIN states : other # id => states'[other] = states[other],
         id \in DOMAIN states' =>
           /\ ~states'[id].active => states'[id].cue = 0
           /\ states'[id].active =>
                Dropping(id)' \/ (id \in DOMAIN sequences /\ id \in Range(order')),
         phase = "drain"
  PROVE  PlayedInv'
<1>1. HaveCues' /\ NodesSeeNoQueue' /\ PlayedCueExists'
  BY DEF PlayedInv, HaveCues, NodesSeeNoQueue, PlayedCueExists
<1>2. StoppedAtFirst'
  BY DEF PlayedInv, StoppedAtFirst
<1>3. ActiveAreHeld'
  <2> SUFFICES ASSUME NEW x \in DOMAIN states', states'[x].active
               PROVE  Dropping(x)' \/ (x \in DOMAIN sequences /\ x \in Range(order'))
    BY DEF ActiveAreHeld
  <2>1. CASE x = id
    BY <2>1
  <2>2. CASE x # id
    <3>1. x \in DOMAIN states /\ states[x].active
      BY <2>2
    <3>2. Dropping(x) \/ (x \in DOMAIN sequences /\ x \in Range(order))
      BY <3>1 DEF PlayedInv, ActiveAreHeld
    <3>3. Dropping(x) => Dropping(x)'
      BY <2>2, DroppingStays DEF TypeInv
    <3> QED BY <2>2, <3>2, <3>3
  <2> QED BY <2>1, <2>2
<1> QED BY <1>1, <1>2, <1>3 DEF PlayedInv

\* What held the state of a sequence still does after the head is taken.
LEMMA StateStaysHeld ==
  ASSUME TypeInv, PlayedInv, phase = "drain", NEW id, queue # <<>>, Received,
         queue[1].type # "DropState"
  PROVE  /\ ~StateOf(id).active => StateOf(id).cue = 0
         /\ StateOf(id).active =>
              Dropping(id)' \/ (id \in DOMAIN sequences /\ id \in Range(order))
<1>1. CASE id \in DOMAIN states
  <2>1. StateOf(id) = states[id]
    BY <1>1 DEF StateOf
  <2>2. ~states[id].active => states[id].cue = 0
    BY <1>1 DEF PlayedInv, StoppedAtFirst
  <2>3. states[id].active => Dropping(id) \/ (id \in DOMAIN sequences /\ id \in Range(order))
    BY <1>1 DEF PlayedInv, ActiveAreHeld
  <2>4. Dropping(id) => Dropping(id)'
    BY DroppingStays DEF TypeInv
  <2> QED BY <2>1, <2>2, <2>3, <2>4
<1>2. CASE id \notin DOMAIN states
  BY <1>2 DEF StateOf, InitialState
<1> QED BY <1>1, <1>2

LEMMA HandleUnknownPlays == TypeInv /\ PlayedInv /\ HandleUnknown => PlayedInv'
<1> SUFFICES ASSUME TypeInv, PlayedInv, HandleUnknown PROVE PlayedInv'
  OBVIOUS
<1> PICK id : id = Head(queue).id
  OBVIOUS
<1>0. QueueInv /\ AreStates(states)
  BY DEF TypeInv, StatesInv
<1>1. PICK type \in {"GoForward", "GoBackward", "GoTo"} : Receiving(type)
  BY DEF HandleUnknown
<1>2. Received /\ Settle(id, Playback(id)) /\ UNCHANGED <<order, age>>
  BY DEF HandleUnknown
<1>3. /\ id \in SequenceId /\ phase = "drain" /\ queue # <<>>
      /\ queue[1].type # "DropState"
  BY <1>0, <1>1, <1>2, ReceivingFacts
<1>4. IsPlayback(Playback(id)) /\ Playback(id).st = StateOf(id)
  BY <1>0, PlaybackFacts
<1>5. /\ phase' \in {"drain", "dead"} /\ UNCHANGED sequences
      /\ DOMAIN states' = DOMAIN states \cup {id} /\ states'[id] = StateOf(id)
      /\ \A other \in DOMAIN states : other # id => states'[other] = states[other]
  BY <1>0, <1>2, <1>3, <1>4, SettleFacts
<1>6. /\ ~StateOf(id).active => StateOf(id).cue = 0
      /\ StateOf(id).active =>
           Dropping(id)' \/ (id \in DOMAIN sequences /\ id \in Range(order))
  BY <1>2, <1>3, StateStaysHeld
<1> QED BY <1>2, <1>3, <1>5, <1>6, HandlingPlays

LEMMA HandleGoPlays == TypeInv /\ PlayedInv /\ HandleGo => PlayedInv'
<1> SUFFICES ASSUME TypeInv, PlayedInv, HandleGo PROVE PlayedInv'
  OBVIOUS
<1>0. QueueInv /\ AreStates(states) /\ AreSequences(sequences) /\ OrderInv
  BY DEF TypeInv, StatesInv, SequencesInv
<1>1. PICK id, is :
           /\ id \in DOMAIN sequences
           /\ phase = "drain" /\ queue # <<>> /\ Received
           /\ Head(queue) = queue[1] /\ Head(queue).type # "DropState"
           /\ IsPlayback(is) /\ Commanded(sequences[id], Playback(id), is)
           /\ Settle(id, is)
           /\ order' = Reordered(id, Playback(id).st.active, is.st.active)
  BY <1>0, HandleGoMeans
<1>2. id \in SequenceId
  BY <1>0, <1>1 DEF AreSequences
<1>3. IsPlayback(Playback(id)) /\ Playback(id).st = StateOf(id)
  BY <1>0, PlaybackFacts
<1>4. /\ phase' \in {"drain", "dead"} /\ UNCHANGED sequences
      /\ DOMAIN states' = DOMAIN states \cup {id} /\ states'[id] = is.st
      /\ \A other \in DOMAIN states : other # id => states'[other] = states[other]
  BY <1>0, <1>1, <1>2, SettleFacts
<1>5. /\ ~StateOf(id).active => StateOf(id).cue = 0
      /\ StateOf(id).active =>
           Dropping(id)' \/ (id \in DOMAIN sequences /\ id \in Range(order))
  BY <1>1, StateStaysHeld
<1>6. ~is.st.active => is.st.cue = 0
  BY <1>1, <1>3, <1>5 DEF Commanded, Arrived, Entered
<1>7. /\ Range(order) \ {id} \subseteq Range(order')
      /\ is.st.active => Dropping(id)' \/ id \in Range(order')
  <2>1. CASE is.st.active /\ ~Playback(id).st.active
    <3>1. order' = Inserted(order, id)
      BY <1>1, <2>1 DEF Reordered
    <3>2. Range(order') = Range(order) \cup {id}
      BY <1>0, <1>2, <3>1, InsertedFacts DEF OrderInv
    <3> QED BY <3>2
  <2>2. CASE is.st.active /\ Playback(id).st.active
    <3>1. order' = order
      BY <1>1, <2>2 DEF Reordered
    <3> QED BY <1>3, <1>5, <2>2, <3>1
  <2>3. CASE ~is.st.active
    <3>1. order' = Removed(order, id)
      BY <1>1, <2>3 DEF Reordered
    <3>2. Range(order') = Range(order) \ {id}
      BY <1>0, <3>1, RemovedFacts DEF OrderInv
    <3> QED BY <2>3, <3>2
  <2> QED BY <2>1, <2>2, <2>3
<1> QED BY <1>1, <1>4, <1>6, <1>7, HandlingPlays

LEMMA HandleStopPlays == TypeInv /\ PlayedInv /\ HandleStop => PlayedInv'
<1> SUFFICES ASSUME TypeInv, PlayedInv, HandleStop PROVE PlayedInv'
  OBVIOUS
<1> PICK id : id = Head(queue).id
  OBVIOUS
<1>0. QueueInv /\ AreStates(states) /\ OrderInv
  BY DEF TypeInv, StatesInv
<1>1. /\ Receiving("Stop") /\ Received
      /\ Settle(id, Halting(id)) /\ order' = Removed(order, id)
  BY DEF HandleStop, Halting
<1>2. id \in SequenceId /\ phase = "drain" /\ queue # <<>> /\ queue[1].type # "DropState"
  BY <1>0, <1>1, ReceivingFacts
<1>3. IsPlayback(Halting(id))
  BY <1>0, HaltingFacts
<1>4. /\ phase' \in {"drain", "dead"} /\ UNCHANGED sequences
      /\ DOMAIN states' = DOMAIN states \cup {id} /\ states'[id] = Halting(id).st
      /\ \A other \in DOMAIN states : other # id => states'[other] = states[other]
  BY <1>0, <1>1, <1>2, <1>3, SettleFacts
<1>5. Range(order) \ {id} \subseteq Range(order')
  BY <1>0, <1>1, RemovedFacts DEF OrderInv
<1>6. /\ ~StateOf(id).active => StateOf(id).cue = 0
      /\ StateOf(id).active =>
           Dropping(id)' \/ (id \in DOMAIN sequences /\ id \in Range(order))
  BY <1>1, <1>2, StateStaysHeld
<1>7. /\ ~Halting(id).st.active => Halting(id).st.cue = 0
      /\ Halting(id).st.active => Dropping(id)'
  <2>1. CASE id \in DOMAIN sequences
    BY <1>0, <2>1, HaltingFacts
  <2>2. CASE id \notin DOMAIN sequences
    <3>1. Halting(id).st = StateOf(id)
      BY <1>0, <2>2, HaltingFacts, PlaybackFacts
    <3> QED BY <1>6, <2>2, <3>1
  <2> QED BY <2>1, <2>2
<1> QED BY <1>1, <1>2, <1>4, <1>5, <1>7, HandlingPlays

LEMMA HandleDropStatePlays == TypeInv /\ PlayedInv /\ HandleDropState => PlayedInv'
<1> SUFFICES ASSUME TypeInv, PlayedInv, HandleDropState PROVE PlayedInv'
  OBVIOUS
<1> PICK id : id = Head(queue).id
  OBVIOUS
<1>0. QueueInv /\ OrderInv
  BY DEF TypeInv
<1>1. /\ Receiving("DropState") /\ Received
      /\ states' = Without(states, id) /\ order' = Removed(order, id)
      /\ phase' = IF Halting(id).ok THEN phase ELSE "dead"
      /\ UNCHANGED sequences
  BY DEF HandleDropState, Halting
<1>2. phase = "drain" /\ queue # <<>> /\ queue[1].id = id
  BY <1>0, <1>1, ReceivingFacts
<1>3. Range(order) \ {id} \subseteq Range(order')
  BY <1>0, <1>1, RemovedFacts DEF OrderInv
<1>4. /\ DOMAIN states' = DOMAIN states \ {id} /\ phase' \in {"drain", "dead"}
      /\ \A other \in DOMAIN states : other # id => states'[other] = states[other]
  BY <1>1, <1>2 DEF Without, Restrict
<1>5. id \notin DOMAIN states' /\ DOMAIN states' \subseteq DOMAIN states \cup {id}
  BY <1>4
<1> QED BY <1>1, <1>2, <1>3, <1>4, <1>5, HandlingPlays

LEMMA HandleSetRatePlays == TypeInv /\ PlayedInv /\ HandleSetRate => PlayedInv'
<1> SUFFICES ASSUME TypeInv, PlayedInv, HandleSetRate PROVE PlayedInv'
  OBVIOUS
<1>1. /\ phase = "drain" /\ queue # <<>> /\ Received /\ queue[1].type # "DropState"
      /\ AreStates(states') /\ DOMAIN states' = DOMAIN states
      /\ \A id \in DOMAIN states : \E rate \in Rates : states'[id] = [states[id] EXCEPT !.rate = rate]
      /\ UNCHANGED <<phase, sequences, order>>
  BY HandleSetRateMeans DEF TypeInv, StatesInv
<1>2. \A id \in DOMAIN states :
        states'[id].active = states[id].active /\ states'[id].cue = states[id].cue
  <2> TAKE id \in DOMAIN states
  <2>1. PICK rate \in Rates : states'[id] = [states[id] EXCEPT !.rate = rate]
    BY <1>1
  <2>2. IsState(states[id])
    BY DEF TypeInv, StatesInv, AreStates
  <2> QED BY <2>1, <2>2, RateFacts
<1>3. HaveCues' /\ StoppedAtFirst' /\ NodesSeeNoQueue' /\ PlayedCueExists'
  BY <1>1, <1>2 DEF PlayedInv, HaveCues, StoppedAtFirst, NodesSeeNoQueue, PlayedCueExists
<1>4. ActiveAreHeld'
  <2> SUFFICES ASSUME NEW x \in DOMAIN states, states'[x].active
               PROVE  Dropping(x)' \/ (x \in DOMAIN sequences /\ x \in Range(order))
    BY <1>1 DEF ActiveAreHeld
  <2>1. Dropping(x) \/ (x \in DOMAIN sequences /\ x \in Range(order))
    BY <1>1, <1>2 DEF PlayedInv, ActiveAreHeld
  <2>2. Dropping(x) => Dropping(x)'
    BY <1>1, DroppingStays DEF TypeInv
  <2> QED BY <2>1, <2>2
<1> QED BY <1>3, <1>4 DEF PlayedInv

\* Running the sequences leaves every one of them at a cue that exists.
LEMMA RunSequencesPlays == TypeInv /\ PlayedInv /\ RunSequences => PlayedInv'
<1> SUFFICES ASSUME TypeInv, PlayedInv, RunSequences PROVE PlayedInv'
  OBVIOUS
<1>0. AreSequences(sequences) /\ AreStates(states)
  BY DEF TypeInv, StatesInv, SequencesInv
<1>1. /\ DOMAIN states' = DOMAIN states \cup Playing
      /\ \A id \in Playing :
           /\ IsPlayback(Playback(id))
           /\ states'[id] = Run(id, sequences[id], Playback(id)).st
      /\ \A id \in DOMAIN states \ Playing : states'[id] = states[id]
      /\ phase = "drain" /\ queue = <<>>
      /\ UNCHANGED <<queue, sequences, order>>
  BY <1>0, RunSequencesMeans
<1>2. ASSUME NEW id \in Playing
      PROVE  /\ ~states'[id].active => states'[id].cue = 0
             /\ HasCue(sequences[id], states'[id].cue)
  <2>1. IsSequence(sequences[id]) /\ Cues(sequences[id]) > 0 /\ Cues(sequences[id]) \in Nat
    BY <1>0, CueFacts DEF Playing, AreSequences, PlayedInv, HaveCues
  <2>2. Playback(id).st = StateOf(id) /\ IsPlayback(Playback(id))
    BY <1>0, PlaybackFacts
  <2>3. CASE StateOf(id).active
    BY <1>1, <2>1, <2>2, <2>3, RunFacts
  <2>4. CASE ~StateOf(id).active
    <3>1. states'[id] = StateOf(id)
      BY <1>1, <2>1, <2>2, <2>4, RunFacts
    <3>2. StateOf(id).cue = 0
      BY <2>4 DEF StateOf, InitialState, PlayedInv, StoppedAtFirst
    <3> QED BY <2>1, <3>1, <3>2 DEF HasCue
  <2> QED BY <2>3, <2>4
<1>3. ASSUME NEW id \in DOMAIN states \ Playing
      PROVE  /\ ~states'[id].active => states'[id].cue = 0
             /\ ~states'[id].active \/ id \notin DOMAIN sequences
             /\ id \in DOMAIN sequences => HasCue(sequences[id], states'[id].cue)
  <2>1. states'[id] = states[id]
    BY <1>1
  <2>2. ~Dropping(id)
    BY <1>1 DEF Dropping
  <2>3. states[id].active => id \in DOMAIN sequences /\ id \in Range(order)
    BY <1>1, <2>2 DEF PlayedInv, ActiveAreHeld
  <2>4. ~states[id].active
    BY <2>3 DEF Playing
  <2>5. states[id].cue = 0
    BY <2>4 DEF PlayedInv, StoppedAtFirst
  <2>6. id \in DOMAIN sequences => HasCue(sequences[id], 0)
    BY <1>0 DEF PlayedInv, HaveCues, HasCue
  <2> QED BY <2>1, <2>4, <2>5, <2>6
<1>4. HaveCues' /\ NodesSeeNoQueue'
  BY <1>1 DEF PlayedInv, HaveCues, NodesSeeNoQueue
<1>5. StoppedAtFirst' /\ PlayedCueExists'
  BY <1>1, <1>2, <1>3 DEF StoppedAtFirst, PlayedCueExists
<1>6. ActiveAreHeld'
  <2> SUFFICES ASSUME NEW x \in DOMAIN states', states'[x].active
               PROVE  x \in DOMAIN sequences /\ x \in Range(order)
    BY <1>1 DEF ActiveAreHeld
  <2>1. CASE x \in Playing
    BY <2>1 DEF Playing
  <2>2. CASE x \notin Playing
    <3>1. x \in DOMAIN states /\ states'[x] = states[x]
      BY <1>1, <2>2
    <3>2. ~Dropping(x)
      BY <1>1 DEF Dropping
    <3> QED BY <1>1, <3>1, <3>2 DEF PlayedInv, ActiveAreHeld
  <2> QED BY <2>1, <2>2
<1> QED BY <1>4, <1>5, <1>6 DEF PlayedInv

LEMMA ProcessNodesPlays == TypeInv /\ PlayedInv /\ ProcessNodes => PlayedInv'
<1> SUFFICES ASSUME TypeInv, PlayedInv, ProcessNodes PROVE PlayedInv'
  OBVIOUS
<1>0. QueueInv /\ AreSequences(sequences) /\ AreStates(states) /\ ClockInv
  BY DEF TypeInv, StatesInv, SequencesInv
<1>1. /\ phase = "nodes" /\ phase' \in {"edit", "stuck"}
      /\ DOMAIN states' = DOMAIN states
      /\ \A id \in DOMAIN states : states'[id] = Later(states[id])
      /\ UNCHANGED <<sequences, order>>
  BY <1>0, ProcessNodesMeans
<1>2. \A id \in DOMAIN states :
        states'[id].active = states[id].active /\ states'[id].cue = states[id].cue
  BY ZenonT(40), <1>0, <1>1, LaterFacts DEF AreStates
<1>3. HaveCues' /\ StoppedAtFirst' /\ NodesSeeNoQueue' /\ PlayedCueExists'
  BY <1>1, <1>2 DEF PlayedInv, HaveCues, StoppedAtFirst, NodesSeeNoQueue, PlayedCueExists
<1>4. \A id : ~Dropping(id)
  BY <1>1 DEF PlayedInv, NodesSeeNoQueue, Dropping
<1>5. ActiveAreHeld'
  BY <1>1, <1>2, <1>4 DEF PlayedInv, ActiveAreHeld
<1> QED BY <1>3, <1>5 DEF PlayedInv

LEMMA NextPlays ==
  SequencesHaveCues /\ TypeInv /\ PlayedInv /\ [Next]_vars => PlayedInv'
<1> SUFFICES ASSUME SequencesHaveCues, TypeInv, PlayedInv, [Next]_vars PROVE PlayedInv'
  OBVIOUS
<1>1. CASE User
  BY <1>1, UserPlays
<1>2. CASE StartFrame
  <2>1. HaveCues'
    BY <1>2 DEF StartFrame, PlayedInv, HaveCues
  <2> QED BY <1>2, <2>1, SendingPlays DEF StartFrame
<1>3. CASE Handle
  BY <1>3, HandleUnknownPlays, HandleGoPlays, HandleStopPlays, HandleSetRatePlays,
     HandleDropStatePlays DEF Handle
<1>4. CASE RunSequences
  BY <1>4, RunSequencesPlays
<1>5. CASE ProcessNodes
  BY <1>5, ProcessNodesPlays
<1>6. CASE UNCHANGED vars
  BY <1>6 DEF vars, PlayedInv, HaveCues, StoppedAtFirst, NodesSeeNoQueue, PlayedCueExists,
     ActiveAreHeld, Dropping
<1> QED BY <1>1, <1>2, <1>3, <1>4, <1>5, <1>6 DEF Next, Frame

LEMMA InitPlays == SequencesHaveCues /\ Init => PlayedInv
<1>1. DOMAIN <<>> = {}
  OBVIOUS
<1> QED BY <1>1 DEF Init, SequencesHaveCues, PlayedInv, HaveCues, StoppedAtFirst, NodesSeeNoQueue,
       PlayedCueExists, ActiveAreHeld, SequenceId

\* PlayedCueExists: whatever cues are stored and taken away, whatever
\* sequences are deleted and restored while they are played, a frame leaves no
\* sequence at a cue that does not exist, if none starts without cues.
THEOREM PlayedCuesAlwaysExist ==
  ASSUME SequencesHaveCues
  PROVE  Spec => []PlayedCueExists
<1>1. Init => TypeInv /\ PlayedInv
  BY InitTypes, InitPlays
<1>2. (TypeInv /\ PlayedInv) /\ [Next]_vars => (TypeInv /\ PlayedInv)'
  BY NextTypes, NextPlays
<1>3. PlayedInv => PlayedCueExists
  BY DEF PlayedInv
<1> QED BY <1>1, <1>2, <1>3, PTL DEF Spec

-----------------------------------------------------------------------------
(* Shows whose cues stay: no cue is taken away and no sequence deleted while *)
(* it may be played.                                                       *)

Steady ==
  /\ SequencesHaveCues
  /\ UserOp \cap {"Unstore", "Delete"} = {}

\* What is queued drops no state and goes to no cue that does not exist.
IsSafe(msg) ==
  /\ msg.type # "DropState"
  /\ msg.type = "GoTo" => msg.cue \in DOMAIN Sequence[msg.id].cues

SafeCommands == \A i \in 1 .. Len(queue) : IsSafe(queue[i])

CuesStay ==
  \A id \in DOMAIN sequences : DOMAIN Sequence[id].cues \subseteq DOMAIN sequences[id].cues

\* What is played is a cue of a sequence, and at most its effects run.
PlaysACue(id, st) ==
  /\ id \in DOMAIN sequences
  /\ HasCue(sequences[id], st.cue)
  /\ DOMAIN st.effects \subseteq CueAt(sequences[id], st.cue).effects

\* What stopped by itself has its first cue's effects and values.
RestsAtFirst(id, st) ==
  /\ id \in DOMAIN sequences /\ sequences[id].stopOnLast
  /\ st.cue = 0
  /\ DOMAIN st.effects = CueAt(sequences[id], 0).effects
  /\ st.values \subseteq CueAt(sequences[id], 0).channels

IsSilent(st) == st.effects = <<>> /\ st.values = {}

\* A state, of a sequence that is listed in the order or not.
Stands(id, st, listed) ==
  /\ st.active => listed /\ PlaysACue(id, st)
  /\ ~st.active /\ listed => RestsAtFirst(id, st)
  /\ ~listed => IsSilent(st)

AllStand     == \A id : Stands(id, StateOf(id), id \in Range(order))
OrderIsKnown == Range(order) \subseteq DOMAIN states
Owned        == \A id : {i \in live : i.sequence = id} = Range(StateOf(id).effects)

\* What an inactive sequence wrote: its first cue, when it stopped by itself.
LastWrites(id, st, wrote) ==
  wrote # {} => /\ id \in Range(order) /\ st.goAt = "now"
                /\ wrote \subseteq CueAt(sequences[id], 0).channels

AfterAFrame ==
  phase = "nodes" =>
    /\ \A id \in Active :
         DOMAIN states[id].effects = CueAt(sequences[id], states[id].cue).effects
    /\ \A id \in DOMAIN states \ Active : LastWrites(id, states[id], written[id])

SteadyInv ==
  /\ HaveCues /\ CuesStay /\ SafeCommands
  /\ AllStand /\ OrderIsKnown /\ Owned /\ AfterAFrame

\* The state of any sequence, of one that was never played too.
LEMMA StateOfSteady ==
  ASSUME SteadyInv, NEW id
  PROVE  /\ StateOf(id).active => id \in Range(order) /\ PlaysACue(id, StateOf(id))
         /\ ~StateOf(id).active /\ id \in Range(order) => RestsAtFirst(id, StateOf(id))
         /\ id \notin Range(order) => IsSilent(StateOf(id))
  BY DEF SteadyInv, AllStand, Stands

\* The states of what is in the order.
LEMMA OrderedStates ==
  ASSUME SteadyInv
  PROVE  /\ Active \subseteq Range(order)
         /\ \A id \in Active : StateOf(id) = states[id] /\ PlaysACue(id, states[id])
         /\ \A id \in Range(order) \ Active :
              id \in DOMAIN states /\ ~states[id].active /\ RestsAtFirst(id, states[id])
         /\ \A id \in DOMAIN states \ Range(order) : IsSilent(states[id])
         /\ Range(order) \subseteq DOMAIN sequences
<1>1. \A id \in DOMAIN states : StateOf(id) = states[id]
  BY DEF StateOf
<1>2. \A id \in Active : id \in DOMAIN states /\ states[id].active
  BY DEF Active
<1>3. ASSUME NEW id \in Active
      PROVE  id \in Range(order) /\ StateOf(id) = states[id] /\ PlaysACue(id, states[id])
  BY <1>1, <1>2, StateOfSteady
<1>4. ASSUME NEW id \in Range(order) \ Active
      PROVE  id \in DOMAIN states /\ ~states[id].active /\ RestsAtFirst(id, states[id])
  <2>1. id \in DOMAIN states
    BY DEF SteadyInv, OrderIsKnown
  <2> QED BY <1>1, <2>1, StateOfSteady DEF Active
<1>5. ASSUME NEW id \in DOMAIN states \ Range(order) PROVE IsSilent(states[id])
  BY <1>1, StateOfSteady
<1>6. Range(order) \subseteq DOMAIN sequences
  BY <1>3, <1>4 DEF PlaysACue, RestsAtFirst
<1> QED BY <1>3, <1>4, <1>5, <1>6

LEMMA SteadyInvImplies ==
  ASSUME TypeInv, SteadyInv
  PROVE  OrderHoldsTheActive /\ EffectsFollowCues /\ StoppedIsSilent
<1>1. OrderHoldsTheActive
  BY OrderedStates DEF TypeInv, OrderInv, OrderHoldsTheActive, Lingering, RestsAtFirst
<1>2. StoppedIsSilent
  <2> SUFFICES ASSUME phase = "nodes", NEW id \in DOMAIN states \ Active
               PROVE  /\ id \notin Lingering =>
                           written[id] = {} /\ states[id].effects = <<>> /\ states[id].values = {}
                      /\ id \in Lingering =>
                           /\ written[id] # {} => states[id].goAt = "now"
                           /\ written[id] \cup states[id].values \subseteq CueAt(sequences[id], 0).channels
    BY DEF StoppedIsSilent
  <2>1. LastWrites(id, states[id], written[id])
    BY DEF SteadyInv, AfterAFrame
  <2>2. CASE id \in Lingering
    <3>1. RestsAtFirst(id, states[id])
      BY <2>2, OrderedStates DEF Lingering
    <3> QED BY <2>1, <2>2, <3>1 DEF LastWrites, RestsAtFirst
  <2>3. CASE id \notin Lingering
    <3>1. IsSilent(states[id]) /\ id \notin Range(order)
      BY <2>3, OrderedStates DEF Lingering
    <3> QED BY <2>1, <2>3, <3>1 DEF LastWrites, IsSilent
  <2> QED BY <2>2, <2>3
<1>3. live = UNION {Range(states[id].effects) : id \in Range(order)}
  <2>1. ASSUME NEW i \in live PROVE i.sequence \in Range(order) /\ i \in Range(states[i.sequence].effects)
    <3> DEFINE id == i.sequence
    <3>1. i \in Range(StateOf(id).effects)
      BY DEF SteadyInv, Owned
    <3>2. StateOf(id).effects # <<>>
      BY <3>1, NothingIn
    <3>3. id \in DOMAIN states /\ StateOf(id) = states[id]
      BY <3>2 DEF StateOf, InitialState
    <3>4. id \in Range(order)
      BY <3>2, StateOfSteady DEF IsSilent
    <3> QED BY <3>1, <3>3, <3>4
  <2>2. ASSUME NEW id \in Range(order) PROVE Range(states[id].effects) \subseteq live
    <3>1. StateOf(id) = states[id]
      BY DEF SteadyInv, OrderIsKnown, StateOf
    <3> QED BY <3>1 DEF SteadyInv, Owned
  <2> QED BY <2>1, <2>2
<1>4. ASSUME phase = "nodes", NEW id \in Range(order)
      PROVE  DOMAIN states[id].effects = CueAt(sequences[id], states[id].cue).effects
  <2>1. CASE id \in Active
    BY <1>4, <2>1 DEF SteadyInv, AfterAFrame
  <2>2. CASE id \notin Active
    BY <2>2, OrderedStates DEF RestsAtFirst
  <2> QED BY <2>1, <2>2
<1>5. EffectsFollowCues
  BY <1>3, <1>4 DEF EffectsFollowCues
<1> QED BY <1>1, <1>2, <1>5

\* The playback of a sequence owns its effects.
LEMMA PlaybackOwns ==
  ASSUME AreStates(states), Owned, NEW id
  PROVE  Own(id, Playback(id))
  BY PlaybackFacts DEF Owned, Own

\* How the order follows a command.
LEMMA ReorderedRange ==
  ASSUME OrderInv, NEW id \in SequenceId, NEW was \in BOOLEAN, NEW is \in BOOLEAN,
         was => id \in Range(order)
  PROVE  LET new == Reordered(id, was, is)
         IN  /\ Range(new) = IF is THEN Range(order) \cup {id} ELSE Range(order) \ {id}
             /\ is /\ ~was => new = IF id \in Range(order) THEN order ELSE Append(order, id)
<1>1. CASE ~is
  <2>1. Reordered(id, was, is) = Removed(order, id)
    BY <1>1 DEF Reordered
  <2>2. Range(Removed(order, id)) = Range(order) \ {id}
    BY RemovedFacts DEF OrderInv
  <2> QED BY <1>1, <2>1, <2>2
<1>2. CASE is /\ ~was
  <2>1. Reordered(id, was, is) = Inserted(order, id)
    BY <1>2 DEF Reordered
  <2>2. Range(Inserted(order, id)) = Range(order) \cup {id}
    BY InsertedFacts DEF OrderInv
  <2> QED BY <1>2, <2>1, <2>2 DEF Inserted
<1>3. CASE is /\ was
  <2>1. Reordered(id, was, is) = order
    BY <1>3 DEF Reordered
  <2> QED BY <1>3, <2>1
<1> QED BY <1>1, <1>2, <1>3

\* A handler that settles one sequence.
LEMMA SettlingSteady ==
  ASSUME TypeInv, SteadyInv, phase = "drain", NEW id \in SequenceId, NEW p, IsPlayback(p),
         queue # <<>>, Received, Settle(id, p), Own(id, p),
         Stands(id, p.st, p.st.active),
         Range(order') = IF p.st.active THEN Range(order) \cup {id} ELSE Range(order) \ {id}
  PROVE  SteadyInv'
<1>0. AreStates(states) /\ QueueInv
  BY DEF TypeInv, StatesInv
<1>1. /\ phase' \in {"drain", "dead"}
      /\ DOMAIN states' = DOMAIN states \cup {id} /\ states'[id] = p.st
      /\ \A other \in DOMAIN states : other # id => states'[other] = states[other]
      /\ UNCHANGED sequences
  BY <1>0, SettleFacts
<1>2. HaveCues' /\ CuesStay' /\ AfterAFrame'
  BY <1>1 DEF SteadyInv, HaveCues, CuesStay, AfterAFrame
<1>3. SafeCommands'
  BY <1>0, QueueFacts DEF SteadyInv, SafeCommands, Received
<1>4. StateOf(id)' = p.st /\ \A x : x # id => StateOf(x)' = StateOf(x)
  BY <1>1 DEF StateOf
<1>5. AllStand'
  <2> SUFFICES ASSUME NEW x PROVE Stands(x, StateOf(x), x \in Range(order))'
    BY DEF AllStand
  <2>1. CASE x = id
    <3>1. (x \in Range(order))' <=> p.st.active
      BY <2>1
    <3> QED BY <1>1, <1>4, <2>1, <3>1 DEF Stands, PlaysACue, RestsAtFirst
  <2>2. CASE x # id
    <3>1. (x \in Range(order))' <=> x \in Range(order)
      BY <2>2
    <3>2. Stands(x, StateOf(x), x \in Range(order))
      BY DEF SteadyInv, AllStand
    <3> QED BY <1>1, <1>4, <2>2, <3>1, <3>2 DEF Stands, PlaysACue, RestsAtFirst
  <2> QED BY <2>1, <2>2
<1>6. OrderIsKnown'
  BY <1>1 DEF SteadyInv, OrderIsKnown
<1>7. Owned'
  <2>1. live' = (live \ Playback(id).live) \cup p.live
    BY DEF Settle, LiveAfter
  <2>2. Playback(id).live = {i \in live : i.sequence = id}
    BY <1>0, PlaybackFacts
  <2> SUFFICES ASSUME NEW x
               PROVE  {i \in live' : i.sequence = x} = Range(StateOf(x)'.effects)
    BY DEF Owned
  <2>3. CASE x = id
    <3>1. {i \in live' : i.sequence = x} = p.live
      BY <2>1, <2>2, <2>3 DEF Own
    <3> QED BY <1>4, <2>3, <3>1 DEF Own
  <2>4. CASE x # id
    <3>1. {i \in live' : i.sequence = x} = {i \in live : i.sequence = x}
      BY <2>1, <2>2, <2>4 DEF Own
    <3> QED BY <1>4, <2>4, <3>1 DEF SteadyInv, Owned
  <2> QED BY <2>3, <2>4
<1> QED BY <1>2, <1>3, <1>5, <1>6, <1>7 DEF SteadyInv

\* A sequence that does not exist is silent.
LEMMA UnknownIsSilent ==
  ASSUME SteadyInv, NEW id, id \notin DOMAIN sequences
  PROVE  ~StateOf(id).active /\ id \notin Range(order) /\ IsSilent(StateOf(id))
  BY StateOfSteady DEF PlaysACue, RestsAtFirst

LEMMA HandleUnknownSteady == TypeInv /\ SteadyInv /\ HandleUnknown => SteadyInv'
<1> SUFFICES ASSUME TypeInv, SteadyInv, HandleUnknown PROVE SteadyInv'
  OBVIOUS
<1> PICK id : id = Head(queue).id
  OBVIOUS
<1>0. QueueInv /\ AreStates(states) /\ Owned
  BY DEF TypeInv, StatesInv, SteadyInv
<1>1. PICK type \in {"GoForward", "GoBackward", "GoTo"} : Receiving(type)
  BY DEF HandleUnknown
<1>2. /\ Received /\ Settle(id, Playback(id)) /\ UNCHANGED <<order, age>>
      /\ id \notin DOMAIN sequences
  BY DEF HandleUnknown
<1>3. id \in SequenceId /\ phase = "drain" /\ queue # <<>>
  BY <1>0, <1>1, <1>2, ReceivingFacts
<1>4. IsPlayback(Playback(id)) /\ Playback(id).st = StateOf(id) /\ Own(id, Playback(id))
  BY <1>0, PlaybackFacts, PlaybackOwns
<1>5. ~StateOf(id).active /\ id \notin Range(order) /\ Stands(id, StateOf(id), StateOf(id).active)
  BY <1>2, UnknownIsSilent DEF Stands
<1> QED BY <1>2, <1>3, <1>4, <1>5, SettlingSteady

\* A command leaves a sequence at a cue with no effects running, or stopped.
LEMMA CommandedSteady ==
  ASSUME TypeInv, SteadyInv, NEW id \in DOMAIN sequences, NEW is,
         Arrived(sequences[id], Playback(id), is)
  PROVE  /\ Own(id, is) /\ Stands(id, is.st, is.st.active)
         /\ HasCue(sequences[id], is.st.cue)
<1>1. AreStates(states) /\ Owned /\ Cues(sequences[id]) > 0
  BY DEF TypeInv, StatesInv, SteadyInv, HaveCues
<1>2. Playback(id).st = StateOf(id) /\ Own(id, Playback(id))
  BY <1>1, PlaybackFacts, PlaybackOwns
<1>3. StateOf(id).active => PlaysACue(id, StateOf(id))
  BY StateOfSteady
<1>4. /\ Entered(sequences[id], Playback(id), is)
      /\ HasCue(sequences[id], is.st.cue)
  BY <1>1, <1>2, <1>3 DEF Arrived, PlaysACue
<1>5. is.live = {} /\ is.st.effects = <<>>
  BY <1>2, <1>4 DEF Entered, Own
<1>6. DOMAIN <<>> = {}
  OBVIOUS
<1> QED BY <1>4, <1>5, <1>6, NothingIn DEF Own, PlaysACue, IsSilent, Entered, Stands

\* The commands that are sent go somewhere.
LEMMA HandleGoReaches ==
  ASSUME TypeInv, SteadyInv, HandleGo
  PROVE  \E id, is :
           /\ id \in DOMAIN sequences /\ id \in SequenceId
           /\ phase = "drain" /\ queue # <<>> /\ Received
           /\ IsPlayback(is) /\ Arrived(sequences[id], Playback(id), is)
           /\ Settle(id, is)
           /\ order' = Reordered(id, Playback(id).st.active, is.st.active)
           /\ IF is = Playback(id) THEN UNCHANGED age ELSE Reentered(id)
<1>0. QueueInv /\ AreStates(states) /\ AreSequences(sequences)
  BY DEF TypeInv, StatesInv, SequencesInv
<1>1. PICK id, is :
           /\ id \in DOMAIN sequences
           /\ phase = "drain" /\ queue # <<>> /\ Received
           /\ Head(queue) = queue[1] /\ Head(queue).id = id
           /\ IsPlayback(is)
           /\ (Head(queue).type = "GoTo" => Head(queue).cue \in DOMAIN sequences[id].cues)
                => Arrived(sequences[id], Playback(id), is)
           /\ Settle(id, is)
           /\ order' = Reordered(id, Playback(id).st.active, is.st.active)
           /\ IF is = Playback(id) THEN UNCHANGED age ELSE Reentered(id)
  BY <1>0, HandleGoMeans
<1>2. IsSafe(queue[1])
  <2>1. 1 \in 1 .. Len(queue)
    BY <1>0, <1>1 DEF QueueInv
  <2> QED BY <2>1 DEF SteadyInv, SafeCommands
<1>3. Head(queue).type = "GoTo" => Head(queue).cue \in DOMAIN sequences[id].cues
  BY <1>1, <1>2 DEF IsSafe, SteadyInv, CuesStay
<1>4. id \in SequenceId
  BY <1>0, <1>1 DEF AreSequences
<1> QED BY <1>1, <1>3, <1>4

\* Only Go, GoBackward and GoTo start a sequence, which they put at the end of
\* the order, unless it stopped by itself before.
StartsLast ==
  \A x : ~IsActive(x) /\ IsActive(x)' =>
    order' = IF x \in Lingering THEN order ELSE Append(order, x)

LEMMA HandleGoSteady == TypeInv /\ SteadyInv /\ HandleGo => SteadyInv' /\ StartsLast
<1> SUFFICES ASSUME TypeInv, SteadyInv, HandleGo PROVE SteadyInv' /\ StartsLast
  OBVIOUS
<1>0. QueueInv /\ AreStates(states) /\ OrderInv /\ Owned
  BY DEF TypeInv, StatesInv, SteadyInv
<1>1. PICK id, is :
           /\ id \in DOMAIN sequences /\ id \in SequenceId
           /\ phase = "drain" /\ queue # <<>> /\ Received
           /\ IsPlayback(is) /\ Arrived(sequences[id], Playback(id), is)
           /\ Settle(id, is)
           /\ order' = Reordered(id, Playback(id).st.active, is.st.active)
  BY HandleGoReaches
<1>2. Playback(id).st = StateOf(id)
  BY <1>0, PlaybackFacts
<1>3. Playback(id).st.active => id \in Range(order)
  BY <1>2, StateOfSteady
<1>4. Own(id, is) /\ Stands(id, is.st, is.st.active)
  BY <1>1, CommandedSteady
<1>5. /\ Range(order') = IF is.st.active THEN Range(order) \cup {id} ELSE Range(order) \ {id}
      /\ is.st.active /\ ~Playback(id).st.active =>
           order' = IF id \in Range(order) THEN order ELSE Append(order, id)
  <2> PICK was, now : was = Playback(id).st.active /\ now = is.st.active
    OBVIOUS
  <2>3. was \in BOOLEAN /\ now \in BOOLEAN
    BY <1>0, <1>1, PlaybackFacts DEF IsPlayback, IsState
  <2>1. order' = Reordered(id, was, now)
    BY <1>1
  <2>2. /\ Range(order') = IF now THEN Range(order) \cup {id} ELSE Range(order) \ {id}
        /\ now /\ ~was => order' = IF id \in Range(order) THEN order ELSE Append(order, id)
    BY <1>0, <1>1, <1>3, <2>1, <2>3, ReorderedRange
  <2> QED BY <2>2
<1>6. SteadyInv'
  BY <1>1, <1>4, <1>5, SettlingSteady
<1>7. ASSUME NEW x, ~IsActive(x), IsActive(x)'
      PROVE  order' = IF x \in Lingering THEN order ELSE Append(order, x)
  <2>1. /\ DOMAIN states' = DOMAIN states \cup {id} /\ states'[id] = is.st
        /\ \A other \in DOMAIN states : other # id => states'[other] = states[other]
    BY <1>0, <1>1, SettleFacts
  <2>2. x = id
    BY <1>7, <2>1 DEF IsActive
  <2>3. is.st.active
    BY <1>7, <2>1, <2>2 DEF IsActive
  <2>4. ~Playback(id).st.active
    BY <1>2, <1>7, <2>2 DEF IsActive, StateOf, InitialState
  <2>5. x \notin Active
    BY <1>7 DEF Active, IsActive
  <2> QED BY <1>5, <2>2, <2>3, <2>4, <2>5 DEF Lingering
<1> QED BY <1>6, <1>7 DEF StartsLast

LEMMA HandleStopSteady == TypeInv /\ SteadyInv /\ HandleStop => SteadyInv' /\ \A x : IsActive(x)' => IsActive(x)
<1> SUFFICES ASSUME TypeInv, SteadyInv, HandleStop PROVE SteadyInv' /\ \A x : IsActive(x)' => IsActive(x)
  OBVIOUS
<1> PICK id : id = Head(queue).id
  OBVIOUS
<1>0. QueueInv /\ AreStates(states) /\ OrderInv /\ Owned
  BY DEF TypeInv, StatesInv, SteadyInv
<1>1. /\ Receiving("Stop") /\ Received
      /\ Settle(id, Halting(id)) /\ order' = Removed(order, id)
  BY DEF HandleStop, Halting
<1>2. id \in SequenceId /\ phase = "drain" /\ queue # <<>>
  BY <1>0, <1>1, ReceivingFacts
<1>3. IsPlayback(Halting(id))
  BY <1>0, HaltingFacts
<1>4. Own(id, Playback(id)) /\ Playback(id).st = StateOf(id)
  BY <1>0, PlaybackFacts, PlaybackOwns
<1>5. Own(id, Halting(id)) /\ ~Halting(id).st.active /\ IsSilent(Halting(id).st)
  <2>1. CASE id \in DOMAIN sequences
    <3>1. /\ Halting(id).live = {} /\ Halting(id).st.effects = <<>>
          /\ ~Halting(id).st.active /\ Halting(id).st.values = {}
      BY <1>0, <1>4, <2>1, HaltingFacts DEF Own
    <3> QED BY <3>1, NothingIn DEF Own, IsSilent
  <2>2. CASE id \notin DOMAIN sequences
    <3>1. Halting(id) = Playback(id)
      BY <1>0, <2>2, HaltingFacts
    <3>2. ~StateOf(id).active /\ IsSilent(StateOf(id))
      BY <2>2, UnknownIsSilent
    <3> QED BY <1>4, <3>1, <3>2
  <2> QED BY <2>1, <2>2
<1>6. Range(order') = Range(order) \ {id}
  BY <1>0, <1>1, RemovedFacts DEF OrderInv
<1>7. SteadyInv'
  <2>1. Stands(id, Halting(id).st, Halting(id).st.active)
    BY <1>5 DEF Stands
  <2> QED BY <1>1, <1>2, <1>3, <1>5, <1>6, <2>1, SettlingSteady
<1>8. ASSUME NEW x, IsActive(x)' PROVE IsActive(x)
  <2>1. /\ DOMAIN states' = DOMAIN states \cup {id} /\ states'[id] = Halting(id).st
        /\ \A other \in DOMAIN states : other # id => states'[other] = states[other]
    BY <1>0, <1>1, <1>2, <1>3, SettleFacts
  <2> QED BY <1>5, <1>8, <2>1 DEF IsActive
<1> QED BY <1>7, <1>8

\* Nobody becomes active but by a command that goes somewhere.
NoneStarts == \A x : IsActive(x)' => IsActive(x)

LEMMA EnqueuedSteady ==
  ASSUME QueueInv, SafeCommands, NEW msgs \in Seq(Message), Enqueue(msgs),
         \A i \in 1 .. Len(msgs) : IsSafe(msgs[i])
  PROVE  SafeCommands' /\ phase' \in {"edit", "stuck"}
<1>1. CASE UNCHANGED queue /\ phase' \in {"edit", "stuck"}
  BY <1>1 DEF SafeCommands, IsSafe
<1>2. CASE queue' = queue \o msgs /\ phase' \in {"edit", "stuck"}
  <2> SUFFICES ASSUME NEW i \in 1 .. Len(queue') PROVE IsSafe(queue'[i])
    BY <1>2 DEF SafeCommands, IsSafe
  <2>1. CASE i \in 1 .. Len(queue)
    <3>1. queue'[i] = queue[i]
      BY <1>2, <2>1 DEF QueueInv
    <3> QED BY <2>1, <3>1 DEF SafeCommands
  <2>2. CASE i \notin 1 .. Len(queue)
    <3>1. i - Len(queue) \in 1 .. Len(msgs) /\ queue'[i] = msgs[i - Len(queue)]
      BY <1>2, <2>2 DEF QueueInv
    <3> QED BY <3>1
  <2> QED BY <2>1, <2>2
<1> QED BY <1>1, <1>2 DEF Enqueue

\* What the users do between two frames leaves what is played alone.
LEMMA SendingSteady ==
  ASSUME TypeInv, SteadyInv, phase' # "nodes", SafeCommands',
         UNCHANGED <<states, order, live>>,
         HaveCues', CuesStay',
         \A id \in DOMAIN sequences :
           /\ id \in DOMAIN sequences' /\ sequences'[id].stopOnLast = sequences[id].stopOnLast
           /\ \A i \in Nat : HasCue(sequences[id], i) =>
                HasCue(sequences'[id], i) /\ CueAt(sequences'[id], i) = CueAt(sequences[id], i)
  PROVE  SteadyInv' /\ NoneStarts
<1>1. OrderIsKnown' /\ AfterAFrame' /\ NoneStarts
  BY DEF SteadyInv, OrderIsKnown, AfterAFrame, NoneStarts, IsActive
<1>2. Owned'
  BY DEF SteadyInv, Owned, StateOf
<1>3. AllStand'
  <2> SUFFICES ASSUME NEW id PROVE Stands(id, StateOf(id), id \in Range(order))'
    BY DEF AllStand
  <2>1. Stands(id, StateOf(id), id \in Range(order)) /\ UNCHANGED StateOf(id)
    BY DEF SteadyInv, AllStand, StateOf
  <2>2. StateOf(id).cue \in Nat
    BY PlaybackFacts DEF TypeInv, StatesInv, IsState
  <2>3. id \in DOMAIN sequences => HasCue(sequences[id], 0)
    BY CueFacts DEF SteadyInv, HaveCues, HasCue, TypeInv, SequencesInv, AreSequences
  <2>4. PlaysACue(id, StateOf(id)) => PlaysACue(id, StateOf(id))'
    BY <2>1, <2>2 DEF PlaysACue
  <2>5. RestsAtFirst(id, StateOf(id)) => RestsAtFirst(id, StateOf(id))'
    BY <2>1, <2>3 DEF RestsAtFirst
  <2> QED BY <2>1, <2>4, <2>5 DEF Stands
<1> QED BY <1>1, <1>2, <1>3 DEF SteadyInv

LEMMA UserSteady ==
  Steady /\ TypeInv /\ SteadyInv /\ User => SteadyInv' /\ NoneStarts
<1> SUFFICES ASSUME Steady, TypeInv, SteadyInv, User PROVE SteadyInv' /\ NoneStarts
  OBVIOUS
<1>0. /\ QueueInv /\ SequencesInv /\ SafeCommands
      /\ UNCHANGED sequences => HaveCues' /\ CuesStay'
      /\ UNCHANGED queue => SafeCommands'
  BY DEF TypeInv, SteadyInv, HaveCues, CuesStay, SafeCommands, IsSafe
<1>1. ASSUME NEW msg \in Message, IsSafe(msg), Enqueue(<<msg>>),
             UNCHANGED <<sequences, states, order, live>>
      PROVE SteadyInv' /\ NoneStarts
  <2>1. /\ <<msg>> \in Seq(Message)
        /\ \A i \in 1 .. Len(<<msg>>) : IsSafe(<<msg>>[i])
    BY <1>1
  <2>2. SafeCommands' /\ phase' \in {"edit", "stuck"}
    BY <1>0, <1>1, <2>1, EnqueuedSteady
  <2> QED BY <1>0, <1>1, <2>2, SendingSteady
<1>2. ASSUME NEW op \in {"GoForward", "GoBackward", "Stop"}, NEW id \in SequenceId, Send(op, id)
      PROVE SteadyInv' /\ NoneStarts
  <2>1. [type |-> op, id |-> id] \in Message /\ IsSafe([type |-> op, id |-> id])
    BY DEF Message, IsSafe
  <2> QED BY <1>1, <1>2, <2>1 DEF Send
<1>3. ASSUME NEW id \in SequenceId, NEW cue \in DOMAIN Sequence[id].cues, SendGoTo(id, cue)
      PROVE SteadyInv' /\ NoneStarts
  <2>1. cue \in Nat
    BY SequenceAssumption, CueFacts
  <2>2. /\ [type |-> "GoTo", id |-> id, cue |-> cue] \in Message
        /\ IsSafe([type |-> "GoTo", id |-> id, cue |-> cue])
    BY <2>1 DEF Message, IsSafe
  <2> QED BY <1>1, <1>3, <2>2 DEF SendGoTo
<1>4. ASSUME NEW id \in SequenceId, Toggle(id) PROVE SteadyInv' /\ NoneStarts
  <2> PICK type \in {"Stop", "GoForward"} : type = IF view[id] THEN "Stop" ELSE "GoForward"
    OBVIOUS
  <2>1. [type |-> type, id |-> id] \in Message /\ IsSafe([type |-> type, id |-> id])
    BY DEF Message, IsSafe
  <2> QED BY <1>1, <1>4, <2>1 DEF Toggle
<1>5. ASSUME NEW id \in SequenceId, NEW rate \in Rate, SetPort(id, rate)
      PROVE SteadyInv' /\ NoneStarts
  BY <1>0, <1>5, SendingSteady DEF SetPort, Using
<1>6. ASSUME NEW id \in SequenceId, Store(id) PROVE SteadyInv' /\ NoneStarts
  <2> DEFINE seq == sequences[id]
             new == [seq EXCEPT !.cues = Append(@, NewCue)]
  <2>1. sequences' = [sequences EXCEPT ![id] = new] /\ id \in DOMAIN sequences
    BY <1>6 DEF Store
  <2>2. /\ Cues(new) = Cues(seq) + 1 /\ Cues(seq) \in Nat
        /\ \A i \in Nat : HasCue(seq, i) => HasCue(new, i) /\ CueAt(new, i) = CueAt(seq, i)
        /\ new.stopOnLast = seq.stopOnLast
        /\ DOMAIN seq.cues \subseteq DOMAIN new.cues
    <3>1. seq \in [cues : Seq(Range(seq.cues)), wrap : BOOLEAN, stopOnLast : BOOLEAN]
      BY <2>1 DEF TypeInv, SequencesInv, AreSequences, IsSequence
    <3>2. new.cues = Append(seq.cues, NewCue) /\ new.stopOnLast = seq.stopOnLast
      BY <3>1
    <3>3. seq.cues \in Seq(Range(seq.cues) \cup {NewCue})
      BY <3>1, SeqMonotonic
    <3>4. /\ Len(Append(seq.cues, NewCue)) = Len(seq.cues) + 1 /\ Len(seq.cues) \in Nat
          /\ \A i \in 1 .. Len(seq.cues) : Append(seq.cues, NewCue)[i] = seq.cues[i]
          /\ DOMAIN seq.cues \subseteq DOMAIN Append(seq.cues, NewCue)
      BY <3>3
    <3> HIDE DEF new, seq
    <3> QED BY <3>2, <3>4 DEF Cues, HasCue, CueAt
  <2> HIDE DEF new
  <2>3. HaveCues'
    BY <2>1, <2>2 DEF HaveCues, SteadyInv
  <2>4. CuesStay'
    BY <2>1, <2>2 DEF CuesStay, SteadyInv
  <2>5. \A x \in DOMAIN sequences :
           /\ x \in DOMAIN sequences' /\ sequences'[x].stopOnLast = sequences[x].stopOnLast
           /\ \A i \in Nat : HasCue(sequences[x], i) =>
                HasCue(sequences'[x], i) /\ CueAt(sequences'[x], i) = CueAt(sequences[x], i)
    BY <2>1, <2>2
  <2> QED BY <1>0, <1>6, <2>3, <2>4, <2>5, SendingSteady DEF Store, Using
<1>7. ASSUME NEW id \in SequenceId, Unstore(id) \/ Delete(id) PROVE FALSE
  BY <1>7 DEF Unstore, Delete, Using, Steady
<1>8. ASSUME NEW id \in SequenceId, Restore(id) PROVE SteadyInv' /\ NoneStarts
  <2>1. /\ DOMAIN sequences' = DOMAIN sequences \cup {id} /\ sequences'[id] = Sequence[id]
        /\ \A x \in DOMAIN sequences : sequences'[x] = sequences[x]
    BY <1>8 DEF Restore, With
  <2>2. HaveCues' /\ CuesStay'
    BY <2>1 DEF SequencesHaveCues, HaveCues, CuesStay, SteadyInv, Steady
  <2> QED BY <1>0, <1>8, <2>1, <2>2, SendingSteady DEF Restore, Using
<1>9. CASE Close
  <2>1. /\ sequences' = <<>> /\ states' = <<>> /\ order' = <<>> /\ live' = {}
        /\ phase' # "nodes" /\ DOMAIN <<>> = {} /\ Range(<<>>) = {}
    BY <1>9, NothingIn DEF Close, Using
  <2>2. /\ HaveCues' /\ CuesStay' /\ AfterAFrame' /\ OrderIsKnown'
        /\ NoneStarts
    BY <2>1 DEF HaveCues, CuesStay, AfterAFrame, OrderIsKnown, NoneStarts, IsActive
  <2>3. SafeCommands'
    BY <1>0, <1>9 DEF Close
  <2>4. AllStand' /\ Owned'
    BY <2>1 DEF AllStand, Stands, IsSilent, Owned, StateOf, InitialState
  <2> QED BY <2>2, <2>3, <2>4 DEF SteadyInv
<1>10. CASE Load
  <2>1. DOMAIN sequences = {}
    BY <1>10 DEF Load
  <2>2. HaveCues' /\ CuesStay'
    BY <1>10 DEF Load, HaveCues, CuesStay, Steady, SequencesHaveCues, SequenceId
  <2> QED BY <1>0, <1>10, <2>1, <2>2, SendingSteady DEF Load, Using
<1> QED BY <1>2, <1>3, <1>4, <1>5, <1>6, <1>7, <1>8, <1>9, <1>10 DEF User

LEMMA NothingIsDropped == TypeInv /\ SteadyInv => ~HandleDropState
<1> SUFFICES ASSUME TypeInv, SteadyInv, HandleDropState PROVE FALSE
  OBVIOUS
<1>1. Receiving("DropState") /\ Received
  BY DEF HandleDropState
<1>2. queue # <<>> /\ queue[1].type = "DropState"
  BY <1>1, ReceivingFacts DEF TypeInv
<1>3. 1 \in 1 .. Len(queue)
  BY <1>2 DEF TypeInv, QueueInv
<1> QED BY <1>2, <1>3 DEF SteadyInv, SafeCommands, IsSafe

\* A step that changes no more of the states than their times and rates.
LEMMA KeepingSteady ==
  ASSUME TypeInv, SteadyInv, phase' # "nodes", SafeCommands',
         UNCHANGED <<sequences, order, live>>, DOMAIN states' = DOMAIN states,
         \A id \in DOMAIN states :
           /\ states'[id].active = states[id].active /\ states'[id].cue = states[id].cue
           /\ states'[id].effects = states[id].effects /\ states'[id].values = states[id].values
  PROVE  SteadyInv' /\ NoneStarts
<1>1. HaveCues' /\ CuesStay' /\ AfterAFrame' /\ OrderIsKnown' /\ NoneStarts
  BY DEF SteadyInv, HaveCues, CuesStay, AfterAFrame, OrderIsKnown, NoneStarts, IsActive
<1>2. ASSUME NEW id
      PROVE  /\ StateOf(id)'.active = StateOf(id).active /\ StateOf(id)'.cue = StateOf(id).cue
             /\ StateOf(id)'.effects = StateOf(id).effects /\ StateOf(id)'.values = StateOf(id).values
  BY DEF StateOf
<1>3. AllStand'
  <2> SUFFICES ASSUME NEW id PROVE Stands(id, StateOf(id), id \in Range(order))'
    BY DEF AllStand
  <2>1. Stands(id, StateOf(id), id \in Range(order))
    BY DEF SteadyInv, AllStand
  <2> QED BY <1>2, <2>1 DEF Stands, PlaysACue, RestsAtFirst, IsSilent
<1>4. Owned'
  BY <1>2 DEF SteadyInv, Owned
<1> QED BY <1>1, <1>3, <1>4 DEF SteadyInv

LEMMA HandleSetRateSteady == TypeInv /\ SteadyInv /\ HandleSetRate => SteadyInv' /\ NoneStarts
<1> SUFFICES ASSUME TypeInv, SteadyInv, HandleSetRate PROVE SteadyInv' /\ NoneStarts
  OBVIOUS
<1>0. QueueInv /\ AreStates(states) /\ SafeCommands
  BY DEF TypeInv, StatesInv, SteadyInv
<1>1. /\ phase = "drain" /\ queue # <<>> /\ Received
      /\ DOMAIN states' = DOMAIN states
      /\ \A id \in DOMAIN states : \E rate \in Rates : states'[id] = [states[id] EXCEPT !.rate = rate]
      /\ UNCHANGED <<phase, sequences, order, live>>
  BY <1>0, HandleSetRateMeans
<1>2. SafeCommands'
  BY <1>0, <1>1, QueueFacts DEF SafeCommands, Received
<1>3. ASSUME NEW id \in DOMAIN states
      PROVE  /\ states'[id].active = states[id].active /\ states'[id].cue = states[id].cue
             /\ states'[id].effects = states[id].effects /\ states'[id].values = states[id].values
  <2>1. PICK rate \in Rates : states'[id] = [states[id] EXCEPT !.rate = rate]
    BY <1>1
  <2>2. IsState(states[id])
    BY <1>0 DEF AreStates
  <2> QED BY <2>1, <2>2, RateFacts
<1> QED BY <1>1, <1>2, <1>3, KeepingSteady

LEMMA ProcessNodesSteady == TypeInv /\ SteadyInv /\ ProcessNodes => SteadyInv' /\ NoneStarts
<1> SUFFICES ASSUME TypeInv, SteadyInv, ProcessNodes PROVE SteadyInv' /\ NoneStarts
  OBVIOUS
<1>0. QueueInv /\ AreSequences(sequences) /\ AreStates(states) /\ ClockInv /\ SafeCommands
  BY DEF TypeInv, StatesInv, SequencesInv, SteadyInv
<1>1. /\ phase' \in {"edit", "stuck"} /\ DOMAIN states' = DOMAIN states
      /\ \A id \in DOMAIN states : states'[id] = Later(states[id])
      /\ UNCHANGED <<sequences, order, live>>
  BY <1>0, ProcessNodesMeans
<1>2. SafeCommands'
  <2>1. /\ RateMessages \in Seq(Message)
        /\ \A i \in 1 .. Len(RateMessages) : IsSafe(RateMessages[i])
    BY <1>0, RateMessagesFacts DEF IsSafe
  <2>2. Enqueue(RateMessages)
    BY DEF ProcessNodes
  <2> QED BY <1>0, <2>1, <2>2, EnqueuedSteady
<1>3. ASSUME NEW id \in DOMAIN states
      PROVE  /\ states'[id].active = states[id].active /\ states'[id].cue = states[id].cue
             /\ states'[id].effects = states[id].effects /\ states'[id].values = states[id].values
  <2>1. IsState(states[id])
    BY <1>0 DEF AreStates
  <2> PICK st : st = states[id]
    OBVIOUS
  <2>2. /\ Later(st).active = st.active /\ Later(st).cue = st.cue
        /\ Later(st).effects = st.effects /\ Later(st).values = st.values
    BY <2>1, LaterFacts
  <2> QED BY <1>1, <2>2
<1> QED BY <1>1, <1>2, <1>3, KeepingSteady

\* One frame of an active sequence: it is left at a cue with exactly its
\* effects; when it stops, that is its first, all that it has written.
LEMMA RunningFacts ==
  ASSUME NEW seq, IsSequence(seq), NEW p, Running(seq, p), NEW id, Own(id, p),
         DOMAIN p.st.effects \subseteq CueAt(seq, p.st.cue).effects
  PROVE  LET q == Run(id, seq, p)
         IN  /\ Own(id, q) /\ HasCue(seq, q.st.cue)
             /\ DOMAIN q.st.effects = CueAt(seq, q.st.cue).effects
             /\ ~q.st.active =>
                  /\ seq.stopOnLast /\ q.st.cue = 0 /\ q.st.goAt = "now"
                  /\ q.st.values \cup Writes(seq, p) \subseteq CueAt(seq, 0).channels
<1> DEFINE a == Advanced(seq, p)
           u == Updated(seq, p)
           cue == CueAt(seq, a.st.cue)
<1>1. /\ IsPlayback(a) /\ HasCue(seq, a.st.cue)
      /\ (a = u /\ a.st.active) \/ Entered(seq, u, a)
      /\ ~a.st.active => Entered(seq, u, a) /\ seq.stopOnLast /\ a.st.cue = 0
  BY SteadyAdvance
<1>2. /\ IsPlayback(u) /\ u.live = p.live /\ u.st.effects = p.st.effects /\ u.st.cue = p.st.cue
  <2>1. IsPlayback(p) /\ IsState(p.st)
    BY DEF Running, IsPlayback
  <2>2. IsPlayback(u) /\ u.st = UpdateTimestamps(p.st) /\ u.live = p.live
    BY <2>1, UpdatedFacts
  <2> QED BY <2>1, <2>2, UpdateTimestampsFacts
<1>3. Run(id, seq, p) = Output(id, cue, a) /\ Writes(seq, p) \subseteq cue.channels
  BY <1>1 DEF Run, Running, Writes, Written
<1>4. Own(id, a) /\ DOMAIN a.st.effects \subseteq cue.effects
  <2>1. CASE a = u
    <3> HIDE DEF u
    <3> QED BY <1>2, <2>1 DEF Own
  <2>2. CASE Entered(seq, u, a)
    <3> HIDE DEF u, a
    <3>1. a.st.effects = <<>> /\ a.live = {}
      BY <1>2, <2>2 DEF Entered, Own
    <3>2. DOMAIN <<>> = {}
      OBVIOUS
    <3> QED BY <3>1, <3>2, NothingIn DEF Own
  <2> QED BY <1>1, <2>1, <2>2
<1> HIDE DEF a, u, cue
<1>5. ~a.st.active =>
        /\ seq.stopOnLast /\ a.st.cue = 0 /\ a.st.goAt = "now" /\ a.st.values = {}
  BY <1>1 DEF Entered
<1> PICK q : q = Output(id, cue, a)
  OBVIOUS
<1>6. /\ q.st.active = a.st.active /\ q.st.cue = a.st.cue /\ q.st.goAt = a.st.goAt
      /\ DOMAIN q.st.effects = DOMAIN a.st.effects \cup cue.effects
      /\ q.st.values \subseteq a.st.values \cup cue.channels
      /\ Own(id, q)
  <2>1. q.st.active = a.st.active /\ q.st.cue = a.st.cue /\ q.st.goAt = a.st.goAt
    BY <1>1, OutputFacts
  <2>2. DOMAIN q.st.effects = DOMAIN a.st.effects \cup cue.effects
    BY <1>1, OutputFacts
  <2>3. q.st.values \subseteq a.st.values \cup cue.channels
    BY <1>1, OutputFacts
  <2>4. Own(id, q)
    BY <1>1, <1>4, OutputFacts
  <2> QED BY <2>1, <2>2, <2>3, <2>4
<1>7. /\ Own(id, q) /\ HasCue(seq, q.st.cue)
      /\ DOMAIN q.st.effects = CueAt(seq, q.st.cue).effects
  BY <1>1, <1>4, <1>6 DEF cue
<1>8. ASSUME ~q.st.active
      PROVE  /\ seq.stopOnLast /\ q.st.cue = 0 /\ q.st.goAt = "now"
             /\ q.st.values \cup Writes(seq, p) \subseteq CueAt(seq, 0).channels
  BY <1>3, <1>5, <1>6, <1>8 DEF cue
<1> QED BY <1>3, <1>7, <1>8

\* What a frame runs is what is in the order.
LEMMA PlayingIsOrdered == SteadyInv => Playing = Range(order) /\ Playing \subseteq DOMAIN states
  BY OrderedStates DEF Playing, SteadyInv, OrderIsKnown

\* One frame of any sequence that is run, active or not.
LEMMA PlayedFacts ==
  ASSUME TypeInv, SteadyInv, NEW id \in Playing
  PROVE  LET p == Playback(id)
             q == Run(id, sequences[id], p)
         IN  /\ Own(id, q) /\ p.st = states[id]
             /\ q.st.active => states[id].active
             /\ q.st.active => PlaysACue(id, q.st)
             /\ ~q.st.active => RestsAtFirst(id, q.st)
             /\ DOMAIN q.st.effects = CueAt(sequences[id], q.st.cue).effects
             /\ ~q.st.active => LastWrites(id, q.st, Writes(sequences[id], p))
<1> PICK seq, p, q : seq = sequences[id] /\ p = Playback(id) /\ q = Run(id, seq, p)
  OBVIOUS
<1>0. AreSequences(sequences) /\ AreStates(states) /\ Owned
  BY DEF TypeInv, StatesInv, SequencesInv, SteadyInv
<1>1. /\ id \in DOMAIN sequences /\ id \in DOMAIN states /\ id \in Range(order)
      /\ IsSequence(seq)
  BY <1>0, PlayingIsOrdered DEF AreSequences, Playing
<1>2. IsPlayback(p) /\ p.st = states[id] /\ Own(id, p)
  BY <1>0, <1>1, PlaybackFacts, PlaybackOwns DEF StateOf
<1>3. CASE states[id].active
  <2>1. PlaysACue(id, states[id])
    BY <1>1, <1>3, OrderedStates DEF Active
  <2>2. Running(seq, p) /\ DOMAIN p.st.effects \subseteq CueAt(seq, p.st.cue).effects
    BY <1>2, <1>3, <2>1 DEF Running, PlaysACue
  <2>3. /\ Own(id, q) /\ HasCue(seq, q.st.cue)
        /\ DOMAIN q.st.effects = CueAt(seq, q.st.cue).effects
        /\ ~q.st.active =>
             /\ seq.stopOnLast /\ q.st.cue = 0 /\ q.st.goAt = "now"
             /\ q.st.values \cup Writes(seq, p) \subseteq CueAt(seq, 0).channels
    BY <1>1, <1>2, <2>2, RunningFacts
  <2> QED BY <1>1, <1>2, <1>3, <2>3 DEF PlaysACue, RestsAtFirst, LastWrites
<1>4. CASE ~states[id].active
  <2>1. q = p
    BY <1>2, <1>4 DEF Run
  <2>2. Writes(seq, p) = {}
    BY <1>2, <1>4 DEF Writes
  <2>3. RestsAtFirst(id, states[id])
    BY <1>1, <1>4, OrderedStates DEF Active
  <2> QED BY <1>2, <1>4, <2>1, <2>2, <2>3 DEF RestsAtFirst, LastWrites
<1> QED BY <1>3, <1>4

LEMMA RunSequencesSteady == TypeInv /\ SteadyInv /\ RunSequences => SteadyInv' /\ NoneStarts
<1> SUFFICES ASSUME TypeInv, SteadyInv, RunSequences PROVE SteadyInv' /\ NoneStarts
  OBVIOUS
<1>0. AreSequences(sequences) /\ AreStates(states) /\ SafeCommands
  BY DEF TypeInv, StatesInv, SequencesInv, SteadyInv
<1> DEFINE R(id) == Run(id, sequences[id], Playback(id))
<1>1. /\ DOMAIN states' = DOMAIN states \cup Playing
      /\ \A id \in Playing : states'[id] = R(id).st
      /\ \A id \in DOMAIN states \ Playing : states'[id] = states[id]
      /\ live' = UNION ({R(id).live : id \in Playing} \cup {{i \in live : i.sequence \notin Playing}})
      /\ UNCHANGED <<queue, sequences, order>>
  BY <1>0, RunSequencesMeans
<1>2. Playing = Range(order) /\ Playing \subseteq DOMAIN states /\ Range(order') = Range(order)
  BY <1>1, PlayingIsOrdered
<1>3. DOMAIN states' = DOMAIN states
  BY <1>1, <1>2
<1>4. ASSUME NEW id \in Playing
      PROVE  /\ StateOf(id)' = states'[id] /\ states'[id] = R(id).st
             /\ R(id).live = Range(states'[id].effects) /\ \A i \in R(id).live : i.sequence = id
             /\ states'[id].active => states[id].active
             /\ states'[id].active => PlaysACue(id, states'[id])
             /\ ~states'[id].active => RestsAtFirst(id, states'[id])
             /\ DOMAIN states'[id].effects = CueAt(sequences[id], states'[id].cue).effects
             /\ ~states'[id].active => LastWrites(id, states'[id], Writes(sequences[id], Playback(id)))
  <2> PICK q : q = Run(id, sequences[id], Playback(id))
    OBVIOUS
  <2>1. /\ Own(id, q)
        /\ q.st.active => states[id].active
        /\ q.st.active => PlaysACue(id, q.st)
        /\ ~q.st.active => RestsAtFirst(id, q.st)
        /\ DOMAIN q.st.effects = CueAt(sequences[id], q.st.cue).effects
        /\ ~q.st.active => LastWrites(id, q.st, Writes(sequences[id], Playback(id)))
    BY PlayedFacts
  <2>2. states'[id] = q.st /\ R(id) = q
    BY <1>1
  <2>3. StateOf(id)' = states'[id]
    BY <1>1 DEF StateOf
  <2> HIDE DEF R
  <2>4. R(id).live = Range(states'[id].effects) /\ \A i \in R(id).live : i.sequence = id
    BY <2>1, <2>2 DEF Own
  <2>5. /\ states'[id].active => states[id].active
        /\ states'[id].active => PlaysACue(id, states'[id])
        /\ ~states'[id].active => RestsAtFirst(id, states'[id])
        /\ DOMAIN states'[id].effects = CueAt(sequences[id], states'[id].cue).effects
        /\ ~states'[id].active => LastWrites(id, states'[id], Writes(sequences[id], Playback(id)))
    BY <2>1, <2>2
  <2> QED BY <2>2, <2>3, <2>4, <2>5
<1> HIDE DEF R
<1>5. \A id : id \notin Playing => StateOf(id)' = StateOf(id)
  BY <1>1, <1>3 DEF StateOf
<1>6. HaveCues' /\ CuesStay' /\ SafeCommands' /\ OrderIsKnown'
  BY <1>0, <1>1, <1>3 DEF SteadyInv, HaveCues, CuesStay, SafeCommands, IsSafe, OrderIsKnown
<1>7. AllStand'
  <2> SUFFICES ASSUME NEW id PROVE Stands(id, StateOf(id), id \in Range(order))'
    BY DEF AllStand
  <2>1. CASE id \in Playing
    BY <1>1, <1>2, <1>4, <2>1 DEF Stands, PlaysACue, RestsAtFirst
  <2>2. CASE id \notin Playing
    <3>1. Stands(id, StateOf(id), id \in Range(order))
      BY DEF SteadyInv, AllStand
    <3> QED BY <1>1, <1>2, <1>5, <2>2, <3>1 DEF Stands, PlaysACue, RestsAtFirst
  <2> QED BY <2>1, <2>2
<1>8. Active' \subseteq Active /\ NoneStarts
  <2>1. \A id \in DOMAIN states : states'[id].active => states[id].active
    BY <1>1, <1>4
  <2> QED BY <1>3, <2>1 DEF Active, NoneStarts, IsActive
<1>9. Owned'
  <2> SUFFICES ASSUME NEW x
               PROVE  {i \in live' : i.sequence = x} = Range(StateOf(x)'.effects)
    BY DEF Owned
  <2>1. CASE x \in Playing
    <3>1. {i \in live' : i.sequence = x} = R(x).live
      BY <1>1, <1>4, <2>1
    <3> QED BY <1>4, <2>1, <3>1
  <2>2. CASE x \notin Playing
    <3>1. \A i : i.sequence = x => (i \in live' <=> i \in live)
      <4>1. \A i : i \in live' <=> (\E id \in Playing : i \in R(id).live)
                                  \/ (i \in live /\ i.sequence \notin Playing)
        BY <1>1
      <4>2. \A id \in Playing : \A i \in R(id).live : i.sequence = id
        BY <1>4
      <4> QED BY <2>2, <4>1, <4>2
    <3>2. {i \in live' : i.sequence = x} = {i \in live : i.sequence = x}
      BY <3>1
    <3> QED BY <1>5, <2>2, <3>2 DEF SteadyInv, Owned
  <2> QED BY <2>1, <2>2
<1>10. AfterAFrame'
  <2>1. \A id \in Active' : DOMAIN states'[id].effects = CueAt(sequences'[id], states'[id].cue).effects
    <3>1. Active' \subseteq Playing
      BY <1>2, <1>8, OrderedStates
    <3> QED BY <1>1, <1>4, <3>1
  <2>2. /\ \A id \in SequenceId \ Playing : written'[id] = {}
        /\ \A id \in SequenceId \cap Playing : written'[id] = Writes(sequences[id], Playback(id))
    BY DEF RunSequences
  <2>3. DOMAIN states' \subseteq SequenceId
    BY <1>0, <1>3 DEF AreStates
  <2>4. ASSUME NEW id \in DOMAIN states' \ Active' PROVE LastWrites(id, states[id], written[id])'
    <3>1. CASE id \in Playing
      <4>1. LastWrites(id, states'[id], written'[id])
        BY <1>4, <2>2, <2>3, <2>4, <3>1 DEF Active
      <4> QED BY <1>1, <1>2, <4>1 DEF LastWrites
    <3>2. CASE id \notin Playing
      BY <2>2, <2>3, <3>2 DEF LastWrites
    <3> QED BY <3>1, <3>2
  <2> QED BY <2>1, <2>4 DEF AfterAFrame
<1> QED BY <1>6, <1>7, <1>8, <1>9, <1>10 DEF SteadyInv

LEMMA InitSteady == Steady /\ Init => SteadyInv
<1> SUFFICES ASSUME Steady, Init PROVE SteadyInv
  OBVIOUS
<1>1. /\ DOMAIN <<>> = {} /\ Range(<<>>) = {} /\ Len(<<>>) = 0
      /\ states = <<>> /\ order = <<>> /\ live = {} /\ queue = <<>>
  BY NothingIn DEF Init
<1>2. HaveCues /\ CuesStay
  BY DEF Init, HaveCues, CuesStay, Steady, SequencesHaveCues, SequenceId
<1>3. SafeCommands /\ OrderIsKnown
  BY <1>1 DEF SafeCommands, OrderIsKnown
<1>4. AllStand /\ Owned
  BY <1>1 DEF AllStand, Stands, IsSilent, Owned, StateOf, InitialState
<1>5. AfterAFrame
  BY DEF Init, AfterAFrame
<1> QED BY <1>2, <1>3, <1>4, <1>5 DEF SteadyInv

LEMMA NextSteady ==
  Steady /\ TypeInv /\ SteadyInv /\ [Next]_vars => SteadyInv' /\ StartsLast
<1> SUFFICES ASSUME Steady, TypeInv, SteadyInv, [Next]_vars PROVE SteadyInv' /\ StartsLast
  OBVIOUS
<1>1. NoneStarts => StartsLast
  BY DEF NoneStarts, StartsLast
<1>2. CASE User
  BY <1>1, <1>2, UserSteady
<1>3. CASE StartFrame
  <2>1. /\ phase' = "drain" /\ DOMAIN states' = DOMAIN states
        /\ UNCHANGED <<queue, sequences, states, order, live>>
    BY <1>3 DEF StartFrame
  <2>2. SafeCommands'
    BY <2>1 DEF SafeCommands, IsSafe, SteadyInv
  <2> QED BY <1>1, <2>1, <2>2, KeepingSteady
<1>4. CASE HandleUnknown
  <2>1. SteadyInv'
    BY <1>4, HandleUnknownSteady
  <2>2. NoneStarts
    <3>1. PICK id : id = Head(queue).id
      OBVIOUS
    <3>2. states' = With(states, id, StateOf(id))
      BY <1>4, <3>1, PlaybackFacts DEF HandleUnknown, Settle, TypeInv, StatesInv
    <3>3. DOMAIN states' = DOMAIN states \cup {id} /\ states'[id] = StateOf(id)
          /\ \A x \in DOMAIN states : x # id => states'[x] = states[x]
      BY <3>2 DEF With
    <3> QED BY <3>3 DEF NoneStarts, IsActive, StateOf, InitialState
  <2> QED BY <1>1, <2>1, <2>2
<1>5. CASE HandleGo
  BY <1>5, HandleGoSteady
<1>6. CASE HandleStop
  BY <1>1, <1>6, HandleStopSteady DEF NoneStarts
<1>7. CASE HandleSetRate
  BY <1>1, <1>7, HandleSetRateSteady
<1>8. CASE HandleDropState
  BY <1>8, NothingIsDropped
<1>9. CASE RunSequences
  BY <1>1, <1>9, RunSequencesSteady
<1>10. CASE ProcessNodes
  BY <1>1, <1>10, ProcessNodesSteady
<1>11. CASE UNCHANGED vars
  <2>1. NoneStarts
    BY <1>11 DEF vars, NoneStarts, IsActive
  <2>2. UNCHANGED <<phase, queue, sequences, states, order, live, written>>
    BY <1>11 DEF vars
  <2>3. HaveCues' /\ CuesStay' /\ SafeCommands' /\ OrderIsKnown' /\ Owned' /\ AfterAFrame'
    BY <2>2 DEF SteadyInv, HaveCues, CuesStay, SafeCommands, IsSafe, OrderIsKnown, Owned, StateOf,
       AfterAFrame, Active, LastWrites
  <2>4. AllStand'
    BY <2>2 DEF SteadyInv, AllStand, Stands, StateOf, PlaysACue, RestsAtFirst
  <2> QED BY <1>1, <2>1, <2>3, <2>4 DEF SteadyInv
<1> QED BY <1>2, <1>3, <1>4, <1>5, <1>6, <1>7, <1>8, <1>9, <1>10, <1>11 DEF Next, Frame, Handle

THEOREM SteadyShows ==
  ASSUME Steady
  PROVE  Spec => []SteadyInv /\ [][StartsLast]_vars
<1>1. Init => TypeInv /\ SteadyInv
  BY InitTypes, InitSteady
<1>2. (TypeInv /\ SteadyInv) /\ [Next]_vars => (TypeInv /\ SteadyInv)' /\ [StartsLast]_vars
  BY NextTypes, NextSteady
<1> QED BY <1>1, <1>2, PTL DEF Spec

\* OrderHoldsTheActive: what is run in a frame is what says it is active, each
\* sequence once, and besides only what stopped by itself, whatever is sent,
\* stored, closed and loaded.
THEOREM OrderAlwaysHoldsTheActive ==
  ASSUME Steady
  PROVE  Spec => []OrderHoldsTheActive
  BY AlwaysTyped, SteadyShows, SteadyInvImplies, PTL

\* EffectsFollowCues: the effect engine runs the effects of the sequences in
\* the order and no others, after a frame exactly those of their cues; of a
\* sequence that stopped by itself those of its first cue.
THEOREM EffectsAlwaysFollowCues ==
  ASSUME Steady
  PROVE  Spec => []EffectsFollowCues
  BY AlwaysTyped, SteadyShows, SteadyInvImplies, PTL

\* StoppedIsSilent: a sequence that was stopped by a command writes nothing in
\* a frame, keeps no values and runs no effects; one that stopped by itself
\* writes in that frame only, and only channels of its first cue.
THEOREM StoppedIsAlwaysSilent ==
  ASSUME Steady
  PROVE  Spec => []StoppedIsSilent
  BY AlwaysTyped, SteadyShows, SteadyInvImplies, PTL

\* OrderFollowsStarts: a sequence that starts becomes the last of the order, so
\* its values win, unless it had stopped by itself: then it keeps its place.
THEOREM OrderAlwaysFollowsStarts ==
  ASSUME Steady
  PROVE  Spec => OrderFollowsStarts
<1>1. StartsLast => \A id \in SequenceId :
                      ~IsActive(id) /\ IsActive(id)' =>
                        order' = IF id \in Lingering THEN order ELSE Append(order, id)
  BY DEF StartsLast
<1> QED BY <1>1, SteadyShows, PTL DEF OrderFollowsStarts

-----------------------------------------------------------------------------
(* Times *)


\* Finite sets of numbers have a greatest one: a smallest set without one
\* would leave one with a greatest when a number is taken out of it.
LEMMA FiniteMaximum ==
  ASSUME NEW S, IsFiniteSet(S), S \subseteq Nat, S # {}
  PROVE  \E m \in S : \A n \in S : m >= n
<1> DEFINE HasMax(U) == \E m \in U : \A n \in U : m >= n
           Bad == {U \in FiniteSubsetsOf(S) : U # {} /\ ~HasMax(U)}
<1>1. ASSUME Bad # {} PROVE FALSE
  <2>1. PICK T \in Bad : \A U \in Bad : ~(<<U, T>> \in StrictSubsetOrdering(S))
    <3>1. Bad \subseteq FiniteSubsetsOf(S)
      OBVIOUS
    <3> HIDE DEF Bad
    <3> QED BY <1>1, <3>1, FS_StrictSubsetOrderingWellFounded, WFMin
  <2>2. T \subseteq Nat /\ T # {} /\ IsFiniteSet(T) /\ T \in SUBSET S
    BY DEF FiniteSubsetsOf
  <2>3. PICK x \in T : TRUE
    BY <2>2
  <2> DEFINE V == T \ {x}
  <2>4. V \in FiniteSubsetsOf(S) /\ <<V, T>> \in StrictSubsetOrdering(S)
    <3>1. V \subseteq T /\ V # T /\ V \in SUBSET S
      BY <2>2
    <3>2. IsFiniteSet(V)
      BY <2>2, <3>1, FS_Subset
    <3> HIDE DEF V
    <3> QED BY <2>2, <3>1, <3>2 DEF FiniteSubsetsOf, StrictSubsetOrdering
  <2>5. V = {} \/ HasMax(V)
    BY <2>1, <2>4
  <2>6. HasMax(T)
    <3>1. CASE V = {}
      BY <2>2, <2>3, <3>1
    <3>2. CASE HasMax(V)
      <4>1. PICK m \in V : \A n \in V : m >= n
        BY <3>2
      <4>2. CASE m >= x
        BY <2>2, <4>1, <4>2
      <4>3. CASE ~(m >= x)
        <5>1. \A n \in T : x >= n
          BY <2>2, <4>1, <4>3
        <5> QED BY <5>1
      <4> QED BY <4>2, <4>3
    <3> QED BY <2>5, <3>1, <3>2
  <2> QED BY <2>6
<1>2. S \in FiniteSubsetsOf(S)
  BY DEF FiniteSubsetsOf
<1> QED BY <1>1, <1>2

\* No rate is faster than the fastest.
LEMMA FastestFacts ==
  FastestRate \in Nat /\ FastestRate >= 1 /\ \A rate \in Rates : rate \in Nat /\ rate <= FastestRate
<1>1. Rates \subseteq Nat /\ Rates # {} /\ IsFiniteSet(Rates)
  BY RateAssumption, FS_AddElement DEF Rates
<1>2. \E m \in Rates : \A n \in Rates : m >= n
  BY <1>1, FiniteMaximum
<1>3. FastestRate \in Rates /\ \A n \in Rates : FastestRate >= n
  BY <1>2 DEF FastestRate, Rates
<1>4. 1 \in Rates
  BY DEF Rates
<1> QED BY <1>1, <1>3, <1>4

-----------------------------------------------------------------------------
(* Ages and timers *)

Ages == 0 .. MaxTime

\* The most that a timer can have counted at an age.
Spent(a) == a * FastestRate

\* d and what the timer counts do not exceed the age, even if the time the
\* timer has not counted yet passes at the fastest rate.
Reached(d, t, a) == Capped(d + t.time + t.lag * FastestRate) <= Spent(a)

LEMMA AgeFacts ==
  /\ 0 \in Ages /\ Spent(0) = 0
  /\ \A a \in Ages :
       LET b == Capped(a + 1)
       IN  /\ Spent(a) \in Nat /\ b \in Ages /\ b >= 1 /\ Spent(b) \in Nat
           /\ Spent(b) >= Spent(a)
           /\ Spent(b) >= Spent(a) + FastestRate \/ Spent(b) >= MaxTime
<1>1. MaxTime \in Nat /\ MaxTime >= 1
  BY MaxTimeAssumption
<1>2. FastestRate \in Nat /\ FastestRate >= 1
  BY FastestFacts
<1>3. \A a \in Ages : Spent(a) \in Nat /\ Spent(a) >= a /\ Spent(a + 1) = Spent(a) + FastestRate
  <2> TAKE a \in Ages
  <2>1. a \in Nat
    BY <1>1 DEF Ages
  <2>2. a * FastestRate \in Nat /\ a * FastestRate >= a /\ (a + 1) * FastestRate = a * FastestRate + FastestRate
    BY <1>2, <2>1
  <2> QED BY <2>2 DEF Spent
<1>4. Spent(0) = 0 /\ 0 \in Ages
  BY <1>1, <1>2 DEF Spent, Ages
<1>5. ASSUME NEW a \in Ages
      PROVE  LET b == Capped(a + 1)
             IN  /\ Spent(a) \in Nat /\ b \in Ages /\ b >= 1 /\ Spent(b) \in Nat
                 /\ Spent(b) >= Spent(a)
                 /\ Spent(b) >= Spent(a) + FastestRate \/ Spent(b) >= MaxTime
  <2>1. CASE a < MaxTime
    <3>1. Capped(a + 1) = a + 1 /\ a + 1 \in Ages /\ a + 1 >= 1
      BY <1>1, <2>1 DEF Capped, Ages
    <3> QED BY <1>2, <1>3, <3>1
  <2>2. CASE a = MaxTime
    <3>1. Capped(a + 1) = a
      BY <1>1, <2>2 DEF Capped
    <3> QED BY <1>1, <1>3, <2>2, <3>1
  <2> QED BY <1>1, <2>1, <2>2 DEF Ages
<1> QED BY <1>4, <1>5

LEMMA ReachedFacts ==
  ASSUME NEW d \in Nat, NEW t \in Timer, NEW a \in Ages, Reached(d, t, a)
  PROVE  /\ \A rate \in Rates : Reached(d, Forward(t, rate), a)
         /\ Reached(d, Aged(t), Capped(a + 1))
         /\ \A x \in Nat : x <= t.time => Capped(d + x) <= Spent(a)
<1>1. MaxTime \in Nat /\ t.time \in Nat /\ t.time <= MaxTime /\ t.lag \in {0, 1}
  BY MaxTimeAssumption DEF Timer
<1>2. PICK f \in Nat : f = FastestRate
  BY FastestFacts
<1>3. PICK s \in Nat : s = Spent(a)
  BY AgeFacts
<1> DEFINE time == t.time
           lag  == t.lag
<1>4. Capped(d + time + lag * f) <= s
  BY <1>2, <1>3 DEF Reached
<1>5. ASSUME NEW rate \in Rates PROVE Reached(d, Forward(t, rate), a)
  <2>1. rate \in Nat /\ rate <= f
    BY <1>2, FastestFacts
  <2> DEFINE new == Capped(time + lag * rate)
  <2>2. Forward(t, rate).time = new /\ Forward(t, rate).lag = 0
    BY DEF Forward
  <2>3. new \in Nat /\ Capped(d + new + 0) <= s
    <3>1. CASE lag = 0
      BY <1>1, <1>4, <2>1, <3>1 DEF Capped
    <3>2. CASE lag = 1
      BY <1>1, <1>4, <2>1, <3>2 DEF Capped
    <3> QED BY <1>1, <3>1, <3>2
  <2>4. 0 * FastestRate = 0
    BY <1>2
  <2> QED BY <1>3, <2>2, <2>3, <2>4 DEF Reached
<1>6. Reached(d, Aged(t), Capped(a + 1))
  <2>1. PICK r \in Nat : r = Spent(Capped(a + 1)) /\ r >= s /\ (r >= s + f \/ r >= MaxTime)
    BY <1>2, <1>3, AgeFacts
  <2>2. Aged(t).time = time /\ Aged(t).lag = 1
    BY DEF Aged, Timer
  <2>3. Capped(d + time + 1 * f) <= r
    <3>1. CASE lag = 0
      BY <1>1, <1>4, <2>1, <3>1 DEF Capped
    <3>2. CASE lag = 1
      BY <1>1, <1>4, <2>1, <3>2 DEF Capped
    <3> QED BY <1>1, <3>1, <3>2
  <2> QED BY <1>2, <2>1, <2>2, <2>3 DEF Reached
<1>7. ASSUME NEW x \in Nat, x <= time PROVE Capped(d + x) <= s
  <2>1. CASE lag = 0
    BY <1>1, <1>4, <1>7, <2>1 DEF Capped
  <2>2. CASE lag = 1
    BY <1>1, <1>4, <1>7, <2>2 DEF Capped
  <2> QED BY <1>1, <2>1, <2>2
<1> QED BY <1>3, <1>5, <1>6, <1>7

\* A timer that starts, at a time that is reached.
LEMMA StartReached ==
  ASSUME NEW d \in Nat, NEW a \in Ages, Capped(d) <= Spent(a)
  PROVE  Reached(d, NewTimer, a)
<1>1. NewTimer.time = 0 /\ NewTimer.lag = 0 /\ 0 * FastestRate = 0 /\ d + 0 + 0 = d
  BY FastestFacts DEF NewTimer
<1> QED BY <1>1 DEF Reached

\* What a timer counts that started at a timestamp, when a frame passes.
LEMMA RestartedLater ==
  ASSUME NEW t \in Timer, NEW at \in Pending, at # Unset, NEW timed \in BOOLEAN
  PROVE  /\ Restarted(t, at, timed) \in Timer
         /\ Restarted(Aged(t), IF at = "now" THEN "before" ELSE at, timed) = Aged(Restarted(t, at, timed))
<1>1. CASE timed
  BY <1>1 DEF Restarted
<1>2. CASE ~timed
  <2>1. Restarted(t, at, timed) \in Timer
    BY TimerFacts
  <2>2. Restarted(Aged(t), IF at = "now" THEN "before" ELSE at, timed) = [lag |-> 1, time |-> 0]
    BY <1>2 DEF Restarted, Pending, Unset
  <2>3. Aged(Restarted(t, at, timed)) = [lag |-> 1, time |-> 0]
    BY <1>2 DEF Restarted, Aged
  <2> QED BY <2>1, <2>2, <2>3
<1> QED BY <1>1, <1>2

-----------------------------------------------------------------------------
(* Playback in time *)

Total(cue, c) == TimeOf(cue.delay, c) + TimeOf(cue.fade, c)

GoTimer(st)     == Restarted(st.sinceGo, st.goAt, st.goTimed)
FinishTimer(st) == Restarted(st.sinceFinished, st.finishedAt, st.finishTimed)

ChannelInTime(cue, st, c, a) ==
  LET channel == st.channels[c]
  IN  /\ channel.is = "Delay"  => Reached(0, channel.spent, a)
      /\ channel.is = "Fading" => Reached(TimeOf(cue.delay, c), channel.spent, a)
      /\ channel.is = "Active" => Capped(Total(cue, c)) <= Spent(a)

\* No timer of a state that plays the cue runs ahead of the age of the cue.
InTime(cue, st, a) ==
  /\ st.goAt # Unset /\ (st.goAt = "now" => a = 0)
  /\ Reached(0, GoTimer(st), a)
  /\ DOMAIN st.channels = cue.channels
  /\ \A c \in cue.channels : ChannelInTime(cue, st, c, a)
  /\ Finished(st) => \A c \in cue.channels : Reached(Total(cue, c), FinishTimer(st), a)

LEMMA TimingFacts ==
  ASSUME NEW cue, IsCue(cue), NEW c \in cue.channels
  PROVE  /\ TimeOf(cue.delay, c) \in Nat /\ TimeOf(cue.fade, c) \in Nat
         /\ Total(cue, c) \in Nat
<1>1. MaxTime \in Nat
  BY MaxTimeAssumption
<1>2. ASSUME NEW timing, timing = NoTiming \/ timing \in [cue.channels -> 0 .. MaxTime]
      PROVE  TimeOf(timing, c) \in Nat
  BY <1>1, <1>2 DEF TimeOf
<1>3. TimeOf(cue.delay, c) \in Nat /\ TimeOf(cue.fade, c) \in Nat
  BY <1>2 DEF IsCue
<1> QED BY <1>3 DEF Total

\* Being in time depends on timestamps, timers and channels only.
LEMMA InTimeSame ==
  ASSUME NEW cue, NEW st, NEW a, InTime(cue, st, a), NEW new,
         new.goAt = st.goAt, new.goTimed = st.goTimed, new.sinceGo = st.sinceGo,
         new.finishedAt = st.finishedAt, new.finishTimed = st.finishTimed,
         new.sinceFinished = st.sinceFinished, new.channels = st.channels
  PROVE  InTime(cue, new, a)
  BY DEF InTime, ChannelInTime, GoTimer, FinishTimer, Finished

LEMMA StateTimers ==
  ASSUME NEW st, IsState(st)
  PROVE  /\ st.sinceGo \in Timer /\ st.sinceFinished \in Timer /\ st.rate \in Rates
         /\ st.goAt \in Pending /\ st.finishedAt \in Pending
         /\ st.goTimed \in BOOLEAN /\ st.finishTimed \in BOOLEAN
         /\ GoTimer(st) \in Timer /\ FinishTimer(st) \in Timer
         /\ \A c \in DOMAIN st.channels : st.channels[c] \in ChannelState
<1>1. /\ st.sinceGo \in Timer /\ st.sinceFinished \in Timer /\ st.rate \in Rates
      /\ st.goAt \in Pending /\ st.finishedAt \in Pending
      /\ st.goTimed \in BOOLEAN /\ st.finishTimed \in BOOLEAN
      /\ \A c \in DOMAIN st.channels : st.channels[c] \in ChannelState
  BY DEF IsState
<1>2. GoTimer(st) \in Timer /\ FinishTimer(st) \in Timer
  BY <1>1, TimerFacts DEF GoTimer, FinishTimer
<1> QED BY <1>1, <1>2

\* Bringing the timers up to date.
LEMMA InTimeUpdated ==
  ASSUME NEW cue, IsCue(cue), NEW st, IsState(st), NEW a \in Ages, InTime(cue, st, a)
  PROVE  LET new == UpdateTimestamps(st)
         IN  /\ InTime(cue, new, a) /\ new.goTimed = TRUE
             /\ \A x \in Nat : x <= new.sinceGo.time => Capped(x) <= Spent(a)
             /\ Finished(new) =>
                  \A c \in cue.channels, x \in Nat : x <= new.sinceFinished.time =>
                    Capped(Total(cue, c) + x) <= Spent(a)
<1> PICK new : new = UpdateTimestamps(st)
  OBVIOUS
<1>1. /\ new.goAt = st.goAt /\ st.goAt # Unset /\ new.goTimed = TRUE
      /\ new.sinceGo = Forward(GoTimer(st), st.rate)
      /\ new.finishedAt = st.finishedAt /\ new.finishTimed = Finished(st)
      /\ Finished(st) => new.sinceFinished = Forward(FinishTimer(st), st.rate)
      /\ new.channels = st.channels
  BY UpdateTimestampsFacts DEF InTime, GoTimer, FinishTimer
<1>2. GoTimer(st) \in Timer /\ FinishTimer(st) \in Timer /\ st.rate \in Rates
  BY StateTimers
<1>3. new.sinceGo \in Timer /\ (Finished(st) => new.sinceFinished \in Timer)
  BY <1>1, <1>2, TimerFacts
<1>4. Reached(0, new.sinceGo, a)
  <2>1. Reached(0, GoTimer(st), a) /\ 0 \in Nat
    BY DEF InTime
  <2>2. Reached(0, Forward(GoTimer(st), st.rate), a)
    BY <1>2, <2>1, ReachedFacts
  <2> QED BY <1>1, <2>2
<1>5. Finished(st) => \A c \in cue.channels : Reached(Total(cue, c), new.sinceFinished, a)
  <2> SUFFICES ASSUME Finished(st), NEW c \in cue.channels
               PROVE  Reached(Total(cue, c), new.sinceFinished, a)
    OBVIOUS
  <2>1. Reached(Total(cue, c), FinishTimer(st), a) /\ Total(cue, c) \in Nat
    BY TimingFacts DEF InTime
  <2>2. Reached(Total(cue, c), Forward(FinishTimer(st), st.rate), a)
    BY <1>2, <2>1, ReachedFacts
  <2> QED BY <1>1, <2>2
<1>6. GoTimer(new) = new.sinceGo /\ (Finished(st) => FinishTimer(new) = new.sinceFinished)
      /\ Finished(new) = Finished(st)
  BY <1>1 DEF GoTimer, FinishTimer, Restarted, Finished
<1>7. InTime(cue, new, a)
  BY <1>1, <1>4, <1>5, <1>6 DEF InTime, ChannelInTime
<1>8. \A x \in Nat : x <= new.sinceGo.time => Capped(x) <= Spent(a)
  <2>1. \A x \in Nat : x <= new.sinceGo.time => Capped(0 + x) <= Spent(a)
    BY <1>3, <1>4, ReachedFacts
  <2> QED BY <2>1
<1>9. Finished(new) =>
        \A c \in cue.channels, x \in Nat : x <= new.sinceFinished.time =>
          Capped(Total(cue, c) + x) <= Spent(a)
  <2> SUFFICES ASSUME Finished(new), NEW c \in cue.channels, NEW x \in Nat, x <= new.sinceFinished.time
               PROVE  Capped(Total(cue, c) + x) <= Spent(a)
    OBVIOUS
  <2>1. Reached(Total(cue, c), new.sinceFinished, a) /\ Total(cue, c) \in Nat
    BY <1>5, <1>6, TimingFacts
  <2> QED BY <1>3, <1>6, <2>1, ReachedFacts
<1> QED BY <1>1, <1>7, <1>8, <1>9

\* Entering a cue starts everything over.
LEMMA InTimeEntered ==
  ASSUME NEW seq, IsSequence(seq), NEW p, NEW q, Entered(seq, p, q), HasCue(seq, q.st.cue)
  PROVE  InTime(CueAt(seq, q.st.cue), q.st, 0)
<1> DEFINE cue == CueAt(seq, q.st.cue)
           st  == q.st
<1>1. /\ st.goAt = "now" /\ st.goTimed = FALSE /\ st.finishedAt = Unset
      /\ st.channels = [c \in cue.channels |-> [is |-> InitialChannelState(cue), spent |-> NewTimer]]
      /\ IsState(st)
  BY DEF Entered, IsPlayback
<1>2. IsCue(cue)
  BY <1>1, CueFacts DEF IsState
<1> HIDE DEF cue, st
<1>3. 0 \in Ages /\ Spent(0) = 0 /\ Capped(0) <= Spent(0) /\ 0 \in Nat
  BY AgeFacts, MaxTimeAssumption DEF Capped
<1>4. Reached(0, NewTimer, 0)
  BY <1>3, StartReached
<1>5. GoTimer(st) = NewTimer
  BY <1>1 DEF GoTimer, Restarted, NewTimer
<1>6. ASSUME NEW c \in cue.channels PROVE ChannelInTime(cue, st, c, 0)
  <2>1. st.channels[c].is = InitialChannelState(cue) /\ st.channels[c].spent = NewTimer
    BY <1>1, <1>6
  <2>2. InitialChannelState(cue) = "Fading" => TimeOf(cue.delay, c) = 0
    BY DEF InitialChannelState, TimeOf
  <2>3. InitialChannelState(cue) = "Active" => Total(cue, c) = 0
    BY DEF InitialChannelState, TimeOf, Total
  <2> QED BY <1>3, <1>4, <2>1, <2>2, <2>3 DEF ChannelInTime
<1>7. st.goAt # Unset /\ ~Finished(st) /\ DOMAIN st.channels = cue.channels
  BY <1>1 DEF Finished, Unset
<1>8. InTime(cue, st, 0)
  BY <1>4, <1>5, <1>6, <1>7 DEF InTime
<1> QED BY <1>8 DEF cue, st

\* One frame of the channels, and the end of the cue.
LEMMA InTimeProgress ==
  ASSUME NEW cue, IsCue(cue), NEW st, IsState(st), NEW a \in Ages, InTime(cue, st, a)
  PROVE  InTime(cue, UpdateState(cue, st), a)
<1> PICK new : new = UpdateState(cue, st)
  OBVIOUS
<1>1. CASE Finished(st)
  BY <1>1, UpdateStateFacts
<1>2. CASE ~Finished(st)
  <2>1. /\ new.goAt = st.goAt /\ new.goTimed = st.goTimed /\ new.sinceGo = st.sinceGo
        /\ new.finishedAt = (IF IsDone(st) THEN "now" ELSE Unset) /\ new.finishTimed = FALSE
        /\ new.channels = ChannelsOf(cue, st)
    BY <1>2, UpdateStateFacts
  <2>2. DOMAIN st.channels = cue.channels /\ DOMAIN new.channels = cue.channels
    BY <2>1 DEF InTime, ChannelsOf
  <2>3. GoTimer(new) = GoTimer(st)
    BY <2>1 DEF GoTimer
  <2>4. ASSUME NEW c \in cue.channels PROVE ChannelInTime(cue, new, c, a)
    <3> PICK ch, d, f : ch = st.channels[c] /\ d = TimeOf(cue.delay, c) /\ f = TimeOf(cue.fade, c)
      OBVIOUS
    <3>1. d \in Nat /\ f \in Nat /\ Total(cue, c) = d + f
      BY TimingFacts DEF Total
    <3>2. ch \in ChannelState /\ st.rate \in Rates /\ ch.spent \in Timer
      BY <2>2, StateTimers DEF ChannelState
    <3> PICK spent : spent = Forward(ch.spent, st.rate)
      OBVIOUS
    <3>3. spent \in Timer
      BY <3>2, TimerFacts
    <3>4. ChannelInTime(cue, st, c, a)
      BY DEF InTime
    <3>5. new.channels[c] = Progressed(ch, d, f, st.rate)
      BY <2>1, <2>2 DEF ChannelsOf
    <3>6. CASE ch.is = "Delay"
      <4>1. Reached(0, spent, a)
        BY <3>2, <3>4, <3>6, ReachedFacts DEF ChannelInTime
      <4>2. CASE spent.time >= d
        <5>1. new.channels[c].is = "Fading" /\ new.channels[c].spent = NewTimer
          BY <3>5, <3>6, <4>2 DEF Progressed
        <5>2. d <= spent.time
          BY <3>1, <3>3, <4>2 DEF Timer
        <5>3. Capped(0 + d) <= Spent(a)
          BY <3>1, <3>3, <4>1, <5>2, ReachedFacts
        <5>4. Reached(d, NewTimer, a)
          BY <3>1, <5>3, StartReached
        <5> QED BY <5>1, <5>4 DEF ChannelInTime
      <4>3. CASE ~(spent.time >= d)
        <5>1. new.channels[c].is = "Delay" /\ new.channels[c].spent = spent
          BY <3>2, <3>5, <3>6, <4>3 DEF Progressed, ChannelState
        <5> QED BY <4>1, <5>1 DEF ChannelInTime
      <4> QED BY <4>2, <4>3
    <3>7. CASE ch.is = "Fading"
      <4>1. Reached(d, spent, a)
        BY <3>1, <3>2, <3>4, <3>7, ReachedFacts DEF ChannelInTime
      <4>2. CASE spent.time >= f
        <5>1. new.channels[c].is = "Active"
          BY <3>5, <3>7, <4>2 DEF Progressed
        <5>2. f <= spent.time
          BY <3>1, <3>3, <4>2 DEF Timer
        <5>3. Capped(d + f) <= Spent(a)
          BY <3>1, <3>3, <4>1, <5>2, ReachedFacts
        <5> QED BY <3>1, <5>1, <5>3 DEF ChannelInTime
      <4>3. CASE ~(spent.time >= f)
        <5>1. new.channels[c].is = "Fading" /\ new.channels[c].spent = spent
          BY <3>2, <3>5, <3>7, <4>3 DEF Progressed, ChannelState
        <5> QED BY <4>1, <5>1 DEF ChannelInTime
      <4> QED BY <4>2, <4>3
    <3>8. CASE ch.is = "Active"
      <4>1. new.channels[c] = ch
        BY <3>5, <3>8 DEF Progressed
      <4> QED BY <3>4, <4>1 DEF ChannelInTime
    <3> QED BY <3>2, <3>6, <3>7, <3>8 DEF ChannelState
  <2>5. Finished(new) => \A c \in cue.channels : Reached(Total(cue, c), FinishTimer(new), a)
    <3> SUFFICES ASSUME Finished(new), NEW c \in cue.channels
                 PROVE  Reached(Total(cue, c), FinishTimer(new), a)
      OBVIOUS
    <3>1. IsDone(st) /\ new.finishedAt = "now"
      BY <2>1 DEF Finished
    <3>2. FinishTimer(new) = NewTimer
      BY <2>1, <3>1 DEF FinishTimer, Restarted, NewTimer
    <3>3. Capped(Total(cue, c)) <= Spent(a)
      BY <2>2, <3>1 DEF IsDone, InTime, ChannelInTime
    <3> QED BY <3>2, <3>3, TimingFacts, StartReached
  <2>6. InTime(cue, new, a)
    BY <2>1, <2>2, <2>3, <2>4, <2>5 DEF InTime
  <2> QED BY <2>6
<1> QED BY <1>1, <1>2

\* Running a cue.
LEMMA InTimeOutput ==
  ASSUME NEW p, IsPlayback(p), NEW id, NEW cue, IsCue(cue), NEW a \in Ages, InTime(cue, p.st, a)
  PROVE  InTime(cue, Output(id, cue, p).st, a)
<1> PICK old, st, new : old = p.st /\ st = UpdateState(cue, p.st) /\ new = Output(id, cue, p).st
  OBVIOUS
<1>1. IsState(old) /\ st = UpdateState(cue, old)
  BY DEF IsPlayback
<1>2. InTime(cue, st, a)
  BY <1>1, InTimeProgress
<1>3. st.goAt = old.goAt /\ st.goTimed = old.goTimed /\ st.sinceGo = old.sinceGo
  <2>1. st = IF Finished(old) THEN old
             ELSE [old EXCEPT !.finishedAt = IF IsDone(old) THEN "now" ELSE Unset,
                              !.finishTimed = FALSE, !.channels = ChannelsOf(cue, old)]
    BY <1>1 DEF UpdateState, ChannelsOf
  <2> QED BY <1>1, <2>1 DEF IsState
<1>4. /\ new.goAt = old.goAt /\ new.goTimed = old.goTimed /\ new.sinceGo = old.sinceGo
      /\ new.finishedAt = st.finishedAt /\ new.finishTimed = st.finishTimed
      /\ new.sinceFinished = st.sinceFinished /\ new.channels = st.channels
  BY OutputFacts
<1> QED BY <1>2, <1>3, <1>4, InTimeSame

\* A frame passes.
LEMMA InTimeLater ==
  ASSUME NEW cue, IsCue(cue), NEW st, IsState(st), NEW a \in Ages, InTime(cue, st, a)
  PROVE  InTime(cue, Later(st), Capped(a + 1))
<1> PICK new, b : new = Later(st) /\ b = Capped(a + 1)
  OBVIOUS
<1>1. /\ new.goAt = (IF st.goAt = "now" THEN "before" ELSE st.goAt)
      /\ new.finishedAt = (IF st.finishedAt = "now" THEN "before" ELSE st.finishedAt)
      /\ new.goTimed = st.goTimed /\ new.sinceGo = Aged(st.sinceGo)
      /\ new.finishTimed = st.finishTimed /\ new.sinceFinished = Aged(st.sinceFinished)
      /\ new.channels = [c \in DOMAIN st.channels |-> [st.channels[c] EXCEPT !.spent = Aged(@)]]
  BY LaterFacts
<1>2. /\ st.goAt # Unset /\ DOMAIN st.channels = cue.channels /\ Reached(0, GoTimer(st), a)
      /\ \A c \in cue.channels : ChannelInTime(cue, st, c, a)
      /\ Finished(st) => \A c \in cue.channels : Reached(Total(cue, c), FinishTimer(st), a)
  BY DEF InTime
<1>3. Spent(b) >= Spent(a) /\ Spent(a) \in Nat /\ Spent(b) \in Nat
  BY AgeFacts
<1>4. new.goAt # Unset /\ new.goAt # "now"
  BY <1>1, <1>2, StateTimers DEF Unset
<1>5. Reached(0, GoTimer(new), b)
  <2>1. GoTimer(new) = Aged(GoTimer(st))
    BY <1>1, <1>2, StateTimers, RestartedLater DEF GoTimer
  <2>2. GoTimer(st) \in Timer /\ 0 \in Nat
    BY StateTimers
  <2>3. Reached(0, Aged(GoTimer(st)), b)
    BY <1>2, <2>2, ReachedFacts
  <2> QED BY <2>1, <2>3
<1>6. ASSUME NEW c \in cue.channels PROVE ChannelInTime(cue, new, c, b)
  <2> PICK ch : ch = st.channels[c]
    OBVIOUS
  <2>1. ch \in ChannelState /\ ch.spent \in Timer
    BY <1>2, StateTimers DEF ChannelState
  <2>2. new.channels[c].is = ch.is /\ new.channels[c].spent = Aged(ch.spent)
    <3>1. new.channels[c] = [ch EXCEPT !.spent = Aged(ch.spent)]
      BY <1>1, <1>2
    <3> QED BY <2>1, <3>1 DEF ChannelState
  <2>3. ChannelInTime(cue, st, c, a)
    BY <1>2
  <2>4. TimeOf(cue.delay, c) \in Nat /\ Total(cue, c) \in Nat /\ 0 \in Nat
    BY TimingFacts
  <2>5. ch.is = "Delay" => Reached(0, Aged(ch.spent), b)
    BY <2>1, <2>3, <2>4, ReachedFacts DEF ChannelInTime
  <2>6. ch.is = "Fading" => Reached(TimeOf(cue.delay, c), Aged(ch.spent), b)
    BY <2>1, <2>3, <2>4, ReachedFacts DEF ChannelInTime
  <2>7. ch.is = "Active" => Capped(Total(cue, c)) <= Spent(b)
    <3>1. Capped(Total(cue, c)) \in Nat
      BY <2>4, MaxTimeAssumption DEF Capped
    <3> QED BY <1>3, <2>3, <3>1 DEF ChannelInTime
  <2> QED BY <2>2, <2>5, <2>6, <2>7 DEF ChannelInTime
<1>7. Finished(new) => \A c \in cue.channels : Reached(Total(cue, c), FinishTimer(new), b)
  <2> SUFFICES ASSUME Finished(new), NEW c \in cue.channels
               PROVE  Reached(Total(cue, c), FinishTimer(new), b)
    OBVIOUS
  <2>1. Finished(st) /\ st.finishedAt # Unset
    BY <1>1 DEF Finished, Unset
  <2>2. FinishTimer(new) = Aged(FinishTimer(st))
    BY <1>1, <2>1, StateTimers, RestartedLater DEF FinishTimer
  <2>3. FinishTimer(st) \in Timer /\ Total(cue, c) \in Nat /\ Reached(Total(cue, c), FinishTimer(st), a)
    BY <1>2, <2>1, StateTimers, TimingFacts
  <2>4. Reached(Total(cue, c), Aged(FinishTimer(st)), b)
    BY <2>3, ReachedFacts
  <2> QED BY <2>2, <2>4
<1>8. DOMAIN new.channels = cue.channels
  BY <1>1, <1>2
<1>9. InTime(cue, new, b)
  BY <1>4, <1>5, <1>6, <1>7, <1>8 DEF InTime
<1> QED BY <1>9

\* A cue that comes by itself writes from its first frame on.
Undelayed(cue) == cue.trigger # "Go" => cue.delay = NoTiming

\* Why a sequence may go on to a cue by itself.
MayFollow(prev, next, a) ==
  \/ next.trigger = "Time" /\ Capped(next.after) <= Spent(a)
  \/ next.trigger = "Follow" /\ \A c \in prev.channels : Capped(Total(prev, c) + next.after) <= Spent(a)

\* One frame of a sequence that stays active.
LEMMA RunInTime ==
  ASSUME NEW seq, IsSequence(seq), NEW p, Running(seq, p), NEW id, Run(id, seq, p).st.active,
         NEW a \in Ages, InTime(CueAt(seq, p.st.cue), p.st, a),
         \A i \in Nat : HasCue(seq, i) => Undelayed(CueAt(seq, i))
  PROVE  LET q == Run(id, seq, p)
             b == IF q.st.goAt = "now" THEN 0 ELSE a
             cue == CueAt(seq, q.st.cue)
         IN  /\ InTime(cue, q.st, b)
             /\ \A c \in Writes(seq, p) : TimeOf(cue.delay, c) <= Spent(b)
             /\ q.st.goAt = "now" /\ ~q.st.goTimed => MayFollow(CueAt(seq, p.st.cue), cue, a)
<1> PICK u, r, q : u = Updated(seq, p) /\ r = Advanced(seq, p) /\ q = Run(id, seq, p)
  OBVIOUS
<1> PICK old, cue : old = CueAt(seq, p.st.cue) /\ cue = CueAt(seq, r.st.cue)
  OBVIOUS
<1>1. /\ Running(seq, r)
      /\ r = u \/ (Entered(seq, u, r) /\ ShouldGo(cue, u.st))
  <2>1. /\ IsPlayback(r) /\ HasCue(seq, r.st.cue)
        /\ r.st.active => r = u \/ (Entered(seq, u, r) /\ ShouldGo(cue, u.st))
    BY SteadyAdvance
  <2>2. q = Output(id, cue, r)
    BY <2>1 DEF Run, Running
  <2>3. q.st.active = r.st.active
    BY <2>1, <2>2, OutputFacts
  <2> QED BY <2>1, <2>3 DEF Running
<1>2. /\ IsPlayback(p) /\ IsState(p.st) /\ p.st.active /\ HasCue(seq, p.st.cue) /\ p.st.cue \in Nat
      /\ IsPlayback(r) /\ IsState(r.st) /\ r.st.active /\ HasCue(seq, r.st.cue) /\ r.st.cue \in Nat
  BY <1>1 DEF Running, IsPlayback, IsState
<1>3. IsCue(old) /\ IsCue(cue) /\ Undelayed(cue)
  BY <1>2, CueFacts
<1>4. u.st = UpdateTimestamps(p.st) /\ u.st.cue = p.st.cue /\ IsState(u.st)
  <2>1. u.st = UpdateTimestamps(p.st)
    BY <1>2, UpdatedFacts
  <2> QED BY <1>2, <2>1, UpdateTimestampsFacts
<1>5. /\ InTime(old, u.st, a) /\ u.st.goTimed = TRUE
      /\ \A x \in Nat : x <= u.st.sinceGo.time => Capped(x) <= Spent(a)
      /\ Finished(u.st) =>
           \A c \in old.channels, x \in Nat : x <= u.st.sinceFinished.time =>
             Capped(Total(old, c) + x) <= Spent(a)
  BY <1>2, <1>3, <1>4, InTimeUpdated
<1>6. q = Output(id, cue, r) /\ Writes(seq, p) = Written(cue, r.st)
  BY <1>2 DEF Run, Writes
<1>7. /\ q.st.cue = r.st.cue /\ q.st.goAt = r.st.goAt /\ q.st.goTimed = r.st.goTimed
  BY <1>2, <1>6, OutputFacts
<1>8. ASSUME NEW b \in Ages, InTime(cue, r.st, b) PROVE InTime(cue, q.st, b)
  BY <1>2, <1>3, <1>6, <1>8, InTimeOutput
<1>9. 0 \in Ages /\ Spent(0) = 0 /\ Spent(a) \in Nat
  BY AgeFacts
<1>10. CASE r = u
  <2>1. cue = old /\ InTime(cue, r.st, a)
    BY <1>4, <1>5, <1>10
  <2>2. InTime(cue, q.st, a) /\ (q.st.goAt = "now" => a = 0) /\ q.st.goTimed = TRUE
    BY <1>5, <1>7, <1>8, <1>10, <2>1 DEF InTime
  <2>3. ASSUME NEW c \in Writes(seq, p) PROVE TimeOf(cue.delay, c) <= Spent(a)
    <3>1. c \in cue.channels /\ TimeOf(cue.delay, c) <= r.st.sinceGo.time
      BY <1>6 DEF Written
    <3>2. TimeOf(cue.delay, c) \in Nat
      BY <1>3, <3>1, TimingFacts
    <3>3. Capped(TimeOf(cue.delay, c)) <= Spent(a)
      BY <1>5, <1>10, <3>1, <3>2
    <3>4. r.st.sinceGo.time \in 0 .. MaxTime /\ MaxTime \in Nat
      BY <1>2, StateTimers, MaxTimeAssumption DEF Timer
    <3>5. Capped(TimeOf(cue.delay, c)) = TimeOf(cue.delay, c)
      BY <3>1, <3>2, <3>4 DEF Capped
    <3> QED BY <3>3, <3>5
  <2> QED BY <1>7, <2>2, <2>3
<1>11. CASE Entered(seq, u, r) /\ ShouldGo(cue, u.st)
  <2>1. InTime(cue, q.st, 0)
    BY <1>2, <1>8, <1>9, <1>11, InTimeEntered
  <2>2. q.st.goAt = "now"
    BY <1>7, <1>11 DEF Entered
  <2>3. cue.trigger # "Go"
    BY <1>11 DEF ShouldGo
  <2>4. \A c : TimeOf(cue.delay, c) = 0
    BY <1>3, <2>3 DEF Undelayed, TimeOf
  <2>5. cue.after \in Nat
    BY <1>3, MaxTimeAssumption DEF IsCue
  <2>6. MayFollow(old, cue, a)
    <3>1. CASE cue.trigger = "Time" /\ u.st.sinceGo.time >= cue.after
      <4>1. cue.after <= u.st.sinceGo.time
        BY <1>4, <2>5, <3>1, StateTimers DEF Timer
      <4> QED BY <1>5, <2>5, <3>1, <4>1 DEF MayFollow
    <3>2. CASE cue.trigger = "Follow" /\ Finished(u.st) /\ u.st.sinceFinished.time >= cue.after
      <4>1. cue.after <= u.st.sinceFinished.time
        BY <1>4, <2>5, <3>2, StateTimers DEF Timer
      <4> QED BY <1>5, <2>5, <3>2, <4>1 DEF MayFollow
    <3> QED BY <1>11, <3>1, <3>2 DEF ShouldGo
  <2> QED BY <1>7, <1>9, <2>1, <2>2, <2>4, <2>6
<1> QED BY <1>1, <1>10, <1>11

-----------------------------------------------------------------------------
(* The times of a show *)

\* The cues that a sequence may ever have.
AllCues == {NewCue} \cup UNION {Range(Sequence[id].cues) : id \in SequenceId}

\* Shows whose cues can be timed: what comes by itself has no delays, and no
\* Follow cue comes later than the timers count.
Timely ==
  /\ Steady
  /\ \A cue \in AllCues : Undelayed(cue)
  /\ \A prev, next \in AllCues : next.trigger = "Follow" =>
       \A c \in prev.channels : Total(prev, c) + next.after <= MaxTime

IsKnown(seq) == \A i \in Nat : HasCue(seq, i) => CueAt(seq, i) \in AllCues

CuesAreKnown == \A id \in DOMAIN sequences : IsKnown(sequences[id])
ActiveInTime ==
  \A id \in Active : InTime(CueAt(sequences[id], states[id].cue), states[id], age[id])

TimingInv == CuesAreKnown /\ ActiveInTime /\ DelaysAreKept

LEMMA KnownSequences == \A id \in SequenceId : IsKnown(Sequence[id])
<1> SUFFICES ASSUME NEW id \in SequenceId, NEW i \in Nat, HasCue(Sequence[id], i)
             PROVE  CueAt(Sequence[id], i) \in AllCues
  BY DEF IsKnown
<1>1. i + 1 \in DOMAIN Sequence[id].cues
  BY SequenceAssumption, CueFacts
<1> QED BY <1>1 DEF CueAt, AllCues, Range

\* A cue that is known has times that a timer reaches.
LEMMA KnownAreCues == \A cue \in AllCues : IsCue(cue)
<1> SUFFICES ASSUME NEW cue \in AllCues PROVE IsCue(cue)
  OBVIOUS
<1>1. CASE cue = NewCue
  BY <1>1, UserAssumption
<1>2. ASSUME NEW id \in SequenceId, cue \in Range(Sequence[id].cues) PROVE IsCue(cue)
  BY <1>2, SequenceAssumption DEF IsSequence
<1> QED BY <1>1, <1>2 DEF AllCues

\* A step that keeps the cues that are played and touches no timer.
LEMMA KeepingInTime ==
  ASSUME TypeInv, SteadyInv, ActiveInTime, UNCHANGED <<states, age>>,
         \A id \in DOMAIN sequences : \A i \in Nat :
           HasCue(sequences[id], i) => CueAt(sequences'[id], i) = CueAt(sequences[id], i)
  PROVE  ActiveInTime'
<1> SUFFICES ASSUME NEW id \in Active
             PROVE  InTime(CueAt(sequences'[id], states[id].cue), states[id], age[id])
  BY DEF ActiveInTime, Active
<1>1. PlaysACue(id, states[id]) /\ states[id].cue \in Nat
  BY OrderedStates DEF Active, TypeInv, StatesInv, AreStates, IsState
<1>2. CueAt(sequences'[id], states[id].cue) = CueAt(sequences[id], states[id].cue)
  BY <1>1 DEF PlaysACue
<1> QED BY <1>2 DEF ActiveInTime

LEMMA UserInTime ==
  Timely /\ TypeInv /\ SteadyInv /\ TimingInv /\ User => TimingInv'
<1> SUFFICES ASSUME Timely, TypeInv, SteadyInv, TimingInv, User PROVE TimingInv'
  OBVIOUS
<1>1. UNCHANGED age /\ DelaysAreKept'
  <2>1. \E op : Using(op)
    BY DEF User, Send, SendGoTo, Toggle, SetPort, Store, Unstore, Delete, Restore, Close, Load
  <2>2. UNCHANGED age /\ phase = "edit"
    BY <2>1 DEF Using
  <2>3. phase' \in {"edit", "stuck"}
    BY <2>2 DEF User, Send, SendGoTo, Toggle, SetPort, Store, Unstore, Delete, Restore, Close, Load, Enqueue
  <2> QED BY <2>2, <2>3 DEF DelaysAreKept
<1>2. CASE UNCHANGED <<sequences, states>>
  <2>1. CuesAreKnown'
    BY <1>2 DEF TimingInv, CuesAreKnown
  <2> QED BY <1>1, <1>2, <2>1, KeepingInTime DEF TimingInv
<1>3. ASSUME NEW id \in SequenceId, Store(id) PROVE TimingInv'
  <2> DEFINE seq == sequences[id]
             new == [seq EXCEPT !.cues = Append(@, NewCue)]
  <2>1. sequences' = [sequences EXCEPT ![id] = new] /\ id \in DOMAIN sequences /\ UNCHANGED states
    BY <1>3 DEF Store
  <2>2. /\ \A i \in Nat : HasCue(seq, i) => CueAt(new, i) = CueAt(seq, i)
        /\ \A i \in Nat : HasCue(new, i) /\ ~HasCue(seq, i) => CueAt(new, i) = NewCue
    <3>1. seq \in [cues : Seq(Range(seq.cues)), wrap : BOOLEAN, stopOnLast : BOOLEAN]
      BY <2>1 DEF TypeInv, SequencesInv, AreSequences, IsSequence
    <3>2. new.cues = Append(seq.cues, NewCue)
      BY <3>1
    <3>3. seq.cues \in Seq(Range(seq.cues) \cup {NewCue})
      BY <3>1, SeqMonotonic
    <3>4. /\ Len(Append(seq.cues, NewCue)) = Len(seq.cues) + 1 /\ Len(seq.cues) \in Nat
          /\ \A i \in 1 .. Len(seq.cues) : Append(seq.cues, NewCue)[i] = seq.cues[i]
          /\ Append(seq.cues, NewCue)[Len(seq.cues) + 1] = NewCue
      BY <3>3
    <3> HIDE DEF new, seq
    <3> QED BY <3>2, <3>4 DEF Cues, HasCue, CueAt
  <2> HIDE DEF new
  <2>3. NewCue \in AllCues
    BY DEF AllCues
  <2>4. CuesAreKnown'
    BY <2>1, <2>2, <2>3 DEF TimingInv, CuesAreKnown, IsKnown
  <2>5. \A x \in DOMAIN sequences : \A i \in Nat :
          HasCue(sequences[x], i) => CueAt(sequences'[x], i) = CueAt(sequences[x], i)
    BY <2>1, <2>2
  <2> QED BY <1>1, <2>1, <2>4, <2>5, KeepingInTime DEF TimingInv
<1>4. ASSUME NEW id \in SequenceId, Unstore(id) \/ Delete(id) PROVE FALSE
  BY <1>4 DEF Unstore, Delete, Using, Timely, Steady
<1>5. ASSUME NEW id \in SequenceId, Restore(id) PROVE TimingInv'
  <2>1. /\ DOMAIN sequences' = DOMAIN sequences \cup {id} /\ sequences'[id] = Sequence[id]
        /\ \A x \in DOMAIN sequences : sequences'[x] = sequences[x]
        /\ UNCHANGED states
    BY <1>5 DEF Restore, With
  <2>2. CuesAreKnown'
    BY <2>1, KnownSequences DEF TimingInv, CuesAreKnown
  <2> QED BY <1>1, <2>1, <2>2, KeepingInTime DEF TimingInv
<1>6. CASE Close
  <2>1. DOMAIN <<>> = {} /\ sequences' = <<>> /\ states' = <<>>
    BY <1>6 DEF Close
  <2> QED BY <1>1, <2>1 DEF TimingInv, CuesAreKnown, ActiveInTime, Active
<1>7. CASE Load
  <2>1. states = <<>> /\ UNCHANGED states /\ sequences' = Sequence /\ DOMAIN <<>> = {}
    BY <1>7 DEF Load
  <2>2. CuesAreKnown'
    BY <2>1, KnownSequences DEF CuesAreKnown, SequenceId
  <2> QED BY <1>1, <2>1, <2>2 DEF TimingInv, ActiveInTime, Active
<1>8. ASSUME NEW id \in SequenceId,
             \/ \E op \in {"GoForward", "GoBackward", "Stop"} : Send(op, id)
             \/ \E cue \in DOMAIN Sequence[id].cues : SendGoTo(id, cue)
             \/ Toggle(id)
             \/ \E rate \in Rate : SetPort(id, rate)
      PROVE  UNCHANGED <<sequences, states>>
  BY <1>8 DEF Send, SendGoTo, Toggle, SetPort
<1> QED BY <1>2, <1>3, <1>4, <1>5, <1>6, <1>7, <1>8 DEF User

\* A handler that settles one sequence.
LEMMA SettlingInTime ==
  ASSUME TypeInv, TimingInv, phase = "drain", NEW id \in SequenceId, NEW p, IsPlayback(p), Settle(id, p),
         p.st.active => InTime(CueAt(sequences[id], p.st.cue), p.st, age'[id]),
         \A other \in SequenceId : other # id => age'[other] = age[other]
  PROVE  TimingInv'
<1>1. AreStates(states)
  BY DEF TypeInv, StatesInv
<1>2. /\ phase' \in {"drain", "dead"}
      /\ DOMAIN states' = DOMAIN states \cup {id} /\ states'[id] = p.st
      /\ \A other \in DOMAIN states : other # id => states'[other] = states[other]
      /\ UNCHANGED sequences
  BY <1>1, SettleFacts
<1>3. CuesAreKnown' /\ DelaysAreKept'
  BY <1>2 DEF TimingInv, CuesAreKnown, DelaysAreKept
<1>4. ASSUME NEW x \in Active' PROVE InTime(CueAt(sequences[x], states'[x].cue), states'[x], age'[x])
  <2>1. CASE x = id
    BY <1>2, <2>1 DEF Active
  <2>2. CASE x # id
    <3>1. x \in DOMAIN states /\ states'[x] = states[x] /\ x \in Active
      BY <1>2, <2>2 DEF Active
    <3>2. age'[x] = age[x]
      BY <1>1, <2>2, <3>1 DEF AreStates
    <3> QED BY <3>1, <3>2 DEF TimingInv, ActiveInTime
  <2> QED BY <2>1, <2>2
<1>5. ActiveInTime'
  BY <1>2, <1>4 DEF ActiveInTime
<1> QED BY <1>3, <1>5 DEF TimingInv

LEMMA HandleUnknownInTime == TypeInv /\ SteadyInv /\ TimingInv /\ HandleUnknown => TimingInv'
<1> SUFFICES ASSUME TypeInv, SteadyInv, TimingInv, HandleUnknown PROVE TimingInv'
  OBVIOUS
<1> PICK id : id = Head(queue).id
  OBVIOUS
<1>0. QueueInv /\ AreStates(states)
  BY DEF TypeInv, StatesInv
<1>1. PICK type \in {"GoForward", "GoBackward", "GoTo"} : Receiving(type)
  BY DEF HandleUnknown
<1>2. /\ id \notin DOMAIN sequences /\ Received /\ Settle(id, Playback(id)) /\ UNCHANGED age
  BY DEF HandleUnknown
<1>3. id \in SequenceId /\ phase = "drain"
  BY <1>0, <1>1, <1>2, ReceivingFacts
<1>4. IsPlayback(Playback(id)) /\ Playback(id).st = StateOf(id)
  BY <1>0, PlaybackFacts
<1>5. ~StateOf(id).active
  BY <1>2, UnknownIsSilent
<1> QED BY <1>2, <1>3, <1>4, <1>5, SettlingInTime

LEMMA HandleStopInTime == TypeInv /\ SteadyInv /\ TimingInv /\ HandleStop => TimingInv'
<1> SUFFICES ASSUME TypeInv, SteadyInv, TimingInv, HandleStop PROVE TimingInv'
  OBVIOUS
<1> PICK id : id = Head(queue).id
  OBVIOUS
<1>0. QueueInv /\ AreStates(states)
  BY DEF TypeInv, StatesInv
<1>1. /\ Receiving("Stop") /\ Received /\ Settle(id, Halting(id)) /\ UNCHANGED age
  BY DEF HandleStop, Halting
<1>2. id \in SequenceId /\ phase = "drain"
  BY <1>0, <1>1, ReceivingFacts
<1>3. IsPlayback(Halting(id))
  BY <1>0, HaltingFacts
<1>4. ~Halting(id).st.active
  <2>1. CASE id \in DOMAIN sequences
    BY <1>0, <2>1, HaltingFacts
  <2>2. CASE id \notin DOMAIN sequences
    <3>1. Halting(id) = Playback(id) /\ Playback(id).st = StateOf(id)
      BY <1>0, <2>2, HaltingFacts, PlaybackFacts
    <3>2. ~StateOf(id).active
      BY <2>2, UnknownIsSilent
    <3> QED BY <3>1, <3>2
  <2> QED BY <2>1, <2>2
<1> QED BY <1>1, <1>2, <1>3, <1>4, SettlingInTime

LEMMA HandleGoInTime == TypeInv /\ SteadyInv /\ TimingInv /\ HandleGo => TimingInv'
<1> SUFFICES ASSUME TypeInv, SteadyInv, TimingInv, HandleGo PROVE TimingInv'
  OBVIOUS
<1>0. QueueInv /\ AreStates(states) /\ AreSequences(sequences) /\ ClockInv
  BY DEF TypeInv, StatesInv, SequencesInv
<1>1. PICK id, is :
           /\ id \in DOMAIN sequences /\ id \in SequenceId /\ phase = "drain"
           /\ IsPlayback(is) /\ Arrived(sequences[id], Playback(id), is)
           /\ Settle(id, is)
           /\ IF is = Playback(id) THEN UNCHANGED age ELSE Reentered(id)
  BY HandleGoReaches
<1>2. IsSequence(sequences[id])
  BY <1>0, <1>1 DEF AreSequences
<1>3. \A other \in SequenceId : other # id => age'[other] = age[other]
  BY <1>0, <1>1 DEF Reentered, ClockInv
<1>4. ASSUME is.st.active PROVE InTime(CueAt(sequences[id], is.st.cue), is.st, age'[id])
  <2>1. CASE is = Playback(id)
    <3>1. is.st = StateOf(id) /\ UNCHANGED age
      BY <1>0, <1>1, <2>1, PlaybackFacts
    <3>2. id \in Active /\ is.st = states[id]
      BY <1>4, <3>1 DEF StateOf, InitialState, Active
    <3> QED BY <3>1, <3>2 DEF TimingInv, ActiveInTime
  <2>2. CASE is # Playback(id)
    <3>1. Entered(sequences[id], Playback(id), is)
      BY <1>1 DEF Arrived
    <3>2. HasCue(sequences[id], is.st.cue)
      BY <1>1, CommandedSteady
    <3>3. age'[id] = 0
      BY <1>0, <1>1, <2>2 DEF Reentered, ClockInv
    <3> QED BY <1>2, <3>1, <3>2, <3>3, InTimeEntered
  <2> QED BY <2>1, <2>2
<1> QED BY <1>1, <1>3, <1>4, SettlingInTime

LEMMA HandleSetRateInTime == TypeInv /\ SteadyInv /\ TimingInv /\ HandleSetRate => TimingInv'
<1> SUFFICES ASSUME TypeInv, SteadyInv, TimingInv, HandleSetRate PROVE TimingInv'
  OBVIOUS
<1>0. QueueInv /\ AreStates(states)
  BY DEF TypeInv, StatesInv
<1>1. /\ phase = "drain" /\ DOMAIN states' = DOMAIN states
      /\ \A id \in DOMAIN states : \E rate \in Rates : states'[id] = [states[id] EXCEPT !.rate = rate]
      /\ UNCHANGED <<phase, sequences, age>>
  BY <1>0, HandleSetRateMeans
<1>2. CuesAreKnown' /\ DelaysAreKept'
  BY <1>1 DEF TimingInv, CuesAreKnown, DelaysAreKept
<1>3. ASSUME NEW id \in Active'
      PROVE  InTime(CueAt(sequences[id], states'[id].cue), states'[id], age[id])
  <2>1. id \in DOMAIN states /\ IsState(states[id])
    BY <1>0, <1>1 DEF Active, AreStates
  <2>2. PICK rate \in Rates : states'[id] = [states[id] EXCEPT !.rate = rate]
    BY <1>1, <2>1
  <2> PICK st, new : st = states[id] /\ new = states'[id]
    OBVIOUS
  <2>3. new.active = st.active /\ new.cue = st.cue
    BY <2>1, <2>2, RateFacts
  <2>4. InTime(CueAt(sequences[id], st.cue), st, age[id])
    BY <2>1, <2>3 DEF TimingInv, ActiveInTime, Active
  <2>5. /\ new.goAt = st.goAt /\ new.goTimed = st.goTimed /\ new.sinceGo = st.sinceGo
        /\ new.finishedAt = st.finishedAt /\ new.finishTimed = st.finishTimed
        /\ new.sinceFinished = st.sinceFinished /\ new.channels = st.channels
    BY <2>1, <2>2, RateFacts
  <2>6. InTime(CueAt(sequences[id], st.cue), new, age[id])
    BY <2>4, <2>5, InTimeSame
  <2> QED BY <2>3, <2>6
<1>4. ActiveInTime'
  BY <1>1, <1>3 DEF ActiveInTime
<1> QED BY <1>2, <1>4 DEF TimingInv

LEMMA ProcessNodesInTime == TypeInv /\ SteadyInv /\ TimingInv /\ ProcessNodes => TimingInv'
<1> SUFFICES ASSUME TypeInv, SteadyInv, TimingInv, ProcessNodes PROVE TimingInv'
  OBVIOUS
<1>0. QueueInv /\ AreSequences(sequences) /\ AreStates(states) /\ ClockInv
  BY DEF TypeInv, StatesInv, SequencesInv
<1>1. /\ phase' \in {"edit", "stuck"} /\ DOMAIN states' = DOMAIN states
      /\ \A id \in DOMAIN states : states'[id] = Later(states[id])
      /\ age' = [id \in SequenceId |-> Capped(age[id] + 1)]
      /\ UNCHANGED sequences
  BY <1>0, ProcessNodesMeans
<1>2. CuesAreKnown' /\ DelaysAreKept'
  BY <1>1 DEF TimingInv, CuesAreKnown, DelaysAreKept
<1>3. ASSUME NEW id \in Active'
      PROVE  InTime(CueAt(sequences[id], states'[id].cue), states'[id], age'[id])
  <2>1. id \in DOMAIN states /\ id \in SequenceId /\ IsState(states[id])
    BY <1>0, <1>1 DEF Active, AreStates
  <2> PICK st, a : st = states[id] /\ a = age[id]
    OBVIOUS
  <2>2. states'[id] = Later(st) /\ age'[id] = Capped(a + 1) /\ a \in Ages
    BY <1>0, <1>1, <2>1 DEF ClockInv, Ages
  <2>3. Later(st).active = st.active /\ Later(st).cue = st.cue
    BY <2>1, LaterFacts
  <2>4. id \in Active
    BY <2>1, <2>2, <2>3 DEF Active
  <2>5. PlaysACue(id, st) /\ st.cue \in Nat
    BY <2>1, <2>4, OrderedStates DEF IsState
  <2>6. IsCue(CueAt(sequences[id], st.cue))
    BY <1>0, <2>5, CueFacts DEF PlaysACue, AreSequences
  <2>7. InTime(CueAt(sequences[id], st.cue), st, a)
    BY <2>4 DEF TimingInv, ActiveInTime
  <2>8. InTime(CueAt(sequences[id], st.cue), Later(st), Capped(a + 1))
    BY <2>1, <2>2, <2>6, <2>7, InTimeLater
  <2> QED BY <2>2, <2>3, <2>8
<1>4. ActiveInTime'
  BY <1>1, <1>3 DEF ActiveInTime
<1> QED BY <1>2, <1>4 DEF TimingInv

\* What a frame does to a sequence that stays active, and when it goes on by
\* itself.
GoesInTime ==
  \A id \in Active \cap Active' : WentByItself(id) =>
    MayFollow(CueAt(sequences[id], states[id].cue), CueAt(sequences[id], states'[id].cue), age[id])

LEMMA RunSequencesInTime ==
  Timely /\ TypeInv /\ SteadyInv /\ TimingInv /\ RunSequences => TimingInv' /\ GoesInTime
<1> SUFFICES ASSUME Timely, TypeInv, SteadyInv, TimingInv, RunSequences PROVE TimingInv' /\ GoesInTime
  OBVIOUS
<1>0. /\ AreSequences(sequences) /\ AreStates(states) /\ ClockInv
      /\ NoneStarts
  BY RunSequencesSteady DEF TypeInv, StatesInv, SequencesInv, SteadyInv
<1> DEFINE R(id) == Run(id, sequences[id], Playback(id))
<1>1. /\ \A id \in Playing : states'[id] = R(id).st
      /\ UNCHANGED sequences
  BY <1>0, RunSequencesMeans
<1>2. Active \subseteq Playing /\ Playing \subseteq DOMAIN states /\ Playing \subseteq DOMAIN sequences
  BY PlayingIsOrdered, OrderedStates
<1>3. \A id \in Playing :
        /\ age'[id] = (IF R(id).st.goAt = "now" THEN 0 ELSE age[id])
        /\ written'[id] = Writes(sequences[id], Playback(id))
  <2>1. /\ age' = [id \in SequenceId |-> IF id \in Playing /\ Ran[id].st.goAt = "now" THEN 0 ELSE age[id]]
        /\ written' = [id \in SequenceId |->
                         IF id \in Playing THEN Writes(sequences[id], Playback(id)) ELSE {}]
    BY DEF RunSequences, Ran
  <2>2. \A id \in Playing : id \in SequenceId /\ Ran[id] = R(id)
    BY <1>0, <1>2 DEF AreSequences, Ran
  <2> HIDE DEF R
  <2> QED BY <2>1, <2>2
<1>4. ASSUME NEW id \in Active, id \in Active'
      PROVE  /\ InTime(CueAt(sequences[id], states'[id].cue), states'[id], age'[id])
             /\ \A c \in written'[id] :
                  TimeOf(CueAt(sequences[id], states'[id].cue).delay, c) <= Spent(age'[id])
             /\ WentByItself(id) =>
                  MayFollow(CueAt(sequences[id], states[id].cue),
                            CueAt(sequences[id], states'[id].cue), age[id])
  <2> PICK seq, p, a : seq = sequences[id] /\ p = Playback(id) /\ a = age[id]
    OBVIOUS
  <2>1. IsSequence(seq)
    BY <1>0, <1>2 DEF AreSequences
  <2>2. IsPlayback(p) /\ p.st = states[id]
    BY <1>0, <1>2, PlaybackFacts DEF StateOf
  <2>3. Running(seq, p) /\ InTime(CueAt(seq, p.st.cue), p.st, a)
    <3>1. states[id].active /\ PlaysACue(id, states[id])
      BY OrderedStates DEF Active
    <3> QED BY <1>2, <2>2, <3>1 DEF Running, PlaysACue, TimingInv, ActiveInTime
  <2>4. a \in Ages
    BY <1>0, <1>2 DEF ClockInv, Ages, AreSequences
  <2>5. \A i \in Nat : HasCue(seq, i) => Undelayed(CueAt(seq, i))
    BY <1>2 DEF TimingInv, CuesAreKnown, IsKnown, Timely
  <2> PICK q : q = Run(id, seq, p)
    OBVIOUS
  <2> PICK b, cue : b = (IF q.st.goAt = "now" THEN 0 ELSE a) /\ cue = CueAt(seq, q.st.cue)
    OBVIOUS
  <2>8. q.st.active
    BY <1>1, <1>2, <1>4 DEF Active
  <2>6. /\ InTime(cue, q.st, b)
        /\ \A c \in Writes(seq, p) : TimeOf(cue.delay, c) <= Spent(b)
        /\ q.st.goAt = "now" /\ ~q.st.goTimed => MayFollow(CueAt(seq, p.st.cue), cue, a)
    BY <2>1, <2>3, <2>4, <2>5, <2>8, RunInTime
  <2>7. states'[id] = q.st /\ age'[id] = b /\ written'[id] = Writes(seq, p)
    BY <1>1, <1>2, <1>3
  <2> HIDE DEF R
  <2> QED BY <2>2, <2>6, <2>7 DEF WentByItself
<1> HIDE DEF R
<1>5. Active' \subseteq Active
  BY <1>0 DEF NoneStarts, IsActive, Active
<1>6. CuesAreKnown'
  BY <1>1 DEF TimingInv, CuesAreKnown
<1>7. ActiveInTime'
  BY <1>1, <1>4, <1>5 DEF ActiveInTime
<1>8. DelaysAreKept'
  BY <1>1, <1>4, <1>5 DEF DelaysAreKept, Spent
<1>9. GoesInTime
  BY <1>4 DEF GoesInTime
<1> QED BY <1>6, <1>7, <1>8, <1>9 DEF TimingInv

LEMMA NextInTime ==
  Timely /\ TypeInv /\ SteadyInv /\ TimingInv /\ [Next]_vars => TimingInv' /\ (RunSequences => GoesInTime)
<1> SUFFICES ASSUME Timely, TypeInv, SteadyInv, TimingInv, [Next]_vars
             PROVE  TimingInv' /\ (RunSequences => GoesInTime)
  OBVIOUS
<1>1. RunSequences => TimingInv' /\ GoesInTime
  BY RunSequencesInTime
<1>2. TimingInv'
  <2>1. CASE User
    BY <2>1, UserInTime
  <2>2. CASE StartFrame
    <3>1. phase' = "drain" /\ UNCHANGED <<sequences, states, age>>
      BY <2>2 DEF StartFrame
    <3>2. CuesAreKnown' /\ DelaysAreKept'
      BY <3>1 DEF TimingInv, CuesAreKnown, DelaysAreKept
    <3> QED BY <3>1, <3>2, KeepingInTime DEF TimingInv
  <2>3. CASE Handle
    BY <2>3, HandleUnknownInTime, HandleGoInTime, HandleStopInTime, HandleSetRateInTime,
       NothingIsDropped DEF Handle
  <2>4. CASE ProcessNodes
    BY <2>4, ProcessNodesInTime
  <2>5. CASE UNCHANGED vars
    <3>1. UNCHANGED <<phase, sequences, states, age, written>>
      BY <2>5 DEF vars
    <3> QED BY <3>1 DEF TimingInv, CuesAreKnown, ActiveInTime, Active, DelaysAreKept
  <2> QED BY <1>1, <2>1, <2>2, <2>3, <2>4, <2>5 DEF Next, Frame
<1> QED BY <1>1, <1>2

LEMMA InitInTime == Init => TimingInv
<1> SUFFICES ASSUME Init PROVE TimingInv
  OBVIOUS
<1>1. states = <<>> /\ DOMAIN <<>> = {} /\ sequences = Sequence /\ phase = "edit"
  BY DEF Init
<1> QED BY <1>1, KnownSequences DEF TimingInv, CuesAreKnown, SequenceId, ActiveInTime, Active, DelaysAreKept

\* In a show that is timely no wait is cut short by the bound of the timers.
LEMMA WaitsAreReached ==
  ASSUME Timely, TypeInv, SteadyInv, TimingInv, GoesInTime,
         NEW id \in Active \cap Active', WentByItself(id), HasCue(sequences[id], states'[id].cue), states'[id].cue \in Nat
  PROVE  LET prev == CueAt(sequences[id], states[id].cue)
             next == CueAt(sequences[id], states'[id].cue)
             spent == age[id] * FastestRate
         IN  \/ next.trigger = "Time" /\ next.after <= spent
             \/ /\ next.trigger = "Follow"
                /\ \A c \in prev.channels :
                     TimeOf(prev.delay, c) + TimeOf(prev.fade, c) + next.after <= spent
<1> PICK prev, next, a : /\ prev = CueAt(sequences[id], states[id].cue)
                         /\ next = CueAt(sequences[id], states'[id].cue)
                         /\ a = age[id]
  OBVIOUS
<1>1. PlaysACue(id, states[id]) /\ states[id].cue \in Nat
  BY OrderedStates DEF Active, TypeInv, StatesInv, AreStates, IsState
<1>2. prev \in AllCues /\ next \in AllCues
  BY <1>1 DEF TimingInv, CuesAreKnown, IsKnown, PlaysACue
<1>3. IsCue(prev) /\ IsCue(next)
  BY <1>2, KnownAreCues
<1>4. MayFollow(prev, next, a)
  BY DEF GoesInTime
<1>5. next.after \in Nat /\ next.after <= MaxTime /\ MaxTime \in Nat
  BY <1>3, MaxTimeAssumption DEF IsCue
<1>6. CASE next.trigger = "Time" /\ Capped(next.after) <= Spent(a)
  BY <1>5, <1>6 DEF Capped, Spent
<1>7. CASE /\ next.trigger = "Follow"
           /\ \A c \in prev.channels : Capped(Total(prev, c) + next.after) <= Spent(a)
  <2> SUFFICES ASSUME NEW c \in prev.channels
               PROVE  TimeOf(prev.delay, c) + TimeOf(prev.fade, c) + next.after <= Spent(a)
    BY <1>7 DEF Spent
  <2>1. Total(prev, c) + next.after <= MaxTime /\ Total(prev, c) + next.after \in Nat
    BY <1>2, <1>3, <1>5, <1>7, TimingFacts DEF Timely
  <2>2. Capped(Total(prev, c) + next.after) = Total(prev, c) + next.after
    BY <1>5, <2>1 DEF Capped
  <2> QED BY <1>7, <2>2 DEF Total
<1> QED BY <1>4, <1>6, <1>7 DEF MayFollow

THEOREM TimelyShows ==
  ASSUME Timely
  PROVE  Spec => []TimingInv /\ [][RunSequences => GoesInTime]_vars
<1>1. Steady
  BY DEF Timely
<1>2. Init => TypeInv /\ SteadyInv /\ TimingInv
  BY <1>1, InitTypes, InitSteady, InitInTime
<1>3. (TypeInv /\ SteadyInv /\ TimingInv) /\ [Next]_vars =>
        (TypeInv /\ SteadyInv /\ TimingInv)' /\ [RunSequences => GoesInTime]_vars
  BY <1>1, NextTypes, NextSteady, NextInTime
<1> QED BY <1>2, <1>3, PTL DEF Spec

\* DelaysAreKept: no channel is written before its delay has passed, counted
\* at the fastest rate since the sequence entered the cue, however its rate is
\* changed and whatever is sent to it.
THEOREM DelaysAlwaysKept ==
  ASSUME Timely
  PROVE  Spec => []DelaysAreKept
<1>1. TimingInv => DelaysAreKept
  BY DEF TimingInv
<1> QED BY <1>1, TimelyShows, PTL

\* CuesWaitTheirTurn: a sequence goes on by itself to a Time or Follow cue
\* only, no earlier than the cue says.
THEOREM CuesAlwaysWaitTheirTurn ==
  ASSUME Timely
  PROVE  Spec => CuesWaitTheirTurn
<1> DEFINE Waits ==
      RunSequences =>
       \A id \in Active \cap Active' : WentByItself(id) =>
         LET prev == CueAt(sequences[id], states[id].cue)
             next == CueAt(sequences[id], states'[id].cue)
             spent == age[id] * FastestRate
         IN  \/ next.trigger = "Time" /\ next.after <= spent
             \/ /\ next.trigger = "Follow"
                /\ \A c \in prev.channels :
                     TimeOf(prev.delay, c) + TimeOf(prev.fade, c) + next.after
                       <= spent
<1>1. Steady
  BY DEF Timely
<1>2. SteadyInv' => (\A x \in Active : PlaysACue(x, states[x]))'
  <2>1. SteadyInv => \A x \in Active : PlaysACue(x, states[x])
    BY OrderedStates
  <2> QED BY <2>1, PTL
<1>3. TypeInv /\ TypeInv' /\ SteadyInv /\ SteadyInv' /\ TimingInv /\ [RunSequences => GoesInTime]_vars => [Waits]_vars
  <2> SUFFICES ASSUME TypeInv, TypeInv', SteadyInv, SteadyInv', TimingInv, RunSequences => GoesInTime,
                      RunSequences, NEW id \in Active \cap Active', WentByItself(id)
               PROVE  LET prev == CueAt(sequences[id], states[id].cue)
                          next == CueAt(sequences[id], states'[id].cue)
                          spent == age[id] * FastestRate
                      IN  \/ next.trigger = "Time" /\ next.after <= spent
                          \/ /\ next.trigger = "Follow"
                             /\ \A c \in prev.channels :
                                  TimeOf(prev.delay, c) + TimeOf(prev.fade, c) + next.after
                                    <= spent
    OBVIOUS
  <2>1. UNCHANGED sequences
    BY DEF RunSequences
  <2>2. PlaysACue(id, states[id])' /\ states'[id].cue \in Nat
    BY <1>2 DEF Active, TypeInv, StatesInv, AreStates, IsState
  <2>3. HasCue(sequences[id], states'[id].cue)
    BY <2>1, <2>2 DEF PlaysACue
  <2> QED BY <2>2, <2>3, WaitsAreReached
<1> HIDE DEF Waits
<1>4. Spec => [][Waits]_vars
  BY <1>1, <1>3, AlwaysTyped, SteadyShows, TimelyShows, PTL
<1> QED BY <1>4 DEF CuesWaitTheirTurn, Waits
=============================================================================
