--------------------------- MODULE ChannelValues ---------------------------
(* One DMX channel of a fixture: the values written to it in this frame and *)
(* in the one before, the fade-out that runs, and what it sends. Values are *)
(* 0 .. Full; NoValue and NoSource stand for None, NotFading for no fade.   *)
EXTENDS Integers, SequencesExt

Full == 4
NoValue == -1
NoSource == "none"
NoFadeOut == 0

\* FixturePriority, by the number it is converted to.
Highlight == 11
Programmed == 10
HTP == 5
Normal == 2
Lowest == 0
LTP == Lowest .. 4

NotFading == <<>>
FadeFrom(v) == <<[start |-> v.value, duration |-> v.fadeOut, age |-> 0]>>

NewChannel == [master |-> NoValue, values |-> <<>>, previous |-> <<>>,
               fade |-> NotFading, value |-> NoValue, flushed |-> TRUE]

Insert(c, value, priority, source, fadeOut) ==
  [c EXCEPT !.flushed = FALSE,
            !.values = Append(@, [priority |-> priority, value |-> value,
                                  source |-> source, fadeOut |-> fadeOut])]

SetMaster(c, master) == [c EXCEPT !.master = master]

\* Where the values with one of these priorities are.
Places(values, priorities) == {n \in DOMAIN values : values[n].priority \in priorities}

\* The value at the last of the places of the highest rank (max_by_key, max_by).
Highest(values, places, Rank(_)) ==
  values[Max({n \in places : \A m \in places : Rank(values[m]) <= Rank(values[n])})].value

\* The latest value of the highest LTP level against the highest HTP value.
AskedFor(values) ==
  LET ltp == Places(values, LTP)
      htp == Places(values, {HTP})
      latest  == Highest(values, ltp, LAMBDA v : v.priority)
      highest == Highest(values, htp, LAMBDA v : v.value)
  IN  CASE ltp = {} /\ htp = {} -> NoValue
        [] ltp # {} /\ htp = {} -> latest
        [] ltp = {} /\ htp # {} -> highest
        [] OTHER -> IF latest > highest THEN latest ELSE highest

\* Where the frame before has values whose source wrote nothing in this one.
Released(c) ==
  LET present == {v.source : v \in ToSet(c.values)} \ {NoSource}
  IN  {n \in Places(c.previous, LTP \cup {HTP}) :
         /\ c.previous[n].source \notin present \cup {NoSource}
         /\ c.previous[n].fadeOut # NoFadeOut}

\* The last of them takes the place of the fade that runs.
NextFade(c) ==
  IF Released(c) = {} THEN c.fade ELSE FadeFrom(c.previous[Max(Released(c))])

\* FadeState::fade before its duration is over
Faded(fade, target) ==
  fade.start + ((target - fade.start) * fade.age) \div fade.duration

\* For the mutation checks: a fade that has run its time is kept.
FlushKeepingFade(c) ==
  LET asked == AskedFor(c.values)
      fade  == NextFade(c)
      runs  == fade # NotFading /\ fade[1].age < fade[1].duration
  IN  IF c.flushed THEN c
      ELSE [c EXCEPT !.flushed = TRUE, !.fade = fade,
                     !.value = IF runs THEN Faded(fade[1], IF asked = NoValue THEN 0 ELSE asked)
                               ELSE IF fade # NotFading THEN c.value ELSE asked]

Flush(c) ==
  LET asked == AskedFor(c.values)
      fade  == NextFade(c)
      runs  == fade # NotFading /\ fade[1].age < fade[1].duration
  IN  IF c.flushed THEN c
      ELSE [c EXCEPT !.flushed = TRUE,
                     !.fade  = IF runs THEN fade ELSE NotFading,
                     !.value = IF runs THEN Faded(fade[1], IF asked = NoValue THEN 0 ELSE asked)
                                       ELSE asked]

\* The first value written with this priority.
FirstOf(c, priority) == c.values[Min(Places(c.values, {priority}))].value

Scaled(c, value) ==
  IF value = NoValue \/ c.master = NoValue THEN value ELSE (value * c.master) \div Full

\* For the mutation checks: the master scales the programmer's values as well.
SentScaled(c) ==
  CASE Places(c.values, {Highlight}) # {} -> FirstOf(c, Highlight)
    [] OTHER -> Scaled(c, IF Places(c.values, {Programmed}) # {} THEN FirstOf(c, Programmed)
                          ELSE c.value)

\* get: highlight and programmer pass by the fade and by the master.
Sent(c) ==
  CASE Places(c.values, {Highlight}) # {} -> FirstOf(c, Highlight)
    [] Places(c.values, {Highlight}) = {} /\ Places(c.values, {Programmed}) # {} ->
         FirstOf(c, Programmed)
    [] OTHER -> Scaled(c, c.value)

\* A frame begins.
Clear(c) == [c EXCEPT !.previous = c.values, !.values = <<>>, !.value = NoValue]

\* Time passes; how long a fade is over makes no difference.
Aged(c) ==
  IF c.fade = NotFading \/ c.fade[1].age = c.fade[1].duration THEN c
  ELSE [c EXCEPT !.fade[1].age = @ + 1]

=============================================================================
