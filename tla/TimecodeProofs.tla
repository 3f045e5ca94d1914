--------------------------- MODULE TimecodeProofs ---------------------------
(* Proofs about Timecode, for any names, levels, gap and bounds. The          *)
(* invariant is the type of the state, with two of the properties inside the  *)
(* types: a course is a sequence of steps in order, and a state of a track is *)
(* one that runs only if it plays. Every operation of the manager keeps it,   *)
(* on whatever the project file and the history of commands hold.             *)
EXTENDS Timecode, TLAPS, SequenceTheorems, WellFoundedInduction

Maps(K, V) == UNION {[D -> V] : D \in SUBSET K}

Step == [x : Nat, y : Nat]
Course == {s \in Seq(Step) : Ordered(s)}
Courses == Maps(Ids, Course)
Track == [name : Names, values : Courses]
State == {s \in [playing : BOOLEAN, start : Int, timestamp : Nat] : IsRunning(s) => s.playing}

Contents == [tracks : Maps(Ids, Track), controls : Maps(Ids, Names)]
Managers == [tracks : Maps(Ids, Track), controls : Maps(Ids, Names),
             nextTrack : 1 .. MaxId + 1, nextControl : 1 .. MaxId + 1,
             states : Maps(Ids, State), recording : SUBSET Ids]
Mementos == [id : Ids, name : Names, values : Courses]
AllEntries == [cmd : Commands, state : Mementos, kept : BOOLEAN, before : Contents]

\* A manager at a time: no track without a state, none that started later.
IsManager(m, time) ==
  /\ m \in Managers
  /\ DOMAIN m.tracks \subseteq DOMAIN m.states
  /\ m.recording \subseteq DOMAIN m.states
  /\ \A t \in DOMAIN m.states : m.states[t].start <= time

\* Ids that are given are above those there are.
Fresh(m) ==
  /\ \A t \in DOMAIN m.tracks : t < m.nextTrack
  /\ \A c \in DOMAIN m.controls : c < m.nextControl

\* Ids that a command of the history names, or any of a sequence of them, were given.
Given(m, c, s) == s.id < IF AboutTrack(c) THEN m.nextTrack ELSE m.nextControl
AllGiven(m, entries) == \A n \in 1 .. Len(entries) : Given(m, entries[n].cmd, entries[n].state)

FreshOK == ~crossed => Fresh(manager) /\ AllGiven(manager, done) /\ AllGiven(manager, undone)

HistoryOK ==
  /\ saved \in Contents
  /\ done \in Seq(AllEntries) /\ undone \in Seq(AllEntries)

CountersOK ==
  /\ now \in Nat /\ commands \in Nat /\ controlled \in Nat /\ records \in Nat
  /\ crossed \in BOOLEAN

IInv == IsManager(manager, now) /\ HistoryOK /\ FreshOK /\ CountersOK

-----------------------------------------------------------------------------
(* Least and greatest members, which CHOOSE picks in LastOf and FirstOf.      *)

\* A nonempty set of numbers has a least one.
LEMMA LeastExists ==
  ASSUME NEW T, T \subseteq Nat, T # {}
  PROVE  \E x \in T : \A y \in T : x <= y
<1> DEFINE R == OpToRel(<, Nat)
<1>1. IsWellFoundedOn(R, Nat)
  BY NatLessThanWellFounded
<1>2. \A x, y \in Nat : x < y <=> <<x, y>> \in R
  BY DEF OpToRel
<1> HIDE DEF R
<1>3. PICK x \in T : \A y \in T : ~(<<y, x>> \in R)
  BY <1>1, WFMin
<1>4. ASSUME NEW y \in T PROVE x <= y
  <2>1. x \in Nat /\ y \in Nat
    OBVIOUS
  <2>2. ~(y < x)
    BY <2>1, <1>2, <1>3
  <2> QED BY <2>1, <2>2, SMT
<1> QED BY <1>4

\* A nonempty set of numbers up to n has a greatest one.
LEMMA GreatestExists ==
  ASSUME NEW n \in Nat, NEW T, T \subseteq 0 .. n, T # {}
  PROVE  \E x \in T : \A y \in T : y <= x
<1> DEFINE U == {n - x : x \in T}
<1>1. \A x \in T : x \in Int /\ 0 <= x /\ x <= n /\ n - x \in Nat
  OBVIOUS
<1>2. U \subseteq Nat /\ U # {}
  BY <1>1
<1>3. PICK u \in U : \A v \in U : u <= v
  <2> HIDE DEF U
  <2> QED BY <1>2, LeastExists
<1>4. PICK x \in T : u = n - x
  OBVIOUS
<1>5. ASSUME NEW y \in T PROVE y <= x
  <2>1. n - y \in U
    OBVIOUS
  <2>2. n - x <= n - y
    BY <1>3, <1>4, <2>1
  <2> QED BY <1>1, <2>2, SMT
<1> QED BY <1>5

\* LastOf picks the greatest member.
LEMMA LastOfIsGreatest ==
  ASSUME NEW n \in Nat, NEW T, T \subseteq 0 .. n, T # {}
  PROVE  LastOf(T) \in T /\ \A y \in T : y <= LastOf(T)
BY GreatestExists DEF LastOf

\* FirstOf picks the least member.
LEMMA FirstOfIsLeast ==
  ASSUME NEW T, T \subseteq Nat, T # {}
  PROVE  FirstOf(T) \in T /\ \A y \in T : FirstOf(T) <= y
BY LeastExists DEF FirstOf

\* The highest of the ids of a map, or zero.
LEMMA HighestBounds ==
  ASSUME NEW S, S \subseteq Ids
  PROVE  /\ Highest(S) \in 0 .. MaxId
         /\ \A t \in S : t <= Highest(S)
<1>1. MaxId \in Nat
  BY BoundsAssumption
<1>2. S \subseteq 0 .. MaxId
  BY <1>1 DEF Ids
<1>3. CASE S = {}
  BY <1>1, <1>3 DEF Highest
<1>4. CASE S # {}
  BY <1>1, <1>2, <1>4, LastOfIsGreatest DEF Highest
<1> QED BY <1>3, <1>4

-----------------------------------------------------------------------------
(* Maps *)

\* Putting a value under a key.
LEMMA PutInMap ==
  ASSUME NEW K, NEW V, NEW f \in Maps(K, V), NEW k \in K, NEW v \in V
  PROVE  /\ Put(f, k, v) \in Maps(K, V)
         /\ DOMAIN Put(f, k, v) = DOMAIN f \cup {k}
         /\ \A i \in DOMAIN f \cup {k} : Put(f, k, v)[i] = IF i = k THEN v ELSE f[i]
<1>1. PICK D \in SUBSET K : f \in [D -> V]
  BY DEF Maps
<1>2. Put(f, k, v) \in [D \cup {k} -> V]
  BY <1>1 DEF Put
<1>3. Put(f, k, v) \in Maps(K, V)
  BY <1>2 DEF Maps
<1> QED BY <1>3 DEF Put

\* Dropping a key.
LEMMA DropFromMap ==
  ASSUME NEW K, NEW V, NEW f \in Maps(K, V), NEW k
  PROVE  /\ Drop(f, k) \in Maps(K, V)
         /\ DOMAIN Drop(f, k) = DOMAIN f \ {k}
         /\ \A i \in DOMAIN f \ {k} : Drop(f, k)[i] = f[i]
<1>1. PICK D \in SUBSET K : f \in [D -> V]
  BY DEF Maps
<1>2. Drop(f, k) \in [D \ {k} -> V]
  BY <1>1 DEF Drop
<1>3. Drop(f, k) \in Maps(K, V)
  BY <1>2 DEF Maps
<1> QED BY <1>3 DEF Drop

\* The keys and values of a map, and the maps there are.
LEMMA MapFacts ==
  ASSUME NEW K, NEW V
  PROVE  /\ \A f \in Maps(K, V) : DOMAIN f \subseteq K /\ \A k \in DOMAIN f : f[k] \in V
         /\ \A f \in Maps(K, V) : f = [k \in DOMAIN f |-> f[k]]
         /\ NoEntries \in Maps(K, V) /\ DOMAIN NoEntries = {}
         /\ \A D \in SUBSET K : \A f \in [D -> V] : f \in Maps(K, V)
<1>1. NoEntries \in [{} -> V] /\ DOMAIN NoEntries = {}
  BY DEF NoEntries
<1>2. NoEntries \in Maps(K, V)
  BY <1>1 DEF Maps
<1>3. ASSUME NEW f \in Maps(K, V)
      PROVE  /\ DOMAIN f \subseteq K /\ \A k \in DOMAIN f : f[k] \in V
             /\ f = [k \in DOMAIN f |-> f[k]]
  <2>1. PICK D \in SUBSET K : f \in [D -> V]
    BY DEF Maps
  <2> QED BY <2>1
<1>4. ASSUME NEW D \in SUBSET K, NEW f \in [D -> V] PROVE f \in Maps(K, V)
  BY DEF Maps
<1> QED BY <1>1, <1>2, <1>3, <1>4

-----------------------------------------------------------------------------
(* Courses *)

\* Recording at x keeps every step before x, in its place, and nothing after x.
LEMMA KeptSteps ==
  ASSUME NEW course \in Course, NEW x \in Nat
  PROVE  /\ Kept(course, x) \in Course
         /\ Kept(course, x) # <<>> => Kept(course, x)[Len(Kept(course, x))].x <= x
         /\ \A n \in DOMAIN course : course[n].x < x =>
              n \in DOMAIN Kept(course, x) /\ Kept(course, x)[n] = course[n]
<1> DEFINE B == Before(course, x)
           A == After(course, x)
<1>1. course \in Seq(Step) /\ Len(course) \in Nat /\ DOMAIN course = 1 .. Len(course)
  BY DEF Course
<1>2. B \subseteq 1 .. Len(course) /\ A \subseteq 1 .. Len(course)
  BY <1>1 DEF Before, After
<1>3. \A n \in 1 .. Len(course) : course[n] \in Step /\ course[n].x \in Nat
  <2>1. \A n \in 1 .. Len(course) : course[n] \in Step
    BY <1>1
  <2>2. \A s \in Step : s.x \in Nat
    BY DEF Step
  <2> QED BY <2>1, <2>2
<1>4. ASSUME NEW k \in 0 .. Len(course)
      PROVE  /\ SubSeq(course, 1, k) \in Course
             /\ Len(SubSeq(course, 1, k)) = k
             /\ \A n \in 1 .. k : SubSeq(course, 1, k)[n] = course[n]
  <2> DEFINE s == SubSeq(course, 1, k)
  <2>1. s \in Seq(Step) /\ Len(s) = k /\ \A n \in 1 .. k : s[n] = course[n]
    BY <1>1
  <2>2. \A n \in 2 .. Len(course) : course[n - 1].x <= course[n].x
    BY DEF Course, Ordered
  <2>3. \A n \in 2 .. k : s[n - 1].x <= s[n].x
    <3>1. ASSUME NEW n \in 2 .. k PROVE s[n - 1].x <= s[n].x
      <4>1. n \in 2 .. Len(course) /\ n - 1 \in 1 .. k /\ n \in 1 .. k
        BY <1>1
      <4> QED BY <4>1, <2>1, <2>2
    <3> QED BY <3>1
  <2> QED BY <2>1, <2>3 DEF Course, Ordered
<1>5. CASE B # {}
  <2> DEFINE k == LastOf(B)
  <2>1. k \in B /\ \A n \in B : n <= k
    BY <1>1, <1>2, <1>5, LastOfIsGreatest
  <2>2. k \in 1 .. Len(course) /\ course[k].x < x
    BY <2>1, <1>1, <1>2 DEF Before
  <2>3. Kept(course, x) = SubSeq(course, 1, k)
    BY <1>5 DEF Kept
  <2>4. \A n \in DOMAIN course : course[n].x < x => n \in 1 .. k
    BY <2>1, <2>2, <1>1 DEF Before
  <2> HIDE DEF k
  <2>5. /\ SubSeq(course, 1, k) \in Course
        /\ Len(SubSeq(course, 1, k)) = k
        /\ \A n \in 1 .. k : SubSeq(course, 1, k)[n] = course[n]
    BY <1>1, <1>4, <2>2
  <2>6. DOMAIN SubSeq(course, 1, k) = 1 .. k
    BY <2>5 DEF Course
  <2>7. course[k].x <= x /\ k \in 1 .. k
    BY <2>2, <1>3
  <2> QED BY <2>3, <2>4, <2>5, <2>6, <2>7
<1>6. CASE B = {} /\ A # {}
  <2> DEFINE k == FirstOf(A)
  <2>1. k \in A /\ \A n \in A : k <= n
    BY <1>1, <1>2, <1>6, FirstOfIsLeast
  <2>2. k \in 1 .. Len(course)
    BY <2>1, <1>2
  <2>3. Kept(course, x) = SubSeq(course, 1, k - 1)
    BY <1>6 DEF Kept
  <2>4. ASSUME NEW n \in 1 .. Len(course), n < k PROVE course[n].x <= x
    <3>1. n \notin A
      BY <2>1, <2>2, <2>4
    <3>2. ~(course[n].x > x)
      BY <3>1, <1>1 DEF After
    <3> QED BY <3>2, <1>3
  <2> HIDE DEF k
  <2>5. k - 1 \in 0 .. Len(course)
    BY <2>2
  <2>6. /\ SubSeq(course, 1, k - 1) \in Course
        /\ Len(SubSeq(course, 1, k - 1)) = k - 1
        /\ \A n \in 1 .. k - 1 : SubSeq(course, 1, k - 1)[n] = course[n]
    BY <1>4, <2>5
  <2>7. SubSeq(course, 1, k - 1) # <<>> => k - 1 \in 1 .. k - 1
    BY <2>6, <2>5
  <2>8. SubSeq(course, 1, k - 1) # <<>> => course[k - 1].x <= x
    BY <2>7, <2>4, <2>2
  <2>9. \A n \in DOMAIN course : ~(course[n].x < x)
    BY <1>6 DEF Before
  <2> QED BY <2>3, <2>6, <2>7, <2>8, <2>9
<1>7. CASE B = {} /\ A = {}
  <2>1. Kept(course, x) = course
    BY <1>7 DEF Kept
  <2>2. \A n \in 1 .. Len(course) : course[n].x <= x
    BY <1>7, <1>1, <1>3 DEF After
  <2>3. course # <<>> => Len(course) \in 1 .. Len(course)
    BY <1>1
  <2> QED BY <2>1, <2>2, <2>3
<1> QED BY <1>5, <1>6, <1>7

\* Appending a step that is not before the last one.
LEMMA AppendedStep ==
  ASSUME NEW course \in Course, NEW step \in Step,
         course # <<>> => course[Len(course)].x <= step.x
  PROVE  /\ Append(course, step) \in Course
         /\ Append(course, step) # <<>>
         /\ Append(course, step)[Len(Append(course, step))] = step
         /\ \A n \in DOMAIN course :
              n \in DOMAIN Append(course, step) /\ Append(course, step)[n] = course[n]
<1> DEFINE s == Append(course, step)
<1>1. course \in Seq(Step) /\ Len(course) \in Nat /\ DOMAIN course = 1 .. Len(course)
  BY DEF Course
<1>2. /\ s \in Seq(Step) /\ Len(s) = Len(course) + 1 /\ s[Len(course) + 1] = step
      /\ \A n \in 1 .. Len(course) : s[n] = course[n]
  BY <1>1
<1>3. \A n \in 2 .. Len(course) : course[n - 1].x <= course[n].x
  BY DEF Course, Ordered
<1>4. ASSUME NEW n \in 2 .. Len(s) PROVE s[n - 1].x <= s[n].x
  <2>1. CASE n \in 2 .. Len(course)
    BY <2>1, <1>1, <1>2, <1>3
  <2>2. CASE n = Len(course) + 1
    <3>1. course # <<>> /\ n - 1 = Len(course) /\ n - 1 \in 1 .. Len(course)
      BY <2>2, <1>1, <1>2
    <3> QED BY <3>1, <2>2, <1>2
  <2> QED BY <2>1, <2>2, <1>1, <1>2
<1>5. s \in Course
  BY <1>2, <1>4 DEF Course, Ordered
<1> HIDE DEF s
<1>6. DOMAIN s = 1 .. Len(course) + 1
  BY <1>1, <1>2
<1>7. s # <<>>
  BY <1>1, <1>2
<1>8. \A n \in DOMAIN course : n \in DOMAIN s /\ s[n] = course[n]
  BY <1>1, <1>2, <1>6
<1> QED BY <1>2, <1>5, <1>7, <1>8 DEF s

\* A recorded value keeps the course in order and what lies before it as it is.
LEMMA AddedStep ==
  ASSUME NEW course \in Course, NEW x \in Nat, NEW y \in Nat
  PROVE  /\ AddSimpleStep(course, x, y) \in Course
         /\ \A n \in DOMAIN course : course[n].x < x =>
              /\ n \in DOMAIN AddSimpleStep(course, x, y)
              /\ AddSimpleStep(course, x, y)[n] = course[n]
<1> DEFINE kept == Kept(course, x)
           last == IF kept = <<>> THEN [x |-> 0, y |-> 0] ELSE kept[Len(kept)]
           hold == [x |-> x, y |-> last.y]
           held == IF x - last.x > HoldGap THEN Append(kept, hold) ELSE kept
           step == [x |-> x, y |-> y]
<1>1. AddSimpleStep(course, x, y) = Append(held, step)
  BY DEF AddSimpleStep
<1>2. /\ kept \in Course
      /\ kept # <<>> => kept[Len(kept)].x <= x
      /\ \A n \in DOMAIN course : course[n].x < x => n \in DOMAIN kept /\ kept[n] = course[n]
  BY KeptSteps
<1> HIDE DEF kept
<1>3. last.y \in Nat
  <2>1. CASE kept = <<>>
    BY <2>1
  <2>2. CASE kept # <<>>
    <3>1. kept \in Seq(Step)
      BY <1>2 DEF Course
    <3>2. kept[Len(kept)] \in Step
      BY <3>1, <2>2
    <3> QED BY <3>2, <2>2 DEF Step
  <2> QED BY <2>1, <2>2
<1>4. hold \in Step /\ hold.x = x /\ step \in Step /\ step.x = x
  BY <1>3 DEF Step
<1> HIDE DEF last
<1>5. /\ held \in Course
      /\ held # <<>> => held[Len(held)].x <= x
      /\ \A n \in DOMAIN kept : n \in DOMAIN held /\ held[n] = kept[n]
  <2>1. CASE x - last.x > HoldGap
    <3>1. held = Append(kept, hold)
      BY <2>1
    <3> HIDE DEF held, hold
    <3> QED BY <3>1, <1>2, <1>4, AppendedStep
  <2>2. CASE ~(x - last.x > HoldGap)
    BY <2>2, <1>2
  <2> QED BY <2>1, <2>2
<1> HIDE DEF held, step, hold
<1>6. /\ Append(held, step) \in Course
      /\ \A n \in DOMAIN held : n \in DOMAIN Append(held, step) /\ Append(held, step)[n] = held[n]
  BY <1>4, <1>5, AppendedStep
<1> QED BY <1>1, <1>2, <1>5, <1>6

-----------------------------------------------------------------------------
(* The parts of a manager, exchanged one at a time *)

\* A stopped track stands still at zero, which is a state.
LEMMA StoppedIsState == Stopped \in State /\ Stopped.start = 0
BY DEF Stopped, State, IsRunning

\* Other tracks, if each has a state.
LEMMA WithTracks ==
  ASSUME NEW time \in Nat, NEW m, IsManager(m, time),
         NEW X \in Maps(Ids, Track), DOMAIN X \subseteq DOMAIN m.states
  PROVE  IsManager([m EXCEPT !.tracks = X], time)
BY DEF IsManager, Managers

\* Other controls.
LEMMA WithControls ==
  ASSUME NEW time \in Nat, NEW m, IsManager(m, time), NEW X \in Maps(Ids, Names)
  PROVE  IsManager([m EXCEPT !.controls = X], time)
BY DEF IsManager, Managers

\* Other states, if no track loses its own.
LEMMA WithStates ==
  ASSUME NEW time \in Nat, NEW later \in Nat, NEW m, IsManager(m, time),
         NEW X \in Maps(Ids, State), DOMAIN m.states \subseteq DOMAIN X,
         \A t \in DOMAIN X : X[t].start <= later
  PROVE  IsManager([m EXCEPT !.states = X], later)
BY DEF IsManager, Managers

\* The parts of a manager have their types.
LEMMA ManagerFacts ==
  ASSUME NEW time, NEW m, IsManager(m, time)
  PROVE  /\ m.tracks \in Maps(Ids, Track) /\ m.controls \in Maps(Ids, Names)
         /\ m.states \in Maps(Ids, State)
         /\ m.nextTrack \in 1 .. MaxId + 1 /\ m.nextControl \in 1 .. MaxId + 1
         /\ DOMAIN m.tracks \subseteq Ids /\ DOMAIN m.controls \subseteq Ids
         /\ DOMAIN m.states \subseteq Ids
         /\ \A t \in DOMAIN m.tracks : m.tracks[t] \in Track
         /\ \A c \in DOMAIN m.controls : m.controls[c] \in Names
         /\ \A t \in DOMAIN m.states : m.states[t] \in State
<1>1. /\ m.tracks \in Maps(Ids, Track) /\ m.controls \in Maps(Ids, Names)
      /\ m.states \in Maps(Ids, State)
      /\ m.nextTrack \in 1 .. MaxId + 1 /\ m.nextControl \in 1 .. MaxId + 1
  BY DEF IsManager, Managers
<1>2. DOMAIN m.tracks \subseteq Ids /\ \A t \in DOMAIN m.tracks : m.tracks[t] \in Track
  BY <1>1, MapFacts
<1>3. DOMAIN m.controls \subseteq Ids /\ \A c \in DOMAIN m.controls : m.controls[c] \in Names
  BY <1>1, MapFacts
<1>4. DOMAIN m.states \subseteq Ids /\ \A t \in DOMAIN m.states : m.states[t] \in State
  BY <1>1, MapFacts
<1> QED BY <1>1, <1>2, <1>3, <1>4

\* A track and its courses.
LEMMA TrackFacts ==
  ASSUME NEW track \in Track
  PROVE  /\ track.name \in Names /\ track.values \in Courses
         /\ track = [name |-> track.name, values |-> track.values]
         /\ DOMAIN track.values \subseteq Ids
         /\ \A c \in DOMAIN track.values : track.values[c] \in Course
<1>1. /\ track.name \in Names /\ track.values \in Courses
      /\ track = [name |-> track.name, values |-> track.values]
  BY DEF Track
<1>2. DOMAIN track.values \subseteq Ids /\ \A c \in DOMAIN track.values : track.values[c] \in Course
  BY <1>1, MapFacts DEF Courses
<1> QED BY <1>1, <1>2

\* An empty course is one.
LEMMA EmptyCourse == <<>> \in Course
<1>1. <<>> \in Seq(Step) /\ Len(<<>>) = 0
  OBVIOUS
<1>2. \A n \in 2 .. Len(<<>>) : FALSE
  BY <1>1
<1> QED BY <1>1, <1>2 DEF Course, Ordered

-----------------------------------------------------------------------------
(* The operations of the manager *)

\* A track is inserted with a state that stands still.
LEMMA InsertTimecodeKeeps ==
  ASSUME NEW time \in Nat, NEW m, IsManager(m, time), NEW id \in Ids, NEW track \in Track
  PROVE  IsManager(InsertTimecode(m, id, track), time)
<1> DEFINE n == [m EXCEPT !.states = Put(m.states, id, Stopped)]
<1>1. /\ Put(m.states, id, Stopped) \in Maps(Ids, State)
      /\ DOMAIN Put(m.states, id, Stopped) = DOMAIN m.states \cup {id}
      /\ \A t \in DOMAIN m.states \cup {id} :
           Put(m.states, id, Stopped)[t] = IF t = id THEN Stopped ELSE m.states[t]
  <2>1. m.states \in Maps(Ids, State)
    BY ManagerFacts
  <2>2. Put(m.states, id, Stopped) \in Maps(Ids, State)
    BY <2>1, PutInMap, StoppedIsState
  <2> QED BY <2>2 DEF Put
<1>2. \A t \in DOMAIN m.states \cup {id} : Put(m.states, id, Stopped)[t].start <= time
  BY <1>1, StoppedIsState DEF IsManager
<1>3. IsManager(n, time) /\ n.states = Put(m.states, id, Stopped) /\ n.tracks = m.tracks
  <2>1. IsManager(n, time)
    BY <1>1, <1>2, WithStates
  <2>2. n.states = Put(m.states, id, Stopped) /\ n.tracks = m.tracks
    BY DEF IsManager, Managers
  <2> QED BY <2>1, <2>2
<1>4. Put(m.tracks, id, track) \in Maps(Ids, Track) /\ DOMAIN Put(m.tracks, id, track) = DOMAIN m.tracks \cup {id}
  <2>1. m.tracks \in Maps(Ids, Track)
    BY ManagerFacts
  <2>2. Put(m.tracks, id, track) \in Maps(Ids, Track)
    BY <2>1, PutInMap
  <2> QED BY <2>2 DEF Put
<1>5. InsertTimecode(m, id, track) = [n EXCEPT !.tracks = Put(m.tracks, id, track)]
  BY DEF InsertTimecode, IsManager, Managers
<1>6. DOMAIN Put(m.tracks, id, track) \subseteq DOMAIN n.states
  BY <1>1, <1>3, <1>4 DEF IsManager
<1> HIDE DEF n
<1> QED BY <1>3, <1>4, <1>5, <1>6, WithTracks

\* A new track takes the next id and an empty course for every control.
LEMMA AddTimecodeKeeps ==
  ASSUME NEW time \in Nat, NEW m, IsManager(m, time), NEW name \in Names, m.nextTrack <= MaxId
  PROVE  IsManager(AddTimecode(m, name), time)
<1> DEFINE track == [name |-> name, values |-> [c \in DOMAIN m.controls |-> <<>>]]
           n == InsertTimecode(m, m.nextTrack, track)
<1>1. [c \in DOMAIN m.controls |-> <<>>] \in [DOMAIN m.controls -> Course]
  BY EmptyCourse
<1>2. [c \in DOMAIN m.controls |-> <<>>] \in Courses
  BY <1>1, ManagerFacts, MapFacts DEF Courses
<1>3. track \in Track
  BY <1>2 DEF Track
<1>4. MaxId \in Nat /\ m.nextTrack \in Ids
  BY ManagerFacts, BoundsAssumption DEF Ids
<1>5. IsManager(n, time) /\ n.nextTrack = m.nextTrack
  <2>1. IsManager(n, time)
    <3> HIDE DEF track
    <3> QED BY <1>3, <1>4, InsertTimecodeKeeps
  <2>2. n.nextTrack = m.nextTrack
    BY DEF InsertTimecode, IsManager, Managers
  <2> QED BY <2>1, <2>2
<1>6. AddTimecode(m, name) = [n EXCEPT !.nextTrack = n.nextTrack + 1]
  BY DEF AddTimecode
<1>7. n.nextTrack + 1 \in 1 .. MaxId + 1
  BY <1>4, <1>5 DEF Ids
<1> HIDE DEF n
<1> QED BY <1>5, <1>6, <1>7 DEF IsManager, Managers

\* A removed track leaves its state behind.
LEMMA RemoveTimecodeKeeps ==
  ASSUME NEW time \in Nat, NEW m, IsManager(m, time), NEW id
  PROVE  IsManager(RemoveTimecode(m, id), time)
<1>1. Drop(m.tracks, id) \in Maps(Ids, Track) /\ DOMAIN Drop(m.tracks, id) = DOMAIN m.tracks \ {id}
  <2>1. m.tracks \in Maps(Ids, Track)
    BY ManagerFacts
  <2>2. Drop(m.tracks, id) \in Maps(Ids, Track)
    BY <2>1, DropFromMap
  <2> QED BY <2>2 DEF Drop
<1>2. DOMAIN Drop(m.tracks, id) \subseteq DOMAIN m.states
  BY <1>1 DEF IsManager
<1>3. RemoveTimecode(m, id) = [m EXCEPT !.tracks = Drop(m.tracks, id)]
  BY DEF RemoveTimecode
<1> QED BY <1>1, <1>2, <1>3, WithTracks

\* Changing every track.
LEMMA TracksChange ==
  ASSUME NEW time \in Nat, NEW m, IsManager(m, time), NEW X,
         X = [t \in DOMAIN m.tracks |-> X[t]], \A t \in DOMAIN m.tracks : X[t] \in Track
  PROVE  IsManager([m EXCEPT !.tracks = X], time)
<1>1. X \in [DOMAIN m.tracks -> Track] /\ DOMAIN X = DOMAIN m.tracks
  OBVIOUS
<1>2. X \in Maps(Ids, Track)
  BY SMTT(30), <1>1, ManagerFacts, MapFacts
<1>3. DOMAIN X \subseteq DOMAIN m.states
  BY <1>1 DEF IsManager
<1> QED BY <1>2, <1>3, WithTracks

\* A track is renamed.
LEMMA RenameTimecodeKeeps ==
  ASSUME NEW time \in Nat, NEW m, IsManager(m, time), NEW id \in DOMAIN m.tracks, NEW name \in Names
  PROVE  IsManager(RenameTimecode(m, id, name), time)
<1> DEFINE X == [m.tracks EXCEPT ![id].name = name]
<1>1. \A t \in DOMAIN m.tracks : m.tracks[t] \in Track
  BY ManagerFacts
<1>2. X = [t \in DOMAIN m.tracks |-> X[t]]
  OBVIOUS
<1>3. ASSUME NEW t \in DOMAIN m.tracks PROVE X[t] \in Track
  <2>1. X[t] = IF t = id THEN [m.tracks[t] EXCEPT !.name = name] ELSE m.tracks[t]
    OBVIOUS
  <2> QED BY <2>1, <1>1 DEF Track
<1>4. RenameTimecode(m, id, name) = [m EXCEPT !.tracks = X]
  BY DEF RenameTimecode
<1> HIDE DEF X
<1> QED BY <1>2, <1>3, <1>4, TracksChange

\* A control is renamed.
LEMMA RenameTimecodeControlKeeps ==
  ASSUME NEW time \in Nat, NEW m, IsManager(m, time), NEW id \in DOMAIN m.controls, NEW name \in Names
  PROVE  IsManager(RenameTimecodeControl(m, id, name), time)
<1> DEFINE X == [m.controls EXCEPT ![id] = name]
<1>1. X \in [DOMAIN m.controls -> Names]
  <2>1. \A c \in DOMAIN m.controls : m.controls[c] \in Names
    BY ManagerFacts
  <2>2. m.controls = [k \in DOMAIN m.controls |-> m.controls[k]]
    BY ManagerFacts, MapFacts
  <2> QED BY <2>1, <2>2
<1>2. X \in Maps(Ids, Names)
  <2>1. DOMAIN m.controls \in SUBSET Ids
    BY ManagerFacts
  <2> HIDE DEF X
  <2> QED BY <1>1, <2>1, MapFacts
<1>3. RenameTimecodeControl(m, id, name) = [m EXCEPT !.controls = X]
  BY DEF RenameTimecodeControl
<1> HIDE DEF X
<1> QED BY <1>2, <1>3, WithControls

\* A control is inserted into every track, with its old course where it has one.
LEMMA InsertTimecodeControlKeeps ==
  ASSUME NEW time \in Nat, NEW m, IsManager(m, time), NEW id \in Ids, NEW name \in Names,
         NEW courses \in Courses
  PROVE  IsManager(InsertTimecodeControl(m, id, name, courses), time)
<1> DEFINE X == [t \in DOMAIN m.tracks |->
                   [m.tracks[t] EXCEPT !.values =
                      Put(@, id, IF t \in DOMAIN courses THEN courses[t] ELSE <<>>)]]
           n == [m EXCEPT !.controls = Put(m.controls, id, name)]
<1>1. ASSUME NEW t \in DOMAIN m.tracks PROVE X[t] \in Track
  <2> DEFINE course == IF t \in DOMAIN courses THEN courses[t] ELSE <<>>
  <2>1. m.tracks[t] \in Track
    BY ManagerFacts
  <2>2. course \in Course
    BY EmptyCourse, MapFacts DEF Courses
  <2>3. Put(m.tracks[t].values, id, course) \in Courses
    <3> HIDE DEF course
    <3>1. m.tracks[t].values \in Maps(Ids, Course)
      BY <2>1, TrackFacts DEF Courses
    <3> QED BY <3>1, <2>2, PutInMap DEF Courses
  <2>4. X[t] = [m.tracks[t] EXCEPT !.values = Put(m.tracks[t].values, id, course)]
    OBVIOUS
  <2> HIDE DEF course, X
  <2> QED BY <2>1, <2>3, <2>4 DEF Track
<1>2. X = [t \in DOMAIN m.tracks |-> X[t]]
  OBVIOUS
<1>3. IsManager(n, time)
  <2>1. Put(m.controls, id, name) \in Maps(Ids, Names)
    BY ManagerFacts, PutInMap
  <2> QED BY <2>1, WithControls
<1>4. n.tracks = m.tracks
  BY DEF IsManager, Managers
<1>5. InsertTimecodeControl(m, id, name, courses) = [n EXCEPT !.tracks = X]
  BY DEF InsertTimecodeControl, IsManager, Managers
<1> HIDE DEF X, n
<1> QED BY <1>1, <1>2, <1>3, <1>4, <1>5, TracksChange

\* A new control takes the next id.
LEMMA AddTimecodeControlKeeps ==
  ASSUME NEW time \in Nat, NEW m, IsManager(m, time), NEW name \in Names, m.nextControl <= MaxId
  PROVE  IsManager(AddTimecodeControl(m, name), time)
<1> DEFINE n == InsertTimecodeControl(m, m.nextControl, name, NoEntries)
<1>1. MaxId \in Nat /\ m.nextControl \in Ids
  BY ManagerFacts, BoundsAssumption DEF Ids
<1>2. NoEntries \in Courses
  BY MapFacts DEF Courses
<1>3. IsManager(n, time)
  BY <1>1, <1>2, InsertTimecodeControlKeeps
<1>4. n.nextControl = m.nextControl
  BY DEF InsertTimecodeControl, IsManager, Managers
<1>5. AddTimecodeControl(m, name) = [n EXCEPT !.nextControl = n.nextControl + 1]
  BY DEF AddTimecodeControl
<1>6. n.nextControl + 1 \in 1 .. MaxId + 1
  BY <1>1, <1>4 DEF Ids
<1> HIDE DEF n
<1> QED BY <1>3, <1>5, <1>6 DEF IsManager, Managers

\* A control is removed with its courses.
LEMMA RemoveTimecodeControlKeeps ==
  ASSUME NEW time \in Nat, NEW m, IsManager(m, time), NEW id
  PROVE  IsManager(RemoveTimecodeControl(m, id), time)
<1> DEFINE X == [t \in DOMAIN m.tracks |-> [m.tracks[t] EXCEPT !.values = Drop(@, id)]]
           n == [m EXCEPT !.controls = Drop(m.controls, id)]
<1>1. ASSUME NEW t \in DOMAIN m.tracks PROVE X[t] \in Track
  <2>1. m.tracks[t] \in Track
    BY ManagerFacts
  <2>2. Drop(m.tracks[t].values, id) \in Courses
    BY <2>1, TrackFacts, DropFromMap DEF Courses
  <2>3. X[t] = [m.tracks[t] EXCEPT !.values = Drop(m.tracks[t].values, id)]
    OBVIOUS
  <2> HIDE DEF X
  <2> QED BY <2>1, <2>2, <2>3 DEF Track
<1>2. X = [t \in DOMAIN m.tracks |-> X[t]]
  OBVIOUS
<1>3. IsManager(n, time)
  <2>1. Drop(m.controls, id) \in Maps(Ids, Names)
    BY ManagerFacts, DropFromMap
  <2> QED BY <2>1, WithControls
<1>4. n.tracks = m.tracks
  BY DEF IsManager, Managers
<1>5. RemoveTimecodeControl(m, id) = [n EXCEPT !.tracks = X]
  BY DEF RemoveTimecodeControl, IsManager, Managers
<1> HIDE DEF X, n
<1> QED BY <1>1, <1>2, <1>3, <1>4, <1>5, TracksChange

\* What is loaded stands still; ids go on above those of the project.
LEMMA LoadTimecodesKeeps ==
  ASSUME NEW time \in Nat, NEW tracks \in Maps(Ids, Track), NEW controls \in Maps(Ids, Names)
  PROVE  /\ IsManager(LoadTimecodes(EmptyManager, tracks, controls), time)
         /\ \A t \in DOMAIN tracks : t < LoadTimecodes(EmptyManager, tracks, controls).nextTrack
         /\ \A c \in DOMAIN controls : c < LoadTimecodes(EmptyManager, tracks, controls).nextControl
<1> DEFINE n == LoadTimecodes(EmptyManager, tracks, controls)
           S == [t \in DOMAIN tracks |-> Stopped]
<1>1. DOMAIN tracks \subseteq Ids /\ DOMAIN controls \subseteq Ids
  BY MapFacts
<1>2. /\ Highest(DOMAIN tracks) \in 0 .. MaxId /\ Highest(DOMAIN controls) \in 0 .. MaxId
      /\ \A t \in DOMAIN tracks : t <= Highest(DOMAIN tracks)
      /\ \A c \in DOMAIN controls : c <= Highest(DOMAIN controls)
  BY <1>1, HighestBounds
<1>3. S \in Maps(Ids, State)
  <2>1. S \in [DOMAIN tracks -> State]
    BY StoppedIsState
  <2> HIDE DEF S
  <2> QED BY <1>1, <2>1, MapFacts
<1>4. n = [tracks |-> tracks, controls |-> controls, nextTrack |-> Highest(DOMAIN tracks) + 1,
           nextControl |-> Highest(DOMAIN controls) + 1, states |-> S, recording |-> {}]
  <2>1. DOMAIN EmptyManager.states \cup DOMAIN tracks = DOMAIN tracks
    BY DEF EmptyManager, NoEntries
  <2>2. [t \in DOMAIN EmptyManager.states \cup DOMAIN tracks |->
           IF t \in DOMAIN tracks THEN Stopped ELSE EmptyManager.states[t]] = S
    BY <2>1
  <2> HIDE DEF S
  <2>3. n = [EmptyManager EXCEPT !.tracks = tracks, !.controls = controls, !.states = S,
               !.nextTrack = Highest(DOMAIN tracks) + 1,
               !.nextControl = Highest(DOMAIN controls) + 1]
    BY <2>2 DEF LoadTimecodes
  <2> QED BY <2>3 DEF EmptyManager
<1>5. /\ n.tracks = tracks /\ n.controls = controls /\ n.states = S /\ n.recording = {}
      /\ n.nextTrack = Highest(DOMAIN tracks) + 1
      /\ n.nextControl = Highest(DOMAIN controls) + 1
  BY <1>4
<1>6. MaxId \in Nat
  BY BoundsAssumption
<1>7. n \in Managers
  <2> HIDE DEF n, S
  <2>1. Highest(DOMAIN tracks) + 1 \in 1 .. MaxId + 1 /\ Highest(DOMAIN controls) + 1 \in 1 .. MaxId + 1
    BY <1>2, <1>6
  <2> QED BY <1>3, <1>4, <2>1 DEF Managers
<1>8. DOMAIN S = DOMAIN tracks /\ \A t \in DOMAIN S : S[t].start <= time
  BY StoppedIsState
<1>9. /\ \A t \in DOMAIN tracks : t < n.nextTrack
      /\ \A c \in DOMAIN controls : c < n.nextControl
  <2> HIDE DEF n
  <2>1. DOMAIN tracks \subseteq Int /\ DOMAIN controls \subseteq Int
    BY <1>1 DEF Ids
  <2> QED BY <1>2, <1>5, <1>6, <2>1
<1> HIDE DEF n, S
<1> QED BY <1>5, <1>7, <1>8, <1>9 DEF IsManager, n

\* A state is replaced, for a track that has one.
LEMMA SetStateKeeps ==
  ASSUME NEW time \in Nat, NEW m, IsManager(m, time), NEW id, NEW state \in State,
         state.start <= time
  PROVE  IsManager(SetState(m, id, state), time)
<1>1. CASE id \in DOMAIN m.states
  <2> DEFINE X == [m.states EXCEPT ![id] = state]
  <2>1. DOMAIN m.states \in SUBSET Ids /\ \A t \in DOMAIN m.states : m.states[t] \in State
    BY ManagerFacts
  <2>2. m.states = [t \in DOMAIN m.states |-> m.states[t]]
    BY ManagerFacts, MapFacts
  <2>3. X \in [DOMAIN m.states -> State] /\ DOMAIN X = DOMAIN m.states
    BY <2>1, <2>2
  <2>4. \A t \in DOMAIN X : X[t].start <= time
    BY <2>3 DEF IsManager
  <2>5. SetState(m, id, state) = [m EXCEPT !.states = X]
    BY <1>1 DEF SetState
  <2> HIDE DEF X
  <2>6. X \in Maps(Ids, State)
    BY <2>1, <2>3, MapFacts
  <2> QED BY <2>3, <2>4, <2>5, <2>6, WithStates
<1>2. CASE id \notin DOMAIN m.states
  BY <1>2 DEF SetState
<1> QED BY <1>1, <1>2

\* A started track plays from now on, from where it stands.
LEMMA StartTrackKeeps ==
  ASSUME now \in Nat, NEW m, IsManager(m, now), NEW id
  PROVE  IsManager(StartTrack(m, id), now)
<1>1. CASE id \in DOMAIN m.states
  <2> DEFINE state == [playing |-> TRUE, start |-> now, timestamp |-> m.states[id].timestamp]
  <2>1. m.states[id] \in State
    BY <1>1, ManagerFacts
  <2>2. state \in State /\ state.start <= now
    <3>1. m.states[id].timestamp \in Nat
      BY <2>1 DEF State
    <3>2. state.playing = TRUE /\ state \in [playing : BOOLEAN, start : Int, timestamp : Nat]
      BY <3>1
    <3>3. state.start <= now
      OBVIOUS
    <3> HIDE DEF state
    <3> QED BY <3>2, <3>3 DEF State
  <2>3. StartTrack(m, id) = SetState(m, id, state)
    BY <1>1 DEF StartTrack
  <2> HIDE DEF state
  <2> QED BY <2>2, <2>3, SetStateKeeps
<1>2. CASE id \notin DOMAIN m.states
  BY <1>2 DEF StartTrack
<1> QED BY <1>1, <1>2

\* A stopped track stands still at zero.
LEMMA StopTrackKeeps ==
  ASSUME now \in Nat, NEW m, IsManager(m, now), NEW id
  PROVE  IsManager(StopTrack(m, id), now)
<1>1. Stopped \in State /\ Stopped.start <= now
  BY StoppedIsState
<1> QED BY <1>1, SetStateKeeps DEF StopTrack

\* A track that is set to a time plays as if it had started that long ago.
LEMMA WriteTimestampKeeps ==
  ASSUME now \in Nat, NEW m, IsManager(m, now), NEW id, NEW time \in Nat
  PROVE  IsManager(WriteTimestamp(m, id, time), now)
<1> DEFINE state == [playing |-> TRUE, start |-> now - time, timestamp |-> time]
<1>1. state \in State
  BY DEF State
<1>2. state.start <= now
  OBVIOUS
<1>3. WriteTimestamp(m, id, time) = SetState(m, id, state)
  BY DEF WriteTimestamp
<1> HIDE DEF state
<1> QED BY <1>1, <1>2, <1>3, SetStateKeeps

\* Which tracks record, among those with a state.
LEMMA WithRecording ==
  ASSUME NEW time, NEW m, IsManager(m, time), NEW R, R \subseteq DOMAIN m.states
  PROVE  IsManager([m EXCEPT !.recording = R], time)
<1>1. R \subseteq Ids
  BY ManagerFacts
<1> QED BY <1>1 DEF IsManager, Managers

\* A value is recorded into the course of a control, in each of the tracks ids;
\* what the courses hold of before its time stays.
LEMMA RecordIntoKeeps ==
  ASSUME now \in Nat, NEW m, IsManager(m, now), NEW ids, ids \subseteq DOMAIN m.states,
         NEW control, NEW value \in Nat
  PROVE  /\ IsManager(RecordInto(m, ids, control, value), now)
         /\ DOMAIN RecordInto(m, ids, control, value).tracks = DOMAIN m.tracks
         /\ \A t \in DOMAIN m.tracks :
              LET old == m.tracks[t].values
                  new == RecordInto(m, ids, control, value).tracks[t].values
              IN  \A c \in DOMAIN old : \A n \in DOMAIN old[c] :
                    old[c][n].x < now - m.states[t].start =>
                      n \in DOMAIN new[c] /\ new[c][n] = old[c][n]
<1> DEFINE New(t) == [m.tracks[t] EXCEPT !.values[control] =
                        AddSimpleStep(@, now - m.states[t].start, value)]
           Changed(t) == t \in ids /\ control \in DOMAIN m.tracks[t].values
           X == [t \in DOMAIN m.tracks |-> IF Changed(t) THEN New(t) ELSE m.tracks[t]]
<1>1. ASSUME NEW t \in DOMAIN m.tracks
      PROVE  /\ X[t] \in Track
             /\ \A c \in DOMAIN m.tracks[t].values : \A n \in DOMAIN m.tracks[t].values[c] :
                  m.tracks[t].values[c][n].x < now - m.states[t].start =>
                    /\ n \in DOMAIN X[t].values[c]
                    /\ X[t].values[c][n] = m.tracks[t].values[c][n]
  <2>1. m.tracks[t] \in Track
    BY ManagerFacts
  <2>2. CASE ~Changed(t)
    BY <2>1, <2>2
  <2>3. CASE Changed(t)
    <3> DEFINE values == m.tracks[t].values
               x == now - m.states[t].start
               new == [values EXCEPT ![control] = AddSimpleStep(values[control], x, value)]
    <3>1. /\ values \in Courses /\ values = [c \in DOMAIN values |-> values[c]]
          /\ DOMAIN values \subseteq Ids /\ \A c \in DOMAIN values : values[c] \in Course
      BY <2>1, TrackFacts, MapFacts DEF Courses
    <3>2. x \in Nat
      <4>1. t \in DOMAIN m.states /\ m.states[t].start <= now
        BY <2>3 DEF IsManager
      <4>2. m.states[t].start \in Int
        BY <4>1, ManagerFacts DEF State
      <4> QED BY <4>1, <4>2
    <3>3. control \in DOMAIN values
      BY <2>3
    <3>4. X[t] = [m.tracks[t] EXCEPT !.values = new]
      BY <2>3
    <3> HIDE DEF values, x, X, Changed
    <3>5. /\ AddSimpleStep(values[control], x, value) \in Course
          /\ \A n \in DOMAIN values[control] : values[control][n].x < x =>
               /\ n \in DOMAIN AddSimpleStep(values[control], x, value)
               /\ AddSimpleStep(values[control], x, value)[n] = values[control][n]
      BY <3>1, <3>2, <3>3, AddedStep
    <3>6. /\ new \in [DOMAIN values -> Course]
          /\ \A c \in DOMAIN values : new[c] =
               IF c = control THEN AddSimpleStep(values[control], x, value) ELSE values[c]
      BY <3>1, <3>3, <3>5
    <3> HIDE DEF new
    <3>7. new \in Courses
      BY <3>1, <3>6, MapFacts DEF Courses
    <3>8. X[t] \in Track /\ X[t].values = new
      BY <2>1, <3>4, <3>7 DEF Track
    <3>9. \A c \in DOMAIN values : \A n \in DOMAIN values[c] :
            values[c][n].x < x => n \in DOMAIN new[c] /\ new[c][n] = values[c][n]
      BY <3>5, <3>6
    <3> QED BY <3>8, <3>9 DEF values, x
  <2> QED BY <2>2, <2>3
<1>2. X = [t \in DOMAIN m.tracks |-> X[t]] /\ DOMAIN X = DOMAIN m.tracks
  OBVIOUS
<1>3. RecordInto(m, ids, control, value) = [m EXCEPT !.tracks = X]
  BY DEF RecordInto
<1> HIDE DEF X
<1>4. IsManager([m EXCEPT !.tracks = X], now)
  BY <1>1, <1>2, TracksChange
<1>5. RecordInto(m, ids, control, value).tracks = X
  BY <1>3 DEF IsManager, Managers
<1>6. IsManager(RecordInto(m, ids, control, value), now)
  BY <1>3, <1>4
<1> HIDE DEF RecordInto
<1> QED BY <1>1, <1>2, <1>5, <1>6

\* A frame moves the tracks that play to its time.
LEMMA AdvanceTimecodesKeeps ==
  ASSUME NEW time \in Nat, NEW later \in Nat, time <= later, NEW m, IsManager(m, time)
  PROVE  IsManager(AdvanceTimecodes(m, later), later)
<1> DEFINE X == [t \in DOMAIN m.states |->
                   LET state == m.states[t]
                   IN  IF state.playing THEN [state EXCEPT !.timestamp = later - state.start]
                       ELSE state]
<1>1. ASSUME NEW t \in DOMAIN m.states PROVE X[t] \in State /\ X[t].start <= later
  <2>1. m.states[t] \in State /\ m.states[t].start <= time
    BY ManagerFacts DEF IsManager
  <2>2. CASE m.states[t].playing
    <3> DEFINE state == m.states[t]
               new == [state EXCEPT !.timestamp = later - state.start]
    <3>1. state \in State /\ state.start <= time /\ state.playing = TRUE
      BY <2>1, <2>2 DEF State
    <3>2. X[t] = new
      BY <2>2
    <3> HIDE DEF X, state
    <3>3. later - state.start \in Nat
      BY <3>1 DEF State
    <3>4. new \in State /\ new.start = state.start
      BY <3>1, <3>3 DEF State
    <3>5. state.start \in Int
      BY <3>1 DEF State
    <3> QED BY <3>1, <3>2, <3>4, <3>5
  <2>3. CASE ~m.states[t].playing
    <3>1. X[t] = m.states[t] /\ m.states[t].start \in Int
      BY <2>1, <2>3 DEF State
    <3> QED BY <2>1, <3>1
  <2> QED BY <2>2, <2>3
<1>2. X \in [DOMAIN m.states -> State] /\ DOMAIN X = DOMAIN m.states
  BY <1>1
<1>3. AdvanceTimecodes(m, later) = [m EXCEPT !.states = X]
  BY DEF AdvanceTimecodes
<1> HIDE DEF X
<1>4. X \in Maps(Ids, State)
  BY <1>2, ManagerFacts, MapFacts
<1> QED BY <1>1, <1>2, <1>3, <1>4, WithStates

-----------------------------------------------------------------------------
(* Commands *)

\* What an operation does to the ids: those of tracks and those of controls.
IdsAre(n, tracks, controls, nextTrack, nextControl) ==
  /\ DOMAIN n.tracks \subseteq tracks /\ DOMAIN n.controls \subseteq controls
  /\ n.nextTrack = nextTrack /\ n.nextControl = nextControl

\* The ids that the operations of the manager leave and give.
LEMMA IdsOfOperations ==
  ASSUME NEW time, NEW m, IsManager(m, time), NEW id, NEW name, NEW track, NEW courses
  PROVE  /\ IdsAre(InsertTimecode(m, id, track), DOMAIN m.tracks \cup {id}, DOMAIN m.controls,
                   m.nextTrack, m.nextControl)
         /\ IdsAre(AddTimecode(m, name), DOMAIN m.tracks \cup {m.nextTrack}, DOMAIN m.controls,
                   m.nextTrack + 1, m.nextControl)
         /\ IdsAre(RemoveTimecode(m, id), DOMAIN m.tracks, DOMAIN m.controls,
                   m.nextTrack, m.nextControl)
         /\ IdsAre(RenameTimecode(m, id, name), DOMAIN m.tracks, DOMAIN m.controls,
                   m.nextTrack, m.nextControl)
         /\ IdsAre(InsertTimecodeControl(m, id, name, courses), DOMAIN m.tracks,
                   DOMAIN m.controls \cup {id}, m.nextTrack, m.nextControl)
         /\ IdsAre(AddTimecodeControl(m, name), DOMAIN m.tracks,
                   DOMAIN m.controls \cup {m.nextControl}, m.nextTrack, m.nextControl + 1)
         /\ IdsAre(RemoveTimecodeControl(m, id), DOMAIN m.tracks, DOMAIN m.controls,
                   m.nextTrack, m.nextControl)
         /\ IdsAre(RenameTimecodeControl(m, id, name), DOMAIN m.tracks, DOMAIN m.controls,
                   m.nextTrack, m.nextControl)
<1> USE DEF IsManager, Managers, IdsAre, Put, Drop
<1>1. IdsAre(InsertTimecode(m, id, track), DOMAIN m.tracks \cup {id}, DOMAIN m.controls,
             m.nextTrack, m.nextControl)
  BY DEF InsertTimecode
<1>2. IdsAre(AddTimecode(m, name), DOMAIN m.tracks \cup {m.nextTrack}, DOMAIN m.controls,
             m.nextTrack + 1, m.nextControl)
  BY DEF AddTimecode, InsertTimecode
<1>3. IdsAre(RemoveTimecode(m, id), DOMAIN m.tracks, DOMAIN m.controls,
             m.nextTrack, m.nextControl)
  BY DEF RemoveTimecode
<1>4. IdsAre(RenameTimecode(m, id, name), DOMAIN m.tracks, DOMAIN m.controls,
             m.nextTrack, m.nextControl)
  BY DEF RenameTimecode
<1>5. IdsAre(InsertTimecodeControl(m, id, name, courses), DOMAIN m.tracks,
             DOMAIN m.controls \cup {id}, m.nextTrack, m.nextControl)
  BY DEF InsertTimecodeControl
<1>6. IdsAre(AddTimecodeControl(m, name), DOMAIN m.tracks,
             DOMAIN m.controls \cup {m.nextControl}, m.nextTrack, m.nextControl + 1)
  BY DEF AddTimecodeControl, InsertTimecodeControl
<1>7. IdsAre(RemoveTimecodeControl(m, id), DOMAIN m.tracks, DOMAIN m.controls,
             m.nextTrack, m.nextControl)
  BY DEF RemoveTimecodeControl
<1>8. IdsAre(RenameTimecodeControl(m, id, name), DOMAIN m.tracks, DOMAIN m.controls,
             m.nextTrack, m.nextControl)
  BY DEF RenameTimecodeControl
<1> QED BY <1>1, <1>2, <1>3, <1>4, <1>5, <1>6, <1>7, <1>8

\* Ids are never taken back.
GoesOn(m, n) == m.nextTrack <= n.nextTrack /\ m.nextControl <= n.nextControl

\* Ids that go on leave given what was given.
LEMMA GivenStays ==
  ASSUME NEW time, NEW later, NEW m, IsManager(m, time), NEW n, IsManager(n, later), GoesOn(m, n),
         NEW c, NEW s \in Mementos, Given(m, c, s)
  PROVE  Given(n, c, s)
<1>1. m.nextTrack \in Int /\ m.nextControl \in Int /\ n.nextTrack \in Int /\ n.nextControl \in Int
  BY ManagerFacts, BoundsAssumption
<1>2. s.id \in Int
  BY DEF Mementos, Ids
<1> QED BY <1>1, <1>2 DEF Given, GoesOn

\* An operation that gives at most the next id leaves ids fresh.
LEMMA FreshAfter ==
  ASSUME NEW time, NEW m, IsManager(m, time), NEW n, NEW T, NEW C,
         NEW p \in Int, NEW q \in Int, m.nextTrack <= p, m.nextControl <= q,
         IdsAre(n, T, C, p, q),
         Fresh(m) => (\A t \in T : t < p) /\ (\A c \in C : c < q)
  PROVE  GoesOn(m, n) /\ (Fresh(m) => Fresh(n))
<1>1. GoesOn(m, n)
  BY DEF IdsAre, GoesOn
<1>2. ASSUME Fresh(m) PROVE Fresh(n)
  BY <1>2 DEF IdsAre, Fresh
<1> QED BY <1>1, <1>2

\* A command of each kind names what it needs.
LEMMA CommandFacts ==
  ASSUME NEW c \in Commands
  PROVE  /\ c.op \in {"addTrack", "addControl", "deleteTrack", "deleteControl",
                      "renameTrack", "renameControl"}
         /\ c.op \in {"addTrack", "addControl", "renameTrack", "renameControl"} => c.name \in Names
         /\ c.op \in {"deleteTrack", "deleteControl", "renameTrack", "renameControl"} => c.id \in Ids
BY DEF Commands

\* A command keeps the manager a manager and leaves what its undo needs.
LEMMA ApplyKeeps ==
  ASSUME NEW time \in Nat, NEW m, IsManager(m, time), NEW c \in Commands, Applies(m, c),
         m.nextTrack <= MaxId, m.nextControl <= MaxId
  PROVE  /\ IsManager(Apply(m, c), time) /\ GoesOn(m, Apply(m, c))
         /\ StateOf(m, c) \in Mementos
         /\ Fresh(m) => Fresh(Apply(m, c)) /\ Given(Apply(m, c), c, StateOf(m, c))
<1> DEFINE n == Apply(m, c)
           s == StateOf(m, c)
<1>1. MaxId \in Nat /\ m.nextTrack \in Ids /\ m.nextControl \in Ids
  BY ManagerFacts, BoundsAssumption DEF Ids
<1>2. m.nextTrack \in Int /\ m.nextControl \in Int
  BY <1>1 DEF Ids
<1>3. NoCourses \in Courses
  BY MapFacts DEF Courses, NoCourses
<1>4. \A i \in Ids, name \in Names, v \in Courses :
        Memento(i, name, v) \in Mementos /\ Memento(i, name, v).id = i
  BY DEF Memento, Mementos
<1>5. DOMAIN m.tracks \subseteq Int /\ DOMAIN m.controls \subseteq Int
  BY ManagerFacts DEF Ids
<1>6. CASE c.op = "addTrack"
  <2>1. n = AddTimecode(m, c.name) /\ s = Memento(m.nextTrack, c.name, NoCourses) /\ c.name \in Names
    BY <1>6, CommandFacts DEF Apply, StateOf
  <2>2. IsManager(n, time)
    BY <2>1, AddTimecodeKeeps
  <2>3. IdsAre(n, DOMAIN m.tracks \cup {m.nextTrack}, DOMAIN m.controls, m.nextTrack + 1, m.nextControl)
    BY <2>1, IdsOfOperations
  <2>4. Fresh(m) => (\A t \in DOMAIN m.tracks \cup {m.nextTrack} : t < m.nextTrack + 1)
                    /\ \A x \in DOMAIN m.controls : x < m.nextControl
    BY <1>2, <1>5 DEF Fresh
  <2>5. GoesOn(m, n) /\ (Fresh(m) => Fresh(n))
    <3> HIDE DEF n
    <3>1. m.nextTrack + 1 \in Int /\ m.nextTrack <= m.nextTrack + 1
      BY <1>2
    <3>2. m.nextControl + 1 \in Int /\ m.nextControl <= m.nextControl + 1 /\ m.nextControl <= m.nextControl
      BY <1>2
    <3> QED BY <1>2, <2>3, <2>4, <3>1, <3>2, FreshAfter
  <2>6. s \in Mementos /\ Given(n, c, s)
    BY <1>1, <1>2, <1>3, <1>4, <1>6, <2>1, <2>3 DEF Given, IdsAre, AboutTrack
  <2> QED BY <2>2, <2>5, <2>6
<1>7. CASE c.op = "addControl"
  <2>1. n = AddTimecodeControl(m, c.name) /\ s = Memento(m.nextControl, c.name, NoCourses) /\ c.name \in Names
    BY <1>7, CommandFacts DEF Apply, StateOf
  <2>2. IsManager(n, time)
    BY <2>1, AddTimecodeControlKeeps
  <2>3. IdsAre(n, DOMAIN m.tracks, DOMAIN m.controls \cup {m.nextControl}, m.nextTrack, m.nextControl + 1)
    BY <2>1, IdsOfOperations
  <2>4. Fresh(m) => (\A t \in DOMAIN m.tracks : t < m.nextTrack)
                    /\ \A x \in DOMAIN m.controls \cup {m.nextControl} : x < m.nextControl + 1
    BY <1>2, <1>5 DEF Fresh
  <2>5. GoesOn(m, n) /\ (Fresh(m) => Fresh(n))
    <3> HIDE DEF n
    <3>1. m.nextTrack + 1 \in Int /\ m.nextTrack <= m.nextTrack + 1
      BY <1>2
    <3>2. m.nextControl + 1 \in Int /\ m.nextControl <= m.nextControl + 1 /\ m.nextControl <= m.nextControl
      BY <1>2
    <3> QED BY <1>2, <2>3, <2>4, <3>1, <3>2, FreshAfter
  <2>6. s \in Mementos /\ Given(n, c, s)
    BY <1>1, <1>2, <1>3, <1>4, <1>7, <2>1, <2>3 DEF Given, IdsAre, AboutTrack
  <2> QED BY <2>2, <2>5, <2>6
<1>8. CASE c.op \in {"deleteTrack", "renameTrack"}
  <2>1. c.id \in DOMAIN m.tracks /\ c.id \in Ids
    BY <1>8, CommandFacts DEF Applies
  <2>2. m.tracks[c.id].name \in Names /\ m.tracks[c.id].values \in Courses
    BY <2>1, ManagerFacts, TrackFacts
  <2>3. /\ IsManager(n, time)
        /\ IdsAre(n, DOMAIN m.tracks, DOMAIN m.controls, m.nextTrack, m.nextControl)
    <3>1. CASE c.op = "deleteTrack"
      <4>1. n = RemoveTimecode(m, c.id)
        BY <3>1 DEF Apply
      <4> QED BY <4>1, RemoveTimecodeKeeps, IdsOfOperations
    <3>2. CASE c.op = "renameTrack"
      <4>1. n = RenameTimecode(m, c.id, c.name) /\ c.name \in Names
        BY <3>2, CommandFacts DEF Apply
      <4> QED BY <4>1, <2>1, RenameTimecodeKeeps, IdsOfOperations
    <3> QED BY <1>8, <3>1, <3>2
  <2>4. s \in Mementos /\ s.id = c.id
    <3>1. CASE c.op = "deleteTrack"
      <4>1. s = Memento(c.id, m.tracks[c.id].name, m.tracks[c.id].values)
        BY <3>1 DEF StateOf
      <4> QED BY <4>1, <1>4, <2>1, <2>2
    <3>2. CASE c.op = "renameTrack"
      <4>1. s = Memento(c.id, m.tracks[c.id].name, NoCourses)
        BY <3>2 DEF StateOf
      <4> QED BY <4>1, <1>3, <1>4, <2>1, <2>2
    <3> QED BY <1>8, <3>1, <3>2
  <2>5. GoesOn(m, n) /\ (Fresh(m) => Fresh(n))
    <3> HIDE DEF n
    <3> QED BY <1>2, <2>3, FreshAfter DEF Fresh
  <2>6. Fresh(m) => Given(n, c, s)
    <3> HIDE DEF n, s
    <3> QED BY <1>8, <2>1, <2>3, <2>4 DEF Given, IdsAre, AboutTrack, Fresh
  <2> QED BY <2>3, <2>4, <2>5, <2>6
<1>9. CASE c.op \in {"deleteControl", "renameControl"}
  <2>1. c.id \in DOMAIN m.controls /\ c.id \in Ids
    BY <1>9, CommandFacts DEF Applies
  <2>2. m.controls[c.id] \in Names
    BY <2>1, ManagerFacts
  <2>3. /\ IsManager(n, time)
        /\ IdsAre(n, DOMAIN m.tracks, DOMAIN m.controls, m.nextTrack, m.nextControl)
    <3>1. CASE c.op = "deleteControl"
      <4>1. n = RemoveTimecodeControl(m, c.id)
        BY <3>1 DEF Apply
      <4> QED BY <4>1, RemoveTimecodeControlKeeps, IdsOfOperations
    <3>2. CASE c.op = "renameControl"
      <4>1. n = RenameTimecodeControl(m, c.id, c.name) /\ c.name \in Names
        BY <3>2, CommandFacts DEF Apply
      <4> QED BY <4>1, <2>1, RenameTimecodeControlKeeps, IdsOfOperations
    <3> QED BY <1>9, <3>1, <3>2
  <2>4. s \in Mementos /\ s.id = c.id
    <3>1. CASE c.op = "deleteControl"
      <4>1. s = Memento(c.id, m.controls[c.id], CoursesOf(m, c.id))
        BY <3>1 DEF StateOf
      <4>2. CoursesOf(m, c.id) \in Courses
        <5> DEFINE T == {t \in DOMAIN m.tracks : c.id \in DOMAIN m.tracks[t].values}
        <5>1. T \in SUBSET Ids
          BY ManagerFacts
        <5>2. \A t \in T : m.tracks[t].values[c.id] \in Course
          BY ManagerFacts, TrackFacts
        <5>3. CoursesOf(m, c.id) \in [T -> Course]
          BY <5>2 DEF CoursesOf
        <5> HIDE DEF T
        <5> QED BY <5>1, <5>3, MapFacts DEF Courses
      <4> QED BY <4>1, <4>2, <1>4, <2>1, <2>2
    <3>2. CASE c.op = "renameControl"
      <4>1. s = Memento(c.id, m.controls[c.id], NoCourses)
        BY <3>2 DEF StateOf
      <4> QED BY <4>1, <1>3, <1>4, <2>1, <2>2
    <3> QED BY <1>9, <3>1, <3>2
  <2>5. GoesOn(m, n) /\ (Fresh(m) => Fresh(n))
    <3> HIDE DEF n
    <3> QED BY <1>2, <2>3, FreshAfter DEF Fresh
  <2>6. Fresh(m) => Given(n, c, s)
    <3> HIDE DEF n, s
    <3> QED BY <1>9, <2>1, <2>3, <2>4 DEF Given, IdsAre, AboutTrack, Fresh
  <2> QED BY <2>3, <2>4, <2>5, <2>6
<1>10. c.op \in {"addTrack", "addControl", "deleteTrack", "deleteControl", "renameTrack", "renameControl"}
  BY CommandFacts
<1> HIDE DEF n, s
<1> QED BY <1>6, <1>7, <1>8, <1>9, <1>10

\* What undoing a command leaves, whatever the manager has become meanwhile.
LEMMA RevertKeeps ==
  ASSUME NEW time \in Nat, NEW m, IsManager(m, time), NEW c \in Commands, NEW s \in Mementos
  PROVE  /\ IsManager(Revert(m, c, s), time) /\ GoesOn(m, Revert(m, c, s))
         /\ Fresh(m) /\ Given(m, c, s) => Fresh(Revert(m, c, s))
<1> DEFINE n == Revert(m, c, s)
<1>1. m.nextTrack \in Int /\ m.nextControl \in Int
  BY ManagerFacts, BoundsAssumption
<1>2. s.id \in Ids /\ s.name \in Names /\ s.values \in Courses
  BY DEF Mementos
<1>3. CASE n = m
  BY <1>1, <1>3 DEF GoesOn
<1>4. ASSUME IdsAre(n, DOMAIN m.tracks, DOMAIN m.controls, m.nextTrack, m.nextControl)
      PROVE  GoesOn(m, n) /\ (Fresh(m) => Fresh(n))
  <2> HIDE DEF n
  <2> QED BY <1>1, <1>4, FreshAfter DEF Fresh
<1>5. CASE c.op = "addTrack"
  <2>1. n = RemoveTimecode(m, s.id)
    BY <1>5 DEF Revert
  <2> QED BY <2>1, <1>4, RemoveTimecodeKeeps, IdsOfOperations
<1>6. CASE c.op = "addControl"
  <2>1. n = RemoveTimecodeControl(m, s.id)
    BY <1>6 DEF Revert
  <2> QED BY <2>1, <1>4, RemoveTimecodeControlKeeps, IdsOfOperations
<1>7. CASE c.op = "deleteTrack"
  <2> DEFINE track == [name |-> s.name, values |-> s.values]
  <2>1. n = InsertTimecode(m, s.id, track)
    BY <1>7 DEF Revert
  <2>2. track \in Track
    BY <1>2 DEF Track
  <2> HIDE DEF track
  <2>3. IsManager(n, time)
    BY <1>2, <2>1, <2>2, InsertTimecodeKeeps
  <2>4. IdsAre(n, DOMAIN m.tracks \cup {s.id}, DOMAIN m.controls, m.nextTrack, m.nextControl)
    BY <2>1, IdsOfOperations
  <2>5. Given(m, c, s) => s.id < m.nextTrack
    BY <1>7 DEF Given, AboutTrack
  <2> HIDE DEF n
  <2>6. GoesOn(m, n) /\ (Fresh(m) /\ Given(m, c, s) => Fresh(n))
    BY <1>1, <2>4, <2>5 DEF IdsAre, GoesOn, Fresh
  <2> QED BY <2>3, <2>6 DEF n
<1>8. CASE c.op = "deleteControl"
  <2>1. n = InsertTimecodeControl(m, s.id, s.name, s.values)
    BY <1>8 DEF Revert
  <2>2. IsManager(n, time)
    BY <1>2, <2>1, InsertTimecodeControlKeeps
  <2>3. IdsAre(n, DOMAIN m.tracks, DOMAIN m.controls \cup {s.id}, m.nextTrack, m.nextControl)
    BY <2>1, IdsOfOperations
  <2>4. Given(m, c, s) => s.id < m.nextControl
    BY <1>8 DEF Given, AboutTrack
  <2> HIDE DEF n
  <2>5. GoesOn(m, n) /\ (Fresh(m) /\ Given(m, c, s) => Fresh(n))
    BY <1>1, <2>3, <2>4 DEF IdsAre, GoesOn, Fresh
  <2> QED BY <2>2, <2>5 DEF n
<1>9. CASE c.op = "renameTrack" /\ s.id \in DOMAIN m.tracks
  <2>1. n = RenameTimecode(m, s.id, s.name)
    BY <1>9 DEF Revert
  <2> QED BY <1>2, <1>9, <2>1, <1>4, RenameTimecodeKeeps, IdsOfOperations
<1>10. CASE c.op = "renameControl" /\ s.id \in DOMAIN m.controls
  <2>1. n = RenameTimecodeControl(m, s.id, s.name)
    BY <1>10 DEF Revert
  <2> QED BY <1>2, <1>10, <2>1, <1>4, RenameTimecodeControlKeeps, IdsOfOperations
<1>11. CASE \/ c.op = "renameTrack" /\ s.id \notin DOMAIN m.tracks
            \/ c.op = "renameControl" /\ s.id \notin DOMAIN m.controls
  <2>1. n = m
    BY <1>11 DEF Revert
  <2> QED BY <1>3, <2>1
<1>12. c.op \in {"addTrack", "addControl", "deleteTrack", "deleteControl", "renameTrack", "renameControl"}
  BY CommandFacts
<1> HIDE DEF n
<1> QED BY <1>5, <1>6, <1>7, <1>8, <1>9, <1>10, <1>11, <1>12

-----------------------------------------------------------------------------
(* The history *)

\* What was given stays given, for every entry of a sequence.
LEMMA AllGivenStays ==
  ASSUME NEW time, NEW later, NEW m, IsManager(m, time), NEW n, IsManager(n, later), GoesOn(m, n),
         NEW entries \in Seq(AllEntries), AllGiven(m, entries)
  PROVE  AllGiven(n, entries)
<1>1. \A k \in 1 .. Len(entries) : entries[k].state \in Mementos
  <2>1. \A k \in 1 .. Len(entries) : entries[k] \in AllEntries
    OBVIOUS
  <2> QED BY <2>1 DEF AllEntries
<1> QED BY <1>1, GivenStays DEF AllGiven

\* An entry more, or one less at either end.
LEMMA EntriesMove ==
  ASSUME NEW m, NEW entries \in Seq(AllEntries), NEW e \in AllEntries
  PROVE  /\ Append(entries, e) \in Seq(AllEntries) /\ <<e>> \o entries \in Seq(AllEntries)
         /\ AllGiven(m, entries) /\ Given(m, e.cmd, e.state) =>
              AllGiven(m, Append(entries, e)) /\ AllGiven(m, <<e>> \o entries)
         /\ entries # <<>> =>
              /\ entries[1] \in AllEntries /\ entries[Len(entries)] \in AllEntries
              /\ SubSeq(entries, 1, Len(entries) - 1) \in Seq(AllEntries)
              /\ SubSeq(entries, 2, Len(entries)) \in Seq(AllEntries)
              /\ AllGiven(m, entries) =>
                   /\ AllGiven(m, SubSeq(entries, 1, Len(entries) - 1))
                   /\ AllGiven(m, SubSeq(entries, 2, Len(entries)))
                   /\ Given(m, entries[1].cmd, entries[1].state)
                   /\ Given(m, entries[Len(entries)].cmd, entries[Len(entries)].state)
<1>1. Append(entries, e) \in Seq(AllEntries) /\ <<e>> \o entries \in Seq(AllEntries)
  OBVIOUS
<1>2. ASSUME AllGiven(m, entries), Given(m, e.cmd, e.state)
      PROVE  AllGiven(m, Append(entries, e))
  <2>1. Len(Append(entries, e)) = Len(entries) + 1 /\ Append(entries, e)[Len(entries) + 1] = e
    OBVIOUS
  <2>2. \A k \in 1 .. Len(entries) : Append(entries, e)[k] = entries[k]
    OBVIOUS
  <2>3. Len(entries) \in Nat
    OBVIOUS
  <2> QED BY <1>2, <2>1, <2>2, <2>3 DEF AllGiven
<1>3. ASSUME AllGiven(m, entries), Given(m, e.cmd, e.state)
      PROVE  AllGiven(m, <<e>> \o entries)
  <2> DEFINE longer == <<e>> \o entries
  <2>1. Len(longer) = Len(entries) + 1 /\ longer[1] = e /\ Len(entries) \in Nat
    OBVIOUS
  <2>2. \A k \in 2 .. Len(entries) + 1 : longer[k] = entries[k - 1] /\ k - 1 \in 1 .. Len(entries)
    OBVIOUS
  <2> HIDE DEF longer
  <2>3. ASSUME NEW k \in 1 .. Len(longer) PROVE Given(m, longer[k].cmd, longer[k].state)
    <3>1. CASE k = 1
      BY <1>3, <2>1, <3>1
    <3>2. CASE k \in 2 .. Len(entries) + 1
      BY <1>3, <2>2, <3>2 DEF AllGiven
    <3> QED BY <2>1, <3>1, <3>2
  <2> QED BY <2>3 DEF AllGiven, longer
<1>4. ASSUME entries # <<>>
      PROVE  /\ entries[1] \in AllEntries /\ entries[Len(entries)] \in AllEntries
             /\ Len(entries) \in Nat /\ 1 \in 1 .. Len(entries) /\ Len(entries) \in 1 .. Len(entries)
             /\ SubSeq(entries, 1, Len(entries) - 1) \in Seq(AllEntries)
             /\ Len(SubSeq(entries, 1, Len(entries) - 1)) = Len(entries) - 1
             /\ \A k \in 1 .. Len(entries) - 1 : SubSeq(entries, 1, Len(entries) - 1)[k] = entries[k]
             /\ SubSeq(entries, 2, Len(entries)) \in Seq(AllEntries)
             /\ Len(SubSeq(entries, 2, Len(entries))) = Len(entries) - 1
             /\ \A k \in 1 .. Len(entries) - 1 : SubSeq(entries, 2, Len(entries))[k] = entries[k + 1]
  <2> DEFINE l == Len(entries)
  <2>1. /\ l \in Nat /\ 1 \in 1 .. l /\ l \in 1 .. l
        /\ \A k \in 1 .. l : entries[k] \in AllEntries
    BY <1>4
  <2>2. entries[1] \in AllEntries /\ entries[l] \in AllEntries
    BY <2>1
  <2> HIDE DEF l
  <2>3. /\ SubSeq(entries, 1, l - 1) \in Seq(AllEntries)
        /\ Len(SubSeq(entries, 1, l - 1)) = l - 1
        /\ \A k \in 1 .. l - 1 : SubSeq(entries, 1, l - 1)[k] = entries[k]
    <3>1. l - 1 \in Int /\ 1 \in Int /\ \A k \in 1 .. l - 1 : entries[k] \in AllEntries
      BY <2>1
    <3> QED BY <2>1, <3>1, SubSeqProperties
  <2>4. /\ SubSeq(entries, 2, l) \in Seq(AllEntries)
        /\ Len(SubSeq(entries, 2, l)) = l - 1
        /\ \A k \in 1 .. l - 1 : SubSeq(entries, 2, l)[k] = entries[k + 1]
    <3>1. l \in Int /\ 2 \in Int /\ \A k \in 2 .. l : entries[k] \in AllEntries
      BY <2>1
    <3> QED BY <2>1, <3>1, SubSeqProperties
  <2> QED BY <2>1, <2>2, <2>3, <2>4 DEF l
<1>5. ASSUME entries # <<>>, AllGiven(m, entries)
      PROVE  /\ AllGiven(m, SubSeq(entries, 1, Len(entries) - 1))
             /\ AllGiven(m, SubSeq(entries, 2, Len(entries)))
             /\ Given(m, entries[1].cmd, entries[1].state)
             /\ Given(m, entries[Len(entries)].cmd, entries[Len(entries)].state)
  BY <1>4, <1>5 DEF AllGiven
<1> QED BY <1>1, <1>2, <1>3, <1>4, <1>5

-----------------------------------------------------------------------------
(* The invariant *)

\* The empty manager, before anything was loaded.
LEMMA EmptyIsManager == IsManager(EmptyManager, 0) /\ Fresh(EmptyManager)
<1>1. /\ NoEntries \in Maps(Ids, Track) /\ NoEntries \in Maps(Ids, Names)
      /\ NoEntries \in Maps(Ids, State) /\ DOMAIN NoEntries = {}
  BY MapFacts
<1>2. 1 \in 1 .. MaxId + 1
  BY BoundsAssumption
<1> HIDE DEF NoEntries
<1>3. /\ EmptyManager \in Managers /\ EmptyManager.tracks = NoEntries
      /\ EmptyManager.controls = NoEntries /\ EmptyManager.states = NoEntries
      /\ EmptyManager.recording = {}
  BY <1>1, <1>2 DEF EmptyManager, Managers
<1> HIDE DEF EmptyManager
<1> QED BY <1>1, <1>3 DEF IsManager, Fresh

\* What a manager holds can be saved.
LEMMA ContentIsSaved ==
  ASSUME NEW time, NEW m, IsManager(m, time)
  PROVE  Content(m) \in Contents
BY ManagerFacts DEF Content, Contents

\* A step that leaves the history as it is keeps the invariant, if it keeps
\* the manager one and takes no id back.
LEMMA ManagerStep ==
  ASSUME IInv, IsManager(manager', now'), CountersOK', saved' \in Contents,
         GoesOn(manager, manager'), Fresh(manager) => Fresh(manager'),
         UNCHANGED <<done, undone, crossed>>
  PROVE  IInv'
<1>1. HistoryOK'
  BY DEF IInv, HistoryOK
<1>2. FreshOK'
  <2>1. ASSUME ~crossed PROVE AllGiven(manager', done) /\ AllGiven(manager', undone)
    BY <2>1, AllGivenStays DEF IInv, FreshOK, HistoryOK
  <2> QED BY <2>1 DEF IInv, FreshOK
<1> QED BY <1>1, <1>2 DEF IInv

\* An operation that keeps the ids as they are takes none back.
LEMMA SameIds ==
  ASSUME NEW time, NEW m, IsManager(m, time), NEW n, n.nextTrack = m.nextTrack,
         n.nextControl = m.nextControl, DOMAIN n.tracks = DOMAIN m.tracks, n.controls = m.controls
  PROVE  GoesOn(m, n) /\ (Fresh(m) => Fresh(n))
<1>1. m.nextTrack \in Int /\ m.nextControl \in Int
  BY ManagerFacts, BoundsAssumption
<1> QED BY <1>1 DEF GoesOn, Fresh

\* The invariant holds at first.
LEMMA InitInvariant == Init => IInv
<1> SUFFICES ASSUME Init PROVE IInv
  OBVIOUS
<1>1. IsManager(manager, now) /\ Fresh(manager)
  BY EmptyIsManager DEF Init
<1>2. saved \in Contents
  BY MapFacts DEF Init, Contents
<1>3. HistoryOK
  BY <1>2 DEF Init, HistoryOK
<1>4. FreshOK
  BY <1>1 DEF Init, FreshOK, AllGiven
<1>5. CountersOK
  BY DEF Init, CountersOK
<1> QED BY <1>1, <1>3, <1>4, <1>5 DEF IInv

\* A command that is run keeps the invariant.
LEMMA RunKeeps ==
  ASSUME IInv, NEW c \in Commands, Run(c)
  PROVE  IInv'
<1>1. /\ manager.nextTrack <= MaxId /\ manager.nextControl <= MaxId
      /\ Applies(manager, c) /\ manager' = Apply(manager, c)
      /\ done' = Append(done, Entry(manager, c)) /\ undone' = <<>>
      /\ UNCHANGED <<saved, now, controlled, records, crossed>> /\ commands' = commands + 1
  BY DEF Run, IdsLeft, MayCommand
<1>2. /\ IsManager(manager, now) /\ now \in Nat /\ done \in Seq(AllEntries)
      /\ ~crossed => Fresh(manager) /\ AllGiven(manager, done)
  BY DEF IInv, HistoryOK, FreshOK, CountersOK
<1>3. /\ IsManager(manager', now) /\ GoesOn(manager, manager')
      /\ StateOf(manager, c) \in Mementos
      /\ Fresh(manager) => Fresh(manager') /\ Given(manager', c, StateOf(manager, c))
  BY <1>1, <1>2, ApplyKeeps
<1>4. /\ Entry(manager, c) \in AllEntries
      /\ Entry(manager, c).cmd = c /\ Entry(manager, c).state = StateOf(manager, c)
  BY <1>2, <1>3, ContentIsSaved DEF Entry, AllEntries
<1>5. done' \in Seq(AllEntries)
  BY <1>1, <1>2, <1>4, EntriesMove
<1>6. ~crossed => AllGiven(manager', done')
  <2>1. ASSUME ~crossed PROVE AllGiven(manager', done)
    BY <1>2, <1>3, <2>1, AllGivenStays
  <2> QED BY <1>1, <1>2, <1>3, <1>4, <2>1, EntriesMove
<1>7. HistoryOK'
  BY <1>1, <1>5 DEF IInv, HistoryOK
<1>8. FreshOK'
  BY <1>1, <1>2, <1>3, <1>6 DEF FreshOK, AllGiven
<1>9. CountersOK'
  BY <1>1 DEF IInv, CountersOK
<1> QED BY <1>1, <1>3, <1>7, <1>8, <1>9 DEF IInv

\* Undo keeps the invariant.
LEMMA UndoKeeps ==
  ASSUME IInv, Undo
  PROVE  IInv'
<1> DEFINE e == done[Len(done)]
<1>1. /\ done # <<>> /\ manager' = (IF e.kept THEN Revert(manager, e.cmd, e.state) ELSE manager)
      /\ undone' = <<e>> \o undone /\ done' = SubSeq(done, 1, Len(done) - 1)
      /\ UNCHANGED <<saved, now, controlled, records, crossed>> /\ commands' = commands + 1
  BY DEF Undo, MayCommand
<1>2. /\ IsManager(manager, now) /\ now \in Nat
      /\ done \in Seq(AllEntries) /\ undone \in Seq(AllEntries)
      /\ ~crossed => Fresh(manager) /\ AllGiven(manager, done) /\ AllGiven(manager, undone)
  BY DEF IInv, HistoryOK, FreshOK, CountersOK
<1>3. e \in AllEntries
  BY <1>1, <1>2
<1>4. done' \in Seq(AllEntries) /\ undone' \in Seq(AllEntries)
  BY <1>1, <1>2, <1>3, EntriesMove
<1>5. AllGiven(manager, done) => Given(manager, e.cmd, e.state) /\ AllGiven(manager, done')
  BY <1>1, <1>2, <1>3, EntriesMove
<1>6. AllGiven(manager, done) /\ AllGiven(manager, undone) => AllGiven(manager, undone')
  BY <1>1, <1>2, <1>3, <1>5, EntriesMove
<1> HIDE DEF e
<1>7. /\ IsManager(manager', now) /\ GoesOn(manager, manager')
      /\ Fresh(manager) /\ Given(manager, e.cmd, e.state) => Fresh(manager')
  <2>1. CASE e.kept
    <3>1. e.cmd \in Commands /\ e.state \in Mementos
      BY <1>3 DEF AllEntries
    <3> QED BY <1>1, <1>2, <2>1, <3>1, RevertKeeps
  <2>2. CASE ~e.kept
    <3>1. manager' = manager
      BY <1>1, <2>2
    <3> QED BY <1>2, <3>1, SameIds
  <2> QED BY <2>1, <2>2
<1>8. ~crossed => AllGiven(manager', done') /\ AllGiven(manager', undone')
  BY <1>2, <1>4, <1>5, <1>6, <1>7, AllGivenStays
<1>9. HistoryOK'
  BY <1>1, <1>4 DEF IInv, HistoryOK
<1>10. FreshOK'
  BY <1>1, <1>2, <1>5, <1>7, <1>8 DEF FreshOK
<1>11. CountersOK'
  BY <1>1 DEF IInv, CountersOK
<1> QED BY <1>1, <1>7, <1>9, <1>10, <1>11 DEF IInv

\* Redo keeps the invariant, whether the command applies again or not.
LEMMA RedoKeeps ==
  ASSUME IInv, Redo
  PROVE  IInv'
<1> DEFINE e == undone[1]
           c == e.cmd
           f == IF Applies(manager, c) THEN Entry(manager, c) ELSE Failed(manager, e)
<1>1. /\ undone # <<>> /\ manager.nextTrack <= MaxId /\ manager.nextControl <= MaxId
      /\ manager' = (IF Applies(manager, c) THEN Apply(manager, c) ELSE manager)
      /\ done' = Append(done, f) /\ undone' = SubSeq(undone, 2, Len(undone))
      /\ UNCHANGED <<saved, now, controlled, records, crossed>> /\ commands' = commands + 1
  BY DEF Redo, IdsLeft, MayCommand
<1>2. /\ IsManager(manager, now) /\ now \in Nat
      /\ done \in Seq(AllEntries) /\ undone \in Seq(AllEntries)
      /\ ~crossed => Fresh(manager) /\ AllGiven(manager, done) /\ AllGiven(manager, undone)
  BY DEF IInv, HistoryOK, FreshOK, CountersOK
<1>3. e \in AllEntries
  BY <1>1, <1>2
<1>4. c \in Commands /\ e.state \in Mementos
  BY <1>3 DEF AllEntries
<1>5. undone' \in Seq(AllEntries)
  BY <1>1, <1>2, <1>3, EntriesMove
<1>6. AllGiven(manager, undone) => Given(manager, c, e.state) /\ AllGiven(manager, undone')
  BY <1>1, <1>2, <1>3, EntriesMove
<1> HIDE DEF e
<1>7. /\ IsManager(manager', now) /\ GoesOn(manager, manager') /\ f \in AllEntries
      /\ Fresh(manager) => Fresh(manager')
      /\ Fresh(manager) /\ Given(manager, c, e.state) => Given(manager', f.cmd, f.state)
  <2>1. CASE Applies(manager, c)
    <3>1. /\ IsManager(manager', now) /\ GoesOn(manager, manager')
          /\ StateOf(manager, c) \in Mementos
          /\ Fresh(manager) => Fresh(manager') /\ Given(manager', c, StateOf(manager, c))
      <4> HIDE DEF c
      <4> QED BY <1>1, <1>2, <1>4, <2>1, ApplyKeeps
    <3>2. f = Entry(manager, c)
      BY <2>1
    <3> HIDE DEF f, c
    <3>3. f \in AllEntries /\ f.cmd = c /\ f.state = StateOf(manager, c)
      BY <1>2, <1>4, <3>1, <3>2, ContentIsSaved DEF Entry, AllEntries
    <3> QED BY <3>1, <3>3
  <2>2. CASE ~Applies(manager, c)
    <3>1. f = Failed(manager, e) /\ manager' = manager
      BY <1>1, <2>2
    <3> HIDE DEF f
    <3>2. f \in AllEntries /\ f.cmd = c /\ f.state = e.state
      <4>1. Content(manager) \in Contents
        BY <1>2, ContentIsSaved
      <4>2. f = [cmd |-> c, state |-> e.state, kept |-> FALSE, before |-> Content(manager)]
        BY <3>1 DEF Failed
      <4> HIDE DEF c
      <4> QED BY <1>4, <4>1, <4>2 DEF AllEntries
    <3>3. GoesOn(manager, manager')
      BY <1>2, <3>1, SameIds
    <3> QED BY <1>2, <3>1, <3>2, <3>3
  <2> QED BY <2>1, <2>2
<1> HIDE DEF c, f
<1>8. done' \in Seq(AllEntries)
  BY <1>1, <1>2, <1>7, EntriesMove
<1>9. ~crossed => AllGiven(manager', done') /\ AllGiven(manager', undone')
  <2>1. ASSUME ~crossed PROVE AllGiven(manager', done) /\ AllGiven(manager', undone')
    BY <1>2, <1>5, <1>6, <1>7, <2>1, AllGivenStays
  <2> QED BY <1>1, <1>2, <1>6, <1>7, <2>1, EntriesMove
<1>10. HistoryOK'
  BY <1>1, <1>5, <1>8 DEF IInv, HistoryOK
<1>11. FreshOK'
  BY <1>1, <1>2, <1>7, <1>9 DEF FreshOK
<1>12. CountersOK'
  BY <1>1 DEF IInv, CountersOK
<1> QED BY <1>1, <1>7, <1>10, <1>11, <1>12 DEF IInv

\* Saving and opening a project, and a start of the program.
LEMMA ProjectKeeps ==
  ASSUME IInv, SaveProject \/ OpenProject \/ Restart
  PROVE  IInv'
<1> DEFINE loaded == LoadTimecodes(EmptyManager, saved.tracks, saved.controls)
<1>1. IsManager(manager, now) /\ now \in Nat /\ saved \in Contents /\ CountersOK /\ HistoryOK
  BY DEF IInv, HistoryOK, CountersOK
<1>2. saved.tracks \in Maps(Ids, Track) /\ saved.controls \in Maps(Ids, Names)
  BY <1>1 DEF Contents
<1>3. /\ IsManager(loaded, now)
      /\ \A t \in DOMAIN saved.tracks : t < loaded.nextTrack
      /\ \A c \in DOMAIN saved.controls : c < loaded.nextControl
  BY <1>1, <1>2, LoadTimecodesKeeps
<1>4. loaded.tracks = saved.tracks /\ loaded.controls = saved.controls
  BY DEF LoadTimecodes, EmptyManager
<1>5. Fresh(loaded)
  BY <1>3, <1>4 DEF Fresh
<1> HIDE DEF loaded
<1>6. CASE SaveProject
  <2>1. /\ saved' = Content(manager) /\ commands' = commands + 1
        /\ UNCHANGED <<manager, now, done, undone, controlled, records, crossed>>
    BY <1>6 DEF SaveProject, MayCommand
  <2>2. saved' \in Contents
    BY <1>1, <2>1, ContentIsSaved
  <2>3. CountersOK'
    BY <1>1, <2>1 DEF CountersOK
  <2>4. GoesOn(manager, manager') /\ (Fresh(manager) => Fresh(manager'))
    BY <1>1, <2>1, SameIds
  <2> QED BY <1>1, <2>1, <2>2, <2>3, <2>4, ManagerStep
<1>7. CASE OpenProject
  <2>1. /\ manager' = loaded /\ crossed' = (crossed \/ done # <<>> \/ undone # <<>>)
        /\ commands' = commands + 1
        /\ UNCHANGED <<saved, now, done, undone, controlled, records>>
    BY <1>7 DEF OpenProject, MayCommand, loaded
  <2>2. IsManager(manager', now')
    BY <1>3, <2>1
  <2>3. HistoryOK'
    BY <1>1, <2>1 DEF HistoryOK
  <2>4. FreshOK'
    <3>1. ASSUME ~crossed' PROVE done' = <<>> /\ undone' = <<>>
      BY <2>1, <3>1
    <3> QED BY <1>5, <2>1, <3>1 DEF FreshOK, AllGiven
  <2>5. CountersOK'
    <3>1. crossed' \in BOOLEAN
      BY <2>1
    <3>2. now' \in Nat /\ commands' \in Nat /\ controlled' \in Nat /\ records' \in Nat
      BY <1>1, <2>1 DEF CountersOK
    <3> QED BY <3>1, <3>2 DEF CountersOK
  <2> QED BY <2>2, <2>3, <2>4, <2>5 DEF IInv
<1>8. CASE Restart
  <2>1. /\ manager' = loaded /\ done' = <<>> /\ undone' = <<>>
        /\ commands' = commands + 1
        /\ UNCHANGED <<saved, now, controlled, records, crossed>>
    BY <1>8 DEF Restart, MayCommand, loaded
  <2>2. IsManager(manager', now')
    BY <1>3, <2>1
  <2>3. HistoryOK'
    BY <1>1, <2>1 DEF HistoryOK
  <2>4. FreshOK'
    BY <1>5, <2>1 DEF FreshOK, AllGiven
  <2>5. CountersOK'
    <3>1. crossed' \in BOOLEAN
      BY <1>1, <2>1 DEF CountersOK
    <3>2. now' \in Nat /\ commands' \in Nat /\ controlled' \in Nat /\ records' \in Nat
      BY <1>1, <2>1 DEF CountersOK
    <3> QED BY <3>1, <3>2 DEF CountersOK
  <2> QED BY <2>2, <2>3, <2>4, <2>5 DEF IInv
<1> QED BY <1>6, <1>7, <1>8

\* What nodes do to tracks changes only states and places among the recording.
LEMMA NodesKeep ==
  ASSUME IInv, Start \/ Stop \/ Chase \/ StartRecording \/ StopRecording
  PROVE  IInv'
<1>1. IsManager(manager, now) /\ now \in Nat /\ saved \in Contents /\ CountersOK
  BY DEF IInv, HistoryOK, CountersOK
<1>2. ASSUME NEW m, IsManager(m, now), ByNode(m),
             m.nextTrack = manager.nextTrack, m.nextControl = manager.nextControl,
             m.tracks = manager.tracks, m.controls = manager.controls
      PROVE  IInv'
  <2>1. /\ manager' = m /\ controlled' = controlled + 1
        /\ UNCHANGED <<saved, now, done, undone, commands, records, crossed>>
    BY <1>2 DEF ByNode
  <2>2. CountersOK'
    BY <1>1, <2>1 DEF CountersOK
  <2>3. GoesOn(manager, manager') /\ (Fresh(manager) => Fresh(manager'))
    BY <1>1, <1>2, <2>1, SameIds
  <2>4. IsManager(manager', now') /\ saved' \in Contents /\ UNCHANGED <<done, undone, crossed>>
    BY <1>1, <1>2, <2>1
  <2> QED BY <2>2, <2>3, <2>4, ManagerStep
<1>3. \A id, state : LET m == SetState(manager, id, state)
                     IN  /\ m.nextTrack = manager.nextTrack /\ m.nextControl = manager.nextControl
                         /\ m.tracks = manager.tracks /\ m.controls = manager.controls
  BY <1>1 DEF SetState, IsManager, Managers
<1>4. CASE Start
  <2>1. PICK t \in Ids : ByNode(StartTrack(manager, t))
    BY <1>4 DEF Start
  <2>2. IsManager(StartTrack(manager, t), now)
    BY <1>1, StartTrackKeeps
  <2>3. LET m == StartTrack(manager, t)
        IN  /\ m.nextTrack = manager.nextTrack /\ m.nextControl = manager.nextControl
            /\ m.tracks = manager.tracks /\ m.controls = manager.controls
    BY <1>3 DEF StartTrack
  <2> QED BY <1>2, <2>1, <2>2, <2>3
<1>5. CASE Stop
  <2>1. PICK t \in Ids : ByNode(StopTrack(manager, t))
    BY <1>5 DEF Stop
  <2>2. IsManager(StopTrack(manager, t), now)
    BY <1>1, StopTrackKeeps
  <2>3. LET m == StopTrack(manager, t)
        IN  /\ m.nextTrack = manager.nextTrack /\ m.nextControl = manager.nextControl
            /\ m.tracks = manager.tracks /\ m.controls = manager.controls
    BY <1>3 DEF StopTrack
  <2> QED BY <1>2, <2>1, <2>2, <2>3
<1>6. CASE Chase
  <2>1. PICK t \in DOMAIN manager.states, time \in 0 .. MaxTime :
          ByNode(WriteTimestamp(manager, t, time))
    BY <1>6 DEF Chase
  <2>2. time \in Nat
    BY BoundsAssumption
  <2>3. IsManager(WriteTimestamp(manager, t, time), now)
    BY <1>1, <2>2, WriteTimestampKeeps
  <2>4. LET m == WriteTimestamp(manager, t, time)
        IN  /\ m.nextTrack = manager.nextTrack /\ m.nextControl = manager.nextControl
            /\ m.tracks = manager.tracks /\ m.controls = manager.controls
    BY <1>3 DEF WriteTimestamp
  <2> QED BY <1>2, <2>1, <2>3, <2>4
<1>7. \A R : LET m == [manager EXCEPT !.recording = R]
             IN  /\ m.nextTrack = manager.nextTrack /\ m.nextControl = manager.nextControl
                 /\ m.tracks = manager.tracks /\ m.controls = manager.controls
  BY <1>1 DEF IsManager, Managers
<1>8. manager.recording \subseteq DOMAIN manager.states
  BY <1>1 DEF IsManager
<1>9. CASE StartRecording
  <2>1. PICK t \in DOMAIN manager.states :
          ByNode([manager EXCEPT !.recording = manager.recording \cup {t}])
    BY <1>9 DEF StartRecording
  <2>2. IsManager([manager EXCEPT !.recording = manager.recording \cup {t}], now)
    BY <1>1, <1>8, WithRecording
  <2> QED BY <1>2, <1>7, <2>1, <2>2
<1>10. CASE StopRecording
  <2>1. PICK t \in DOMAIN manager.states :
          ByNode([manager EXCEPT !.recording = manager.recording \ {t}])
    BY <1>10 DEF StopRecording
  <2>2. IsManager([manager EXCEPT !.recording = manager.recording \ {t}], now)
    BY <1>1, <1>8, WithRecording
  <2> QED BY <1>2, <1>7, <2>1, <2>2
<1> QED BY <1>4, <1>5, <1>6, <1>9, <1>10

\* Recording a value keeps the invariant and what the courses hold of the past.
LEMMA RecordKeeps ==
  ASSUME IInv, Record
  PROVE  /\ IInv'
         /\ \A t \in DOMAIN manager.tracks :
              LET old == manager.tracks[t].values
                  new == manager'.tracks[t].values
              IN  \A c \in DOMAIN old : \A n \in DOMAIN old[c] :
                    old[c][n].x < now - manager.states[t].start =>
                      n \in DOMAIN new[c] /\ new[c][n] = old[c][n]
<1>1. IsManager(manager, now) /\ now \in Nat /\ saved \in Contents /\ CountersOK
  BY DEF IInv, HistoryOK, CountersOK
<1>2. PICK control \in Ids, value \in Levels, ids \in SUBSET RecordingTracks(manager) :
        /\ manager' = RecordInto(manager, ids, control, value) /\ records' = records + 1
        /\ UNCHANGED <<saved, now, done, undone, commands, controlled, crossed>>
  BY DEF Record
<1>3. value \in Nat /\ ids \subseteq DOMAIN manager.states
  BY LevelsAssumption DEF RecordingTracks
<1>4. /\ IsManager(manager', now) /\ DOMAIN manager'.tracks = DOMAIN manager.tracks
      /\ \A t \in DOMAIN manager.tracks :
           LET old == manager.tracks[t].values
               new == manager'.tracks[t].values
           IN  \A c \in DOMAIN old : \A n \in DOMAIN old[c] :
                 old[c][n].x < now - manager.states[t].start =>
                   n \in DOMAIN new[c] /\ new[c][n] = old[c][n]
  BY <1>1, <1>2, <1>3, RecordIntoKeeps
<1>5. /\ manager'.nextTrack = manager.nextTrack /\ manager'.nextControl = manager.nextControl
      /\ manager'.controls = manager.controls
  BY <1>1, <1>2 DEF RecordInto, IsManager, Managers
<1>6. GoesOn(manager, manager') /\ (Fresh(manager) => Fresh(manager'))
  BY <1>1, <1>4, <1>5, SameIds
<1>7. CountersOK'
  BY <1>1, <1>2 DEF CountersOK
<1>8. IInv'
  BY <1>1, <1>2, <1>4, <1>6, <1>7, ManagerStep
<1> QED BY <1>4, <1>8

\* A frame keeps the invariant.
LEMMA AdvanceFrameKeeps ==
  ASSUME IInv, AdvanceFrame
  PROVE  IInv'
<1>1. IsManager(manager, now) /\ now \in Nat /\ saved \in Contents /\ CountersOK
  BY DEF IInv, HistoryOK, CountersOK
<1>2. /\ manager' = AdvanceTimecodes(manager, now + 1) /\ now' = now + 1
      /\ UNCHANGED <<saved, done, undone, commands, controlled, records, crossed>>
  BY DEF AdvanceFrame
<1>3. now + 1 \in Nat /\ now <= now + 1
  BY <1>1
<1>4. IsManager(manager', now')
  BY <1>1, <1>2, <1>3, AdvanceTimecodesKeeps
<1>5. /\ manager'.nextTrack = manager.nextTrack /\ manager'.nextControl = manager.nextControl
      /\ manager'.tracks = manager.tracks /\ manager'.controls = manager.controls
  BY <1>1, <1>2 DEF AdvanceTimecodes, IsManager, Managers
<1>6. GoesOn(manager, manager') /\ (Fresh(manager) => Fresh(manager'))
  BY <1>1, <1>5, SameIds
<1>7. CountersOK'
  BY <1>1, <1>2, <1>3 DEF CountersOK
<1> QED BY <1>1, <1>2, <1>4, <1>6, <1>7, ManagerStep

\* Every step keeps the invariant.
LEMMA NextKeeps == IInv /\ [Next]_vars => IInv'
<1> SUFFICES ASSUME IInv, [Next]_vars PROVE IInv'
  OBVIOUS
<1>1. ASSUME NEW c \in Commands, Run(c) PROVE IInv'
  BY <1>1, RunKeeps
<1>2. CASE Undo
  BY <1>2, UndoKeeps
<1>3. CASE Redo
  BY <1>3, RedoKeeps
<1>4. CASE SaveProject \/ OpenProject \/ Restart
  BY <1>4, ProjectKeeps
<1>5. CASE Start \/ Stop \/ Chase \/ StartRecording \/ StopRecording
  BY <1>5, NodesKeep
<1>6. CASE Record
  BY <1>6, RecordKeeps
<1>7. CASE AdvanceFrame
  BY <1>7, AdvanceFrameKeeps
<1>8. CASE UNCHANGED vars
  BY <1>8 DEF vars, IInv, HistoryOK, FreshOK, CountersOK
<1> QED BY <1>1, <1>2, <1>3, <1>4, <1>5, <1>6, <1>7, <1>8 DEF Next

\* The invariant always holds.
THEOREM InvariantHolds == Spec => []IInv
<1> QED BY InitInvariant, NextKeeps, PTL DEF Spec

-----------------------------------------------------------------------------
(* What undo brings back. A command's undo is right on every manager that     *)
(* names the tracks and controls that the command left, whatever values were  *)
(* recorded since; the commands of the history fit one after another.         *)

\* The same tracks and controls, under the same names.
SameNames(x, y) ==
  /\ DOMAIN x.tracks = DOMAIN y.tracks /\ x.controls = y.controls
  /\ \A t \in DOMAIN x.tracks : x.tracks[t].name = y.tracks[t].name

\* Every track has a course for every control and for no other.
Full(x) == \A t \in DOMAIN x.tracks : DOMAIN x.tracks[t].values = DOMAIN x.controls

\* What m becomes, as n, is what a command found: names, and values that m lacks.
Back(before, m, n) ==
  /\ Full(n) /\ SameNames(n, before)
  /\ \A t \in DOMAIN before.tracks : \A c \in DOMAIN before.controls :
       t \notin DOMAIN m.tracks \/ c \notin DOMAIN m.controls =>
         /\ c \in DOMAIN n.tracks[t].values
         /\ n.tracks[t].values[c] = before.tracks[t].values[c]

Undone(m, e) == IF e.kept THEN Revert(m, e.cmd, e.state) ELSE m

\* The undo of an entry is right wherever the names are those of x.
Returns(e, x) ==
  \A m : (\E time \in Nat : IsManager(m, time)) /\ Full(m) /\ SameNames(m, x) =>
    Back(e.before, m, Undone(m, e))

HistoryReturns ==
  /\ \A k \in 1 .. Len(done) - 1 : Returns(done[k], done[k + 1].before)
  /\ done # <<>> => Returns(done[Len(done)], manager)

ReturnInv == ~crossed => Full(manager) /\ Full(saved) /\ HistoryReturns

\* Names are the same as in oneself, and as in what has the same as another.
LEMMA SameNamesJoin ==
  /\ \A x : SameNames(x, x)
  /\ \A x, y, z : SameNames(x, y) /\ SameNames(y, z) => SameNames(x, z)
BY DEF SameNames

\* So an undo that is right for names is right for the same names elsewhere.
LEMMA ReturnsAlike ==
  ASSUME NEW e, NEW x, NEW y, Returns(e, x), SameNames(y, x)
  PROVE  Returns(e, y)
BY SameNamesJoin DEF Returns

\* Names are the same just if the named contents are equal.
LEMMA NamedAlike ==
  ASSUME NEW x, NEW y, SameNames(x, y)
  PROVE  Named(x) = Named(y)
<1>1. [t \in DOMAIN x.tracks |-> x.tracks[t].name] = [t \in DOMAIN y.tracks |-> y.tracks[t].name]
  BY DEF SameNames
<1> QED BY <1>1 DEF Named, SameNames

\* Putting back what was dropped, and dropping what was put.
LEMMA MapsComeBack ==
  ASSUME NEW K, NEW V, NEW f \in Maps(K, V), NEW k
  PROVE  /\ k \in DOMAIN f => Put(Drop(f, k), k, f[k]) = f
         /\ \A v : k \notin DOMAIN f => Drop(Put(f, k, v), k) = f
<1>1. f = [i \in DOMAIN f |-> f[i]]
  BY MapFacts
<1>2. k \in DOMAIN f => Put(Drop(f, k), k, f[k]) = f
  <2>1. ASSUME k \in DOMAIN f PROVE Put(Drop(f, k), k, f[k]) = [i \in DOMAIN f |-> f[i]]
    <3>1. DOMAIN Drop(f, k) \cup {k} = DOMAIN f
      BY <2>1 DEF Drop
    <3>2. \A i \in DOMAIN f : (IF i = k THEN f[k] ELSE Drop(f, k)[i]) = f[i]
      BY DEF Drop
    <3> QED BY <3>1, <3>2 DEF Put
  <2> QED BY <1>1, <2>1
<1>3. ASSUME NEW v, k \notin DOMAIN f PROVE Drop(Put(f, k, v), k) = f
  <2>1. DOMAIN Put(f, k, v) \ {k} = DOMAIN f
    BY <1>3 DEF Put
  <2>2. \A i \in DOMAIN f : Put(f, k, v)[i] = f[i]
    BY <1>3 DEF Put
  <2>3. Drop(Put(f, k, v), k) = [i \in DOMAIN f |-> f[i]]
    BY <2>1, <2>2 DEF Drop
  <2> QED BY <1>1, <2>3
<1> QED BY <1>2, <1>3

\* What each operation makes of the tracks and controls: inserting a track,
LEMMA InsertedTrack ==
  ASSUME NEW time, NEW m, IsManager(m, time), NEW id, NEW track
  PROVE  /\ InsertTimecode(m, id, track).tracks = Put(m.tracks, id, track)
         /\ InsertTimecode(m, id, track).controls = m.controls
BY DEF InsertTimecode, IsManager, Managers

\* adding one,
LEMMA AddedTrack ==
  ASSUME NEW time, NEW m, IsManager(m, time), NEW name
  PROVE  /\ AddTimecode(m, name).tracks = Put(m.tracks, m.nextTrack,
              [name |-> name, values |-> [c \in DOMAIN m.controls |-> <<>>]])
         /\ AddTimecode(m, name).controls = m.controls
BY DEF AddTimecode, InsertTimecode, IsManager, Managers

\* removing one,
LEMMA RemovedTrack ==
  ASSUME NEW time, NEW m, IsManager(m, time), NEW id
  PROVE  /\ RemoveTimecode(m, id).tracks = Drop(m.tracks, id)
         /\ RemoveTimecode(m, id).controls = m.controls
BY DEF RemoveTimecode, IsManager, Managers

\* renaming one,
LEMMA RenamedTrack ==
  ASSUME NEW time, NEW m, IsManager(m, time), NEW id \in DOMAIN m.tracks, NEW name
  PROVE  LET n == RenameTimecode(m, id, name)
         IN  /\ DOMAIN n.tracks = DOMAIN m.tracks /\ n.controls = m.controls
             /\ \A t \in DOMAIN m.tracks :
                  /\ n.tracks[t].name = IF t = id THEN name ELSE m.tracks[t].name
                  /\ n.tracks[t].values = m.tracks[t].values
<1> DEFINE n == RenameTimecode(m, id, name)
<1>1. n.tracks = [m.tracks EXCEPT ![id].name = name] /\ n.controls = m.controls
  BY DEF RenameTimecode, IsManager, Managers
<1> HIDE DEF n
<1>2. PICK f : f = m.tracks
  OBVIOUS
<1>3. \A t \in DOMAIN f : f[t] \in Track
  BY <1>2, ManagerFacts
<1>4. ASSUME NEW t \in DOMAIN f
      PROVE  /\ n.tracks[t].name = IF t = id THEN name ELSE f[t].name
             /\ n.tracks[t].values = f[t].values
  <2>1. n.tracks[t] = IF t = id THEN [f[t] EXCEPT !.name = name] ELSE f[t]
    BY <1>1, <1>2
  <2>2. [f[t] EXCEPT !.name = name].name = name /\ [f[t] EXCEPT !.name = name].values = f[t].values
    BY <1>3 DEF Track
  <2> QED BY <2>1, <2>2
<1>5. DOMAIN n.tracks = DOMAIN m.tracks
  BY <1>1
<1> QED BY <1>1, <1>2, <1>4, <1>5 DEF n

\* inserting a control,
LEMMA InsertedControl ==
  ASSUME NEW time, NEW m, IsManager(m, time), NEW id, NEW name, NEW courses
  PROVE  LET n == InsertTimecodeControl(m, id, name, courses)
         IN  /\ n.controls = Put(m.controls, id, name) /\ DOMAIN n.tracks = DOMAIN m.tracks
             /\ \A t \in DOMAIN m.tracks :
                  /\ n.tracks[t].name = m.tracks[t].name
                  /\ n.tracks[t].values = Put(m.tracks[t].values, id,
                       IF t \in DOMAIN courses THEN courses[t] ELSE <<>>)
<1> DEFINE n == InsertTimecodeControl(m, id, name, courses)
<1>1. \A t \in DOMAIN m.tracks : \A v :
        /\ [m.tracks[t] EXCEPT !.values = v].name = m.tracks[t].name
        /\ [m.tracks[t] EXCEPT !.values = v].values = v
  BY ManagerFacts DEF Track
<1>2. /\ n.controls = Put(m.controls, id, name)
      /\ n.tracks = [t \in DOMAIN m.tracks |->
           [m.tracks[t] EXCEPT !.values =
              Put(m.tracks[t].values, id, IF t \in DOMAIN courses THEN courses[t] ELSE <<>>)]]
  BY DEF InsertTimecodeControl, IsManager, Managers
<1> HIDE DEF n
<1> QED BY <1>1, <1>2 DEF n

\* adding one,
LEMMA AddedControl ==
  ASSUME NEW time, NEW m, IsManager(m, time), NEW name
  PROVE  LET n == AddTimecodeControl(m, name)
         IN  /\ n.controls = Put(m.controls, m.nextControl, name) /\ DOMAIN n.tracks = DOMAIN m.tracks
             /\ \A t \in DOMAIN m.tracks :
                  /\ n.tracks[t].name = m.tracks[t].name
                  /\ n.tracks[t].values = Put(m.tracks[t].values, m.nextControl, <<>>)
<1> DEFINE n == AddTimecodeControl(m, name)
           i == InsertTimecodeControl(m, m.nextControl, name, NoEntries)
<1>1. n.controls = i.controls /\ n.tracks = i.tracks
  BY DEF AddTimecodeControl, InsertTimecodeControl, IsManager, Managers
<1>2. /\ i.controls = Put(m.controls, m.nextControl, name) /\ DOMAIN i.tracks = DOMAIN m.tracks
      /\ \A t \in DOMAIN m.tracks :
           /\ i.tracks[t].name = m.tracks[t].name
           /\ i.tracks[t].values = Put(m.tracks[t].values, m.nextControl,
                IF t \in DOMAIN NoEntries THEN NoEntries[t] ELSE <<>>)
  BY InsertedControl
<1>3. DOMAIN NoEntries = {}
  BY DEF NoEntries
<1> HIDE DEF n, i
<1> QED BY <1>1, <1>2, <1>3 DEF n

\* removing one,
LEMMA RemovedControl ==
  ASSUME NEW time, NEW m, IsManager(m, time), NEW id
  PROVE  LET n == RemoveTimecodeControl(m, id)
         IN  /\ n.controls = Drop(m.controls, id) /\ DOMAIN n.tracks = DOMAIN m.tracks
             /\ \A t \in DOMAIN m.tracks :
                  /\ n.tracks[t].name = m.tracks[t].name
                  /\ n.tracks[t].values = Drop(m.tracks[t].values, id)
<1> DEFINE n == RemoveTimecodeControl(m, id)
<1>1. \A t \in DOMAIN m.tracks : \A v :
        /\ [m.tracks[t] EXCEPT !.values = v].name = m.tracks[t].name
        /\ [m.tracks[t] EXCEPT !.values = v].values = v
  BY ManagerFacts DEF Track
<1>2. /\ n.controls = Drop(m.controls, id)
      /\ n.tracks = [t \in DOMAIN m.tracks |->
           [m.tracks[t] EXCEPT !.values = Drop(m.tracks[t].values, id)]]
  BY DEF RemoveTimecodeControl, IsManager, Managers
<1> HIDE DEF n
<1> QED BY <1>1, <1>2 DEF n

\* and renaming one.
LEMMA RenamedControl ==
  ASSUME NEW time, NEW m, IsManager(m, time), NEW id, NEW name
  PROVE  /\ RenameTimecodeControl(m, id, name).controls = [m.controls EXCEPT ![id] = name]
         /\ RenameTimecodeControl(m, id, name).tracks = m.tracks
BY DEF RenameTimecodeControl, IsManager, Managers

\* A control that comes or goes does so in every track.
LEMMA FullWith ==
  ASSUME NEW m, Full(m), NEW n, NEW id, NEW name, n.controls = Put(m.controls, id, name),
         DOMAIN n.tracks = DOMAIN m.tracks,
         \A t \in DOMAIN m.tracks : \E v : n.tracks[t].values = Put(m.tracks[t].values, id, v)
  PROVE  Full(n)
<1>1. DOMAIN n.controls = DOMAIN m.controls \cup {id}
  BY DEF Put
<1>2. ASSUME NEW t \in DOMAIN m.tracks PROVE DOMAIN n.tracks[t].values = DOMAIN m.controls \cup {id}
  <2>1. PICK v : n.tracks[t].values = Put(m.tracks[t].values, id, v)
    OBVIOUS
  <2>2. DOMAIN m.tracks[t].values = DOMAIN m.controls
    BY DEF Full
  <2> QED BY <2>1, <2>2 DEF Put
<1> QED BY <1>1, <1>2 DEF Full

LEMMA FullWithout ==
  ASSUME NEW m, Full(m), NEW n, NEW id, n.controls = Drop(m.controls, id),
         DOMAIN n.tracks = DOMAIN m.tracks,
         \A t \in DOMAIN m.tracks : n.tracks[t].values = Drop(m.tracks[t].values, id)
  PROVE  Full(n)
<1>1. DOMAIN n.controls = DOMAIN m.controls \ {id}
  BY DEF Drop
<1>2. ASSUME NEW t \in DOMAIN m.tracks PROVE DOMAIN n.tracks[t].values = DOMAIN m.controls \ {id}
  <2>1. DOMAIN m.tracks[t].values = DOMAIN m.controls
    BY DEF Full
  <2> QED BY <2>1 DEF Drop
<1> QED BY <1>1, <1>2 DEF Full

\* Adding a track, and undoing it: the new track takes an id of its own.
LEMMA AddTrackReturns ==
  ASSUME NEW time, NEW m, IsManager(m, time), Fresh(m), Full(m), NEW name
  PROVE  /\ Full(AddTimecode(m, name))
         /\ \A later, k : IsManager(k, later) /\ Full(k) /\ SameNames(k, AddTimecode(m, name)) =>
              Back(m, k, RemoveTimecode(k, m.nextTrack))
<1> DEFINE n == AddTimecode(m, name)
           id == m.nextTrack
           track == [name |-> name, values |-> [c \in DOMAIN m.controls |-> <<>>]]
<1>1. id \notin DOMAIN m.tracks
  <2>1. id \in Int
    BY ManagerFacts, BoundsAssumption
  <2> QED BY <2>1 DEF Fresh
<1>2. n.tracks = Put(m.tracks, id, track) /\ n.controls = m.controls
  BY AddedTrack
<1>3. track.name = name /\ DOMAIN track.values = DOMAIN m.controls
  OBVIOUS
<1> HIDE DEF n, id, track
<1>4. Full(n)
  BY <1>2, <1>3 DEF Full, Put
<1>5. ASSUME NEW later, NEW k, IsManager(k, later), Full(k), SameNames(k, n)
      PROVE  Back(m, k, RemoveTimecode(k, id))
  <2> DEFINE u == RemoveTimecode(k, id)
  <2>1. u.tracks = Drop(k.tracks, id) /\ u.controls = k.controls
    BY <1>5, RemovedTrack
  <2> HIDE DEF u
  <2>2. /\ DOMAIN k.tracks = DOMAIN m.tracks \cup {id} /\ k.controls = m.controls
        /\ \A t \in DOMAIN m.tracks : k.tracks[t].name = m.tracks[t].name
    BY <1>1, <1>2, <1>5 DEF SameNames, Put
  <2>3. /\ DOMAIN u.tracks = DOMAIN m.tracks /\ u.controls = m.controls
        /\ \A t \in DOMAIN m.tracks : u.tracks[t] = k.tracks[t]
    BY <1>1, <2>1, <2>2 DEF Drop
  <2>4. Full(u)
    BY <1>5, <2>2, <2>3 DEF Full
  <2> QED BY <2>2, <2>3, <2>4 DEF Back, SameNames, u
<1> QED BY <1>4, <1>5 DEF n, id

\* Adding a control, and undoing it: the new control takes an id of its own.
LEMMA AddControlReturns ==
  ASSUME NEW time, NEW m, IsManager(m, time), Fresh(m), Full(m), NEW name
  PROVE  /\ Full(AddTimecodeControl(m, name))
         /\ \A later, k : IsManager(k, later) /\ Full(k) /\ SameNames(k, AddTimecodeControl(m, name)) =>
              Back(m, k, RemoveTimecodeControl(k, m.nextControl))
<1> DEFINE n == AddTimecodeControl(m, name)
           id == m.nextControl
<1>1. id \notin DOMAIN m.controls
  <2>1. id \in Int
    BY ManagerFacts, BoundsAssumption
  <2> QED BY <2>1 DEF Fresh
<1>2. /\ n.controls = Put(m.controls, id, name) /\ DOMAIN n.tracks = DOMAIN m.tracks
      /\ \A t \in DOMAIN m.tracks :
           n.tracks[t].name = m.tracks[t].name /\ n.tracks[t].values = Put(m.tracks[t].values, id, <<>>)
  BY AddedControl
<1> HIDE DEF n, id
<1>3. Full(n)
  BY <1>2, FullWith
<1>4. ASSUME NEW later, NEW k, IsManager(k, later), Full(k), SameNames(k, n)
      PROVE  Back(m, k, RemoveTimecodeControl(k, id))
  <2> DEFINE u == RemoveTimecodeControl(k, id)
  <2>1. /\ u.controls = Drop(k.controls, id) /\ DOMAIN u.tracks = DOMAIN k.tracks
        /\ \A t \in DOMAIN k.tracks :
             u.tracks[t].name = k.tracks[t].name /\ u.tracks[t].values = Drop(k.tracks[t].values, id)
    BY <1>4, RemovedControl
  <2> HIDE DEF u
  <2>2. /\ DOMAIN k.tracks = DOMAIN m.tracks /\ k.controls = Put(m.controls, id, name)
        /\ \A t \in DOMAIN m.tracks : k.tracks[t].name = m.tracks[t].name
    BY <1>2, <1>4 DEF SameNames
  <2>3. u.controls = m.controls
    <3>1. m.controls \in Maps(Ids, Names)
      BY ManagerFacts
    <3> QED BY <1>1, <2>1, <2>2, <3>1, MapsComeBack
  <2>4. Full(u)
    BY <1>4, <2>1, FullWithout
  <2>5. DOMAIN m.controls \subseteq DOMAIN k.controls
    BY <2>2 DEF Put
  <2>6. SameNames(u, m)
    BY <2>1, <2>2, <2>3 DEF SameNames
  <2> QED BY <2>2, <2>4, <2>5, <2>6 DEF Back, u
<1> QED BY <1>3, <1>4 DEF n, id

\* Deleting a track, and undoing it: it comes back with its courses.
LEMMA DeleteTrackReturns ==
  ASSUME NEW time, NEW m, IsManager(m, time), Full(m), NEW id \in DOMAIN m.tracks
  PROVE  /\ Full(RemoveTimecode(m, id))
         /\ \A later, k : IsManager(k, later) /\ Full(k) /\ SameNames(k, RemoveTimecode(m, id)) =>
              Back(m, k, InsertTimecode(k, id,
                [name |-> m.tracks[id].name, values |-> m.tracks[id].values]))
<1> DEFINE n == RemoveTimecode(m, id)
           track == [name |-> m.tracks[id].name, values |-> m.tracks[id].values]
<1>1. n.tracks = Drop(m.tracks, id) /\ n.controls = m.controls
  BY RemovedTrack
<1>2. track = m.tracks[id]
  BY ManagerFacts, TrackFacts
<1> HIDE DEF n, track
<1>3. Full(n)
  BY <1>1 DEF Full, Drop
<1>4. ASSUME NEW later, NEW k, IsManager(k, later), Full(k), SameNames(k, n)
      PROVE  Back(m, k, InsertTimecode(k, id, track))
  <2> DEFINE u == InsertTimecode(k, id, track)
  <2>1. u.tracks = Put(k.tracks, id, track) /\ u.controls = k.controls
    BY <1>4, InsertedTrack
  <2> HIDE DEF u
  <2>2. /\ DOMAIN k.tracks = DOMAIN m.tracks \ {id} /\ k.controls = m.controls
        /\ \A t \in DOMAIN m.tracks \ {id} : k.tracks[t].name = m.tracks[t].name
    BY <1>1, <1>4 DEF SameNames, Drop
  <2>3. /\ DOMAIN u.tracks = DOMAIN m.tracks /\ u.controls = m.controls /\ u.tracks[id] = m.tracks[id]
        /\ \A t \in DOMAIN m.tracks \ {id} : u.tracks[t] = k.tracks[t]
    BY <1>2, <2>1, <2>2 DEF Put
  <2>4. Full(u)
    BY <1>4, <2>2, <2>3 DEF Full
  <2>5. SameNames(u, m)
    BY <2>2, <2>3 DEF SameNames
  <2>6. ASSUME NEW t \in DOMAIN m.tracks, NEW c \in DOMAIN m.controls,
               t \notin DOMAIN k.tracks \/ c \notin DOMAIN k.controls
        PROVE  c \in DOMAIN u.tracks[t].values /\ u.tracks[t].values[c] = m.tracks[t].values[c]
    <3>1. t = id
      BY <2>2, <2>6
    <3> QED BY <2>3, <3>1 DEF Full
  <2> QED BY <2>4, <2>5, <2>6 DEF Back, u
<1> QED BY <1>3, <1>4 DEF n, track

\* Deleting a control, and undoing it: every track has its course again.
LEMMA DeleteControlReturns ==
  ASSUME NEW time, NEW m, IsManager(m, time), Full(m), NEW id \in DOMAIN m.controls
  PROVE  /\ Full(RemoveTimecodeControl(m, id))
         /\ \A later, k : IsManager(k, later) /\ Full(k) /\ SameNames(k, RemoveTimecodeControl(m, id)) =>
              Back(m, k, InsertTimecodeControl(k, id, m.controls[id], CoursesOf(m, id)))
<1> DEFINE n == RemoveTimecodeControl(m, id)
           courses == CoursesOf(m, id)
<1>1. /\ n.controls = Drop(m.controls, id) /\ DOMAIN n.tracks = DOMAIN m.tracks
      /\ \A t \in DOMAIN m.tracks :
           n.tracks[t].name = m.tracks[t].name /\ n.tracks[t].values = Drop(m.tracks[t].values, id)
  BY RemovedControl
<1>2. DOMAIN courses = DOMAIN m.tracks /\ \A t \in DOMAIN m.tracks : courses[t] = m.tracks[t].values[id]
  BY DEF CoursesOf, Full
<1> HIDE DEF n, courses
<1>3. Full(n)
  BY <1>1, FullWithout
<1>4. ASSUME NEW later, NEW k, IsManager(k, later), Full(k), SameNames(k, n)
      PROVE  Back(m, k, InsertTimecodeControl(k, id, m.controls[id], courses))
  <2> DEFINE u == InsertTimecodeControl(k, id, m.controls[id], courses)
  <2>1. /\ u.controls = Put(k.controls, id, m.controls[id]) /\ DOMAIN u.tracks = DOMAIN k.tracks
        /\ \A t \in DOMAIN k.tracks :
             /\ u.tracks[t].name = k.tracks[t].name
             /\ u.tracks[t].values = Put(k.tracks[t].values, id,
                  IF t \in DOMAIN courses THEN courses[t] ELSE <<>>)
    BY <1>4, InsertedControl
  <2> HIDE DEF u
  <2>2. /\ DOMAIN k.tracks = DOMAIN m.tracks /\ k.controls = Drop(m.controls, id)
        /\ \A t \in DOMAIN m.tracks : k.tracks[t].name = m.tracks[t].name
    BY <1>1, <1>4 DEF SameNames
  <2>3. u.controls = m.controls
    <3>1. m.controls \in Maps(Ids, Names)
      BY ManagerFacts
    <3> QED BY <2>1, <2>2, <3>1, MapsComeBack
  <2>4. \A t \in DOMAIN m.tracks : u.tracks[t].values = Put(k.tracks[t].values, id, m.tracks[t].values[id])
    BY <1>2, <2>1, <2>2
  <2>5. DOMAIN k.controls = DOMAIN m.controls \ {id}
    BY <2>2 DEF Drop
  <2>6. Full(u)
    BY <1>4, <2>1, <2>2, <2>3, <2>4, <2>5 DEF Full, Put
  <2>7. SameNames(u, m)
    BY <2>1, <2>2, <2>3 DEF SameNames
  <2>8. ASSUME NEW t \in DOMAIN m.tracks, NEW c \in DOMAIN m.controls,
               t \notin DOMAIN k.tracks \/ c \notin DOMAIN k.controls
        PROVE  c \in DOMAIN u.tracks[t].values /\ u.tracks[t].values[c] = m.tracks[t].values[c]
    <3>1. c = id
      BY <2>2, <2>5, <2>8
    <3> QED BY <2>4, <3>1 DEF Put
  <2> QED BY <2>6, <2>7, <2>8 DEF Back, u
<1> QED BY <1>3, <1>4 DEF n, courses

\* Renaming a track, and undoing it.
LEMMA RenameTrackReturns ==
  ASSUME NEW time, NEW m, IsManager(m, time), Full(m), NEW id \in DOMAIN m.tracks, NEW name
  PROVE  /\ Full(RenameTimecode(m, id, name))
         /\ \A later, k : IsManager(k, later) /\ Full(k) /\ SameNames(k, RenameTimecode(m, id, name)) =>
              /\ id \in DOMAIN k.tracks
              /\ Back(m, k, RenameTimecode(k, id, m.tracks[id].name))
<1> DEFINE n == RenameTimecode(m, id, name)
<1>1. /\ DOMAIN n.tracks = DOMAIN m.tracks /\ n.controls = m.controls
      /\ \A t \in DOMAIN m.tracks :
           /\ n.tracks[t].name = IF t = id THEN name ELSE m.tracks[t].name
           /\ n.tracks[t].values = m.tracks[t].values
  BY RenamedTrack
<1> HIDE DEF n
<1>2. Full(n)
  BY <1>1 DEF Full
<1>3. ASSUME NEW later, NEW k, IsManager(k, later), Full(k), SameNames(k, n)
      PROVE  /\ id \in DOMAIN k.tracks
             /\ Back(m, k, RenameTimecode(k, id, m.tracks[id].name))
  <2> DEFINE u == RenameTimecode(k, id, m.tracks[id].name)
  <2>1. id \in DOMAIN k.tracks
    BY <1>1, <1>3 DEF SameNames
  <2>2. /\ DOMAIN u.tracks = DOMAIN k.tracks /\ u.controls = k.controls
        /\ \A t \in DOMAIN k.tracks :
             /\ u.tracks[t].name = IF t = id THEN m.tracks[id].name ELSE k.tracks[t].name
             /\ u.tracks[t].values = k.tracks[t].values
    BY <1>3, <2>1, RenamedTrack
  <2> HIDE DEF u
  <2>3. Full(u)
    BY <1>3, <2>2 DEF Full
  <2>4. SameNames(u, m)
    BY <1>1, <1>3, <2>2 DEF SameNames
  <2>5. DOMAIN k.tracks = DOMAIN m.tracks /\ k.controls = m.controls
    BY <1>1, <1>3 DEF SameNames
  <2> QED BY <2>1, <2>3, <2>4, <2>5 DEF Back, u
<1> QED BY <1>2, <1>3 DEF n

\* Renaming a control, and undoing it.
LEMMA RenameControlReturns ==
  ASSUME NEW time, NEW m, IsManager(m, time), Full(m), NEW id \in DOMAIN m.controls, NEW name
  PROVE  /\ Full(RenameTimecodeControl(m, id, name))
         /\ \A later, k : IsManager(k, later) /\ Full(k) /\ SameNames(k, RenameTimecodeControl(m, id, name)) =>
              /\ id \in DOMAIN k.controls
              /\ Back(m, k, RenameTimecodeControl(k, id, m.controls[id]))
<1> DEFINE n == RenameTimecodeControl(m, id, name)
<1>1. n.controls = [m.controls EXCEPT ![id] = name] /\ n.tracks = m.tracks
  BY RenamedControl
<1> HIDE DEF n
<1>2. DOMAIN n.controls = DOMAIN m.controls
  BY <1>1
<1>3. Full(n)
  BY <1>1, <1>2 DEF Full
<1>4. ASSUME NEW later, NEW k, IsManager(k, later), Full(k), SameNames(k, n)
      PROVE  /\ id \in DOMAIN k.controls
             /\ Back(m, k, RenameTimecodeControl(k, id, m.controls[id]))
  <2> DEFINE u == RenameTimecodeControl(k, id, m.controls[id])
  <2>1. u.controls = [k.controls EXCEPT ![id] = m.controls[id]] /\ u.tracks = k.tracks
    BY <1>4, RenamedControl
  <2> HIDE DEF u
  <2>2. /\ DOMAIN k.tracks = DOMAIN m.tracks /\ k.controls = [m.controls EXCEPT ![id] = name]
        /\ \A t \in DOMAIN k.tracks : k.tracks[t].name = m.tracks[t].name
    BY <1>1, <1>4 DEF SameNames
  <2>3. u.controls = m.controls
    <3>1. m.controls = [c \in DOMAIN m.controls |-> m.controls[c]]
      BY ManagerFacts, MapFacts
    <3> QED BY <2>1, <2>2, <3>1
  <2>4. DOMAIN k.controls = DOMAIN m.controls
    BY <1>2, <1>4 DEF SameNames
  <2>5. Full(u)
    BY <1>4, <2>1, <2>3, <2>4 DEF Full
  <2>6. SameNames(u, m)
    BY <2>1, <2>2, <2>3 DEF SameNames
  <2> QED BY <2>2, <2>4, <2>5, <2>6 DEF Back, u
<1> QED BY <1>3, <1>4 DEF n

\* Whatever a command is, its undo is right for the names that it leaves.
LEMMA ApplyReturns ==
  ASSUME NEW time \in Nat, NEW m, IsManager(m, time), Fresh(m), Full(m),
         NEW c \in Commands, Applies(m, c)
  PROVE  Full(Apply(m, c)) /\ Returns(Entry(m, c), Apply(m, c))
<1> DEFINE n == Apply(m, c)
           s == StateOf(m, c)
           Right == Full(n) /\ \A later, k : IsManager(k, later) /\ Full(k) /\ SameNames(k, n) =>
                                 Back(m, k, Revert(k, c, s))
<1>1. \A i, name, values : LET memento == Memento(i, name, values)
                           IN  memento.id = i /\ memento.name = name /\ memento.values = values
  BY DEF Memento
<1>2. ASSUME c.op = "addTrack" PROVE Right
  <2>1. n = AddTimecode(m, c.name) /\ s.id = m.nextTrack
    BY <1>1, <1>2 DEF Apply, StateOf
  <2>2. \A k : Revert(k, c, s) = RemoveTimecode(k, s.id)
    BY <1>2 DEF Revert
  <2> HIDE DEF n, s
  <2> QED BY <2>1, <2>2, AddTrackReturns
<1>3. ASSUME c.op = "addControl" PROVE Right
  <2>1. n = AddTimecodeControl(m, c.name) /\ s.id = m.nextControl
    BY <1>1, <1>3 DEF Apply, StateOf
  <2>2. \A k : Revert(k, c, s) = RemoveTimecodeControl(k, s.id)
    BY <1>3 DEF Revert
  <2> HIDE DEF n, s
  <2> QED BY <2>1, <2>2, AddControlReturns
<1>4. ASSUME c.op = "deleteTrack" PROVE Right
  <2>1. /\ n = RemoveTimecode(m, c.id) /\ c.id \in DOMAIN m.tracks
        /\ s.id = c.id /\ s.name = m.tracks[c.id].name /\ s.values = m.tracks[c.id].values
    BY <1>1, <1>4 DEF Apply, StateOf, Applies
  <2>2. \A k : Revert(k, c, s) = InsertTimecode(k, s.id, [name |-> s.name, values |-> s.values])
    BY <1>4 DEF Revert
  <2> HIDE DEF n, s
  <2> QED BY <2>1, <2>2, DeleteTrackReturns
<1>5. ASSUME c.op = "deleteControl" PROVE Right
  <2>1. /\ n = RemoveTimecodeControl(m, c.id) /\ c.id \in DOMAIN m.controls
        /\ s.id = c.id /\ s.name = m.controls[c.id] /\ s.values = CoursesOf(m, c.id)
    BY <1>1, <1>5 DEF Apply, StateOf, Applies
  <2>2. \A k : Revert(k, c, s) = InsertTimecodeControl(k, s.id, s.name, s.values)
    BY <1>5 DEF Revert
  <2> HIDE DEF n, s
  <2> QED BY <2>1, <2>2, DeleteControlReturns
<1>6. ASSUME c.op = "renameTrack" PROVE Right
  <2>1. /\ n = RenameTimecode(m, c.id, c.name) /\ c.id \in DOMAIN m.tracks
        /\ s.id = c.id /\ s.name = m.tracks[c.id].name
    BY <1>1, <1>6 DEF Apply, StateOf, Applies
  <2>2. \A k : s.id \in DOMAIN k.tracks => Revert(k, c, s) = RenameTimecode(k, s.id, s.name)
    BY <1>6 DEF Revert
  <2> HIDE DEF n, s
  <2> QED BY <2>1, <2>2, RenameTrackReturns
<1>7. ASSUME c.op = "renameControl" PROVE Right
  <2>1. /\ n = RenameTimecodeControl(m, c.id, c.name) /\ c.id \in DOMAIN m.controls
        /\ s.id = c.id /\ s.name = m.controls[c.id]
    BY <1>1, <1>7 DEF Apply, StateOf, Applies
  <2>2. \A k : s.id \in DOMAIN k.controls => Revert(k, c, s) = RenameTimecodeControl(k, s.id, s.name)
    BY <1>7 DEF Revert
  <2> HIDE DEF n, s
  <2> QED BY <2>1, <2>2, RenameControlReturns
<1>8. Right
  <2> HIDE DEF Right
  <2> QED BY <1>2, <1>3, <1>4, <1>5, <1>6, <1>7, CommandFacts
<1> DEFINE e == Entry(m, c)
<1>9. e.kept = TRUE /\ e.cmd = c /\ e.state = s /\ e.before = Content(m)
  BY DEF Entry
<1> HIDE DEF n, s, e
<1>10. ASSUME NEW k, NEW later \in Nat, IsManager(k, later), Full(k), SameNames(k, n)
       PROVE  Back(e.before, k, Undone(k, e))
  <2>1. Back(m, k, Revert(k, c, s))
    BY <1>8, <1>10
  <2>2. Undone(k, e) = Revert(k, c, s)
    BY <1>9 DEF Undone
  <2>3. Back(Content(m), k, Revert(k, c, s))
    BY <2>1 DEF Back, SameNames, Content
  <2> QED BY <1>9, <2>2, <2>3
<1>11. Returns(e, n)
  BY <1>10 DEF Returns
<1> QED BY <1>8, <1>11 DEF n, e

\* A redo that fails leaves nothing to undo.
LEMMA FailedReturns ==
  ASSUME NEW m, NEW e, Full(m)
  PROVE  Returns(Failed(m, e), m)
<1> DEFINE f == Failed(m, e)
<1>1. f.kept = FALSE /\ f.before = Content(m)
  BY DEF Failed
<1> HIDE DEF f
<1>2. ASSUME NEW k, Full(k), SameNames(k, m) PROVE Back(f.before, k, Undone(k, f))
  <2>1. Undone(k, f) = k
    BY <1>1 DEF Undone
  <2>2. Back(Content(m), k, k)
    BY <1>2 DEF Back, SameNames, Content
  <2> QED BY <1>1, <2>1, <2>2
<1> QED BY <1>2 DEF Returns, f

\* One entry more at the end of the history.
LEMMA ReturnsGrow ==
  ASSUME NEW e \in AllEntries, done \in Seq(AllEntries), done' = Append(done, e), HistoryReturns,
         SameNames(e.before, manager), Returns(e, manager')
  PROVE  HistoryReturns'
<1> DEFINE l == Len(done)
<1>1. /\ l \in Nat /\ Len(done') = l + 1 /\ done'[l + 1] = e /\ done' # <<>>
      /\ \A k \in 1 .. l : done'[k] = done[k]
  BY DEF l
<1>2. l \in 1 .. l => Returns(done[l], e.before)
  <2>1. l \in 1 .. l => done # <<>>
    OBVIOUS
  <2> QED BY <2>1, ReturnsAlike DEF HistoryReturns
<1>3. \A k \in 1 .. l - 1 : Returns(done[k], done[k + 1].before)
  BY DEF HistoryReturns
<1> HIDE DEF l
<1>4. ASSUME NEW k \in 1 .. l PROVE Returns(done'[k], done'[k + 1].before)
  <2>1. CASE k = l
    BY <1>1, <1>2, <1>4, <2>1
  <2>2. CASE k # l
    <3>1. k \in 1 .. l - 1 /\ k + 1 \in 1 .. l
      BY <1>1, <1>4, <2>2
    <3> QED BY <1>1, <1>3, <1>4, <3>1
  <2> QED BY <2>1, <2>2
<1>5. Len(done') - 1 = l
  BY <1>1
<1>6. Returns(done'[Len(done')], manager')
  BY <1>1
<1> QED BY <1>1, <1>4, <1>5, <1>6 DEF HistoryReturns

\* One entry less.
LEMMA ReturnsShrink ==
  ASSUME done \in Seq(AllEntries), done # <<>>, done' = SubSeq(done, 1, Len(done) - 1),
         HistoryReturns, SameNames(manager', done[Len(done)].before)
  PROVE  HistoryReturns'
<1> DEFINE l == Len(done)
<1>1. l \in Nat /\ l >= 1 /\ \A k \in 1 .. l - 1 : done[k] \in AllEntries
  BY DEF l
<1>2. Len(done') = l - 1 /\ (\A k \in 1 .. l - 1 : done'[k] = done[k]) /\ done' \in Seq(AllEntries)
  <2>1. done' = SubSeq(done, 1, l - 1)
    BY DEF l
  <2> HIDE DEF l
  <2>2. l - 1 \in Int /\ 1 \in Int
    BY <1>1
  <2>3. done \in Seq(AllEntries)
    OBVIOUS
  <2> QED BY <1>1, <2>1, <2>2, <2>3, SubSeqProperties
<1>3. \A k \in 1 .. l - 1 : Returns(done[k], done[k + 1].before)
  BY DEF HistoryReturns
<1>4. SameNames(manager', done[l].before)
  BY DEF l
<1> HIDE DEF l
<1>5. ASSUME NEW k \in 1 .. (l - 1) - 1 PROVE Returns(done'[k], done'[k + 1].before)
  <2>1. k \in 1 .. l - 1 /\ k + 1 \in 1 .. l - 1
    BY <1>1, <1>5
  <2> QED BY <1>2, <1>3, <2>1
<1>6. ASSUME done' # <<>> PROVE Returns(done'[l - 1], manager')
  <2>1. l - 1 \in 1 .. l - 1
    BY <1>1, <1>2, <1>6
  <2>2. (l - 1) + 1 = l
    BY <1>1
  <2>3. Returns(done[l - 1], done[l].before)
    BY <1>3, <2>1, <2>2
  <2> QED BY <1>2, <1>4, <2>1, <2>3, ReturnsAlike
<1> QED BY <1>2, <1>5, <1>6 DEF HistoryReturns

\* What a command that is run or redone leaves can be undone.
LEMMA CommandReturns ==
  ASSUME IInv, ReturnInv, (\E c \in Commands : Run(c)) \/ Redo
  PROVE  ReturnInv'
<1>1. /\ IsManager(manager, now) /\ now \in Nat
      /\ done \in Seq(AllEntries) /\ undone \in Seq(AllEntries)
      /\ ~crossed => Fresh(manager) /\ Full(manager) /\ Full(saved) /\ HistoryReturns
  BY DEF IInv, HistoryOK, FreshOK, CountersOK, ReturnInv
<1>2. SameNames(Content(manager), manager)
  BY DEF SameNames, Content
<1>3. ASSUME NEW c \in Commands, Applies(manager, c), manager' = Apply(manager, c),
             done' = Append(done, Entry(manager, c)), UNCHANGED <<saved, crossed>>,
             Entry(manager, c) \in AllEntries
      PROVE  ReturnInv'
  <2> SUFFICES ASSUME ~crossed PROVE Full(manager') /\ Full(saved) /\ HistoryReturns'
    BY <1>3 DEF ReturnInv
  <2> DEFINE e == Entry(manager, c)
  <2>1. Full(manager') /\ Returns(e, manager')
    BY <1>1, <1>3, ApplyReturns
  <2>2. e.before = Content(manager)
    BY DEF Entry
  <2>3. e \in AllEntries /\ done' = Append(done, e)
    BY <1>3
  <2> HIDE DEF e
  <2>4. HistoryReturns'
    BY <1>1, <1>2, <2>1, <2>2, <2>3, ReturnsGrow
  <2> QED BY <1>1, <2>1, <2>4
<1>4. ASSUME NEW c \in Commands, Applies(manager, c), IdsLeft PROVE Entry(manager, c) \in AllEntries
  <2>1. StateOf(manager, c) \in Mementos
    BY <1>1, <1>4, ApplyKeeps DEF IdsLeft
  <2>2. Content(manager) \in Contents
    BY <1>1, ContentIsSaved
  <2> QED BY <2>1, <2>2 DEF Entry, AllEntries
<1>5. ASSUME NEW c \in Commands, Run(c) PROVE ReturnInv'
  <2>1. /\ Applies(manager, c) /\ IdsLeft /\ manager' = Apply(manager, c)
        /\ done' = Append(done, Entry(manager, c)) /\ UNCHANGED <<saved, crossed>>
    BY <1>5 DEF Run
  <2> QED BY <1>3, <1>4, <2>1
<1>6. ASSUME Redo PROVE ReturnInv'
  <2> DEFINE u == undone[1]
             c == u.cmd
             f == Failed(manager, u)
  <2>1. u \in AllEntries
    BY <1>1, <1>6 DEF Redo
  <2>2. c \in Commands
    BY <2>1 DEF AllEntries
  <2>3. IdsLeft /\ UNCHANGED <<saved, crossed>>
    BY <1>6 DEF Redo
  <2>4. CASE Applies(manager, c)
    <3>1. manager' = Apply(manager, c) /\ done' = Append(done, Entry(manager, c))
      BY <1>6, <2>4 DEF Redo
    <3> HIDE DEF c
    <3> QED BY <1>3, <1>4, <2>2, <2>3, <2>4, <3>1
  <2>5. CASE ~Applies(manager, c)
    <3>1. manager' = manager /\ done' = Append(done, f)
      BY <1>6, <2>5 DEF Redo
    <3>2. f \in AllEntries /\ f.before = Content(manager)
      <4>1. Content(manager) \in Contents
        BY <1>1, ContentIsSaved
      <4> HIDE DEF u
      <4> QED BY <2>1, <4>1 DEF Failed, AllEntries
    <3>3. ~crossed => Returns(f, manager')
      BY <1>1, <3>1, FailedReturns
    <3> HIDE DEF f
    <3>4. ~crossed => HistoryReturns'
      BY <1>1, <1>2, <3>1, <3>2, <3>3, ReturnsGrow
    <3> QED BY <1>1, <2>3, <3>1, <3>4 DEF ReturnInv
  <2> QED BY <2>4, <2>5
<1> QED BY <1>5, <1>6

\* Undo brings back what the last command found.
LEMMA UndoReturns ==
  ASSUME IInv, ReturnInv, Undo
  PROVE  /\ ReturnInv'
         /\ ~crossed => Back(done[Len(done)].before, manager, manager')
<1> DEFINE e == done[Len(done)]
<1>1. /\ IsManager(manager, now) /\ now \in Nat /\ done \in Seq(AllEntries)
      /\ ~crossed => Full(manager) /\ Full(saved) /\ HistoryReturns
  BY DEF IInv, HistoryOK, CountersOK, ReturnInv
<1>2. /\ done # <<>> /\ manager' = Undone(manager, e) /\ done' = SubSeq(done, 1, Len(done) - 1)
      /\ UNCHANGED <<saved, crossed>>
  BY DEF Undo, Undone
<1>3. ASSUME ~crossed PROVE Back(e.before, manager, manager')
  <2>1. Returns(e, manager)
    BY <1>1, <1>2, <1>3 DEF HistoryReturns
  <2> HIDE DEF e
  <2> QED BY <1>1, <1>2, <1>3, <2>1, SameNamesJoin DEF Returns
<1>4. ASSUME ~crossed PROVE Full(manager') /\ HistoryReturns'
  <2>1. Full(manager') /\ SameNames(manager', e.before)
    BY <1>3, <1>4 DEF Back
  <2> QED BY <1>1, <1>2, <1>4, <2>1, ReturnsShrink
<1> QED BY <1>1, <1>2, <1>3, <1>4 DEF ReturnInv

\* A step that keeps names and courses in their places, and the history.
LEMMA QuietReturns ==
  ASSUME ReturnInv, UNCHANGED <<done, crossed>>, SameNames(manager', manager),
         ~crossed => Full(manager') /\ Full(saved')
  PROVE  ReturnInv'
<1>1. ~crossed => HistoryReturns'
  BY ReturnsAlike DEF ReturnInv, HistoryReturns
<1> QED BY <1>1 DEF ReturnInv

\* Saving, opening and starting: what is opened has no history across it.
LEMMA ProjectReturns ==
  ASSUME IInv, ReturnInv, SaveProject \/ OpenProject \/ Restart
  PROVE  ReturnInv'
<1> DEFINE loaded == LoadTimecodes(EmptyManager, saved.tracks, saved.controls)
<1>1. loaded.tracks = saved.tracks /\ loaded.controls = saved.controls
  BY DEF LoadTimecodes, EmptyManager
<1>2. Full(saved) => Full(loaded)
  BY <1>1 DEF Full
<1> HIDE DEF loaded
<1>3. CASE SaveProject
  <2>1. saved' = Content(manager) /\ UNCHANGED <<manager, done, crossed>>
    BY <1>3 DEF SaveProject
  <2>2. Full(manager) => Full(saved')
    BY <2>1 DEF Full, Content
  <2>3. SameNames(manager', manager)
    BY <2>1, SameNamesJoin
  <2> QED BY <2>1, <2>2, <2>3, QuietReturns DEF ReturnInv
<1>4. CASE OpenProject
  <2>1. /\ manager' = loaded /\ crossed' = (crossed \/ done # <<>> \/ undone # <<>>)
        /\ UNCHANGED <<saved, done>>
    BY <1>4 DEF OpenProject, loaded
  <2>2. ASSUME ~crossed' PROVE ~crossed /\ done' = <<>>
    BY <2>1, <2>2
  <2>3. done' = <<>> => HistoryReturns'
    BY DEF HistoryReturns
  <2> QED BY <1>2, <2>1, <2>2, <2>3 DEF ReturnInv
<1>5. CASE Restart
  <2>1. manager' = loaded /\ done' = <<>> /\ UNCHANGED <<saved, crossed>>
    BY <1>5 DEF Restart, loaded
  <2>2. done' = <<>> => HistoryReturns'
    BY DEF HistoryReturns
  <2> QED BY <1>2, <2>1, <2>2 DEF ReturnInv
<1> QED BY <1>3, <1>4, <1>5

\* What plays and records keeps the names, and the courses in their places.
LEMMA PlayReturns ==
  ASSUME IInv, ReturnInv,
         \/ Start \/ Stop \/ Chase \/ StartRecording \/ StopRecording \/ Record \/ AdvanceFrame
  PROVE  ReturnInv'
<1>1. IsManager(manager, now)
  BY DEF IInv
<1>2. ASSUME manager'.tracks = manager.tracks, manager'.controls = manager.controls,
             UNCHANGED <<saved, done, crossed>>
      PROVE  ReturnInv'
  <2>1. SameNames(manager', manager) /\ (Full(manager) => Full(manager'))
    BY <1>2 DEF SameNames, Full
  <2> QED BY <1>2, <2>1, QuietReturns DEF ReturnInv
<1>3. CASE Start \/ Stop \/ Chase \/ StartRecording \/ StopRecording
  <2>1. UNCHANGED <<saved, done, crossed>>
    BY <1>3 DEF Start, Stop, Chase, StartRecording, StopRecording, ByNode
  <2>2. \A id, state : LET m == SetState(manager, id, state)
                       IN  m.tracks = manager.tracks /\ m.controls = manager.controls
    BY <1>1 DEF SetState, IsManager, Managers
  <2>3. \A R : LET m == [manager EXCEPT !.recording = R]
               IN  m.tracks = manager.tracks /\ m.controls = manager.controls
    BY <1>1 DEF IsManager, Managers
  <2> DEFINE Quiet == manager'.tracks = manager.tracks /\ manager'.controls = manager.controls
  <2>4. ASSUME Start PROVE Quiet
    BY <2>2, <2>4 DEF Start, ByNode, StartTrack
  <2>5. ASSUME Stop PROVE Quiet
    BY <2>2, <2>5 DEF Stop, ByNode, StopTrack
  <2>6. ASSUME Chase PROVE Quiet
    BY <2>2, <2>6 DEF Chase, ByNode, WriteTimestamp
  <2>7. ASSUME StartRecording PROVE Quiet
    BY <2>3, <2>7 DEF StartRecording, ByNode
  <2>8. ASSUME StopRecording PROVE Quiet
    BY <2>3, <2>8 DEF StopRecording, ByNode
  <2> QED BY <1>2, <1>3, <2>1, <2>4, <2>5, <2>6, <2>7, <2>8
<1>4. CASE Record
  <2>1. PICK control, value, ids : manager' = RecordInto(manager, ids, control, value)
    BY <1>4 DEF Record
  <2>2. UNCHANGED <<saved, done, crossed>>
    BY <1>4 DEF Record
  <2>3. /\ DOMAIN manager'.tracks = DOMAIN manager.tracks /\ manager'.controls = manager.controls
        /\ \A t \in DOMAIN manager.tracks :
             /\ manager'.tracks[t].name = manager.tracks[t].name
             /\ DOMAIN manager'.tracks[t].values = DOMAIN manager.tracks[t].values
    <3> DEFINE Recorded(t) == [manager.tracks[t].values EXCEPT ![control] =
                                 AddSimpleStep(@, now - manager.states[t].start, value)]
    <3>1. /\ DOMAIN manager'.tracks = DOMAIN manager.tracks /\ manager'.controls = manager.controls
          /\ \A t \in DOMAIN manager.tracks : manager'.tracks[t] =
               IF t \in ids /\ control \in DOMAIN manager.tracks[t].values
               THEN [manager.tracks[t] EXCEPT !.values = Recorded(t)] ELSE manager.tracks[t]
      BY <1>1, <2>1 DEF RecordInto, IsManager, Managers
    <3>2. ASSUME NEW t \in DOMAIN manager.tracks
          PROVE  /\ manager'.tracks[t].name = manager.tracks[t].name
                 /\ DOMAIN manager'.tracks[t].values = DOMAIN manager.tracks[t].values
      <4> DEFINE v == Recorded(t)
      <4>1. DOMAIN v = DOMAIN manager.tracks[t].values
        OBVIOUS
      <4>2. manager'.tracks[t] = [manager.tracks[t] EXCEPT !.values = v] \/ manager'.tracks[t] = manager.tracks[t]
        BY <3>1
      <4> HIDE DEF v
      <4>3. /\ [manager.tracks[t] EXCEPT !.values = v].name = manager.tracks[t].name
            /\ [manager.tracks[t] EXCEPT !.values = v].values = v
        BY <1>1, ManagerFacts DEF Track
      <4> QED BY <4>1, <4>2, <4>3
    <3> QED BY <3>1, <3>2
  <2>4. SameNames(manager', manager) /\ (Full(manager) => Full(manager'))
    BY <2>3 DEF SameNames, Full
  <2> QED BY <2>2, <2>4, QuietReturns DEF ReturnInv
<1>5. CASE AdvanceFrame
  <2>1. manager' = AdvanceTimecodes(manager, now + 1) /\ UNCHANGED <<saved, done, crossed>>
    BY <1>5 DEF AdvanceFrame
  <2>2. manager'.tracks = manager.tracks /\ manager'.controls = manager.controls
    BY <1>1, <2>1 DEF AdvanceTimecodes, IsManager, Managers
  <2> QED BY <1>2, <2>1, <2>2
<1> QED BY <1>3, <1>4, <1>5

\* Every undo of the history is right, always.
LEMMA HistoryAlwaysReturns == Spec => []ReturnInv
<1>1. Init => ReturnInv
  BY DEF Init, ReturnInv, Full, HistoryReturns, EmptyManager, NoEntries
<1>2. IInv /\ ReturnInv /\ [Next]_vars => ReturnInv'
  <2> SUFFICES ASSUME IInv, ReturnInv, [Next]_vars PROVE ReturnInv'
    OBVIOUS
  <2>1. CASE (\E c \in Commands : Run(c)) \/ Redo
    BY <2>1, CommandReturns
  <2>2. CASE Undo
    BY <2>2, UndoReturns
  <2>3. CASE SaveProject \/ OpenProject \/ Restart
    BY <2>3, ProjectReturns
  <2>4. CASE \/ Start \/ Stop \/ Chase \/ StartRecording \/ StopRecording \/ Record \/ AdvanceFrame
    BY <2>4, PlayReturns
  <2>5. CASE UNCHANGED vars
    BY <2>5 DEF vars, ReturnInv, HistoryReturns
  <2> QED BY <2>1, <2>2, <2>3, <2>4, <2>5 DEF Next
<1> QED BY <1>1, <1>2, InvariantHolds, PTL DEF Spec

-----------------------------------------------------------------------------
(* The properties *)

\* The manager's parts are of their types, its tracks have states, and none
\* plays from a time to come.
THEOREM TypeCorrect == Spec => []TypeOK
<1>1. IInv => TypeOK
  <2> SUFFICES ASSUME IInv PROVE TypeOK
    OBVIOUS
  <2>1. IsManager(manager, now) /\ CountersOK
    BY DEF IInv
  <2>2. manager.nextTrack \in Nat /\ manager.nextControl \in Nat
    BY <2>1, ManagerFacts, BoundsAssumption
  <2>3. \A t \in DOMAIN manager.states :
          manager.states[t] \in [playing : BOOLEAN, start : Int, timestamp : Nat]
    BY <2>1, ManagerFacts DEF State
  <2> QED BY <2>1, <2>2, <2>3 DEF TypeOK, IsManager, CountersOK
<1> QED BY <1>1, InvariantHolds, PTL

\* A track that does not play stands at zero, so that no output reads it.
THEOREM OnlyPlayingRuns == Spec => []RunningIsPlaying
<1>1. IInv => RunningIsPlaying
  BY ManagerFacts DEF IInv, RunningIsPlaying, State
<1> QED BY <1>1, InvariantHolds, PTL

\* The steps of every course stay in the order of time.
THEOREM CoursesStayOrdered == Spec => []CoursesAreOrdered
<1>1. IInv => CoursesAreOrdered
  BY ManagerFacts, TrackFacts DEF IInv, CoursesAreOrdered, Course
<1> QED BY <1>1, InvariantHolds, PTL

\* A new id is none that exists or that the history names.
THEOREM IdsStayFresh == Spec => []IdsAreFresh
<1>1. IInv => IdsAreFresh
  <2> SUFFICES ASSUME IInv, ~crossed PROVE IdsAreFresh
    BY DEF IdsAreFresh
  <2>1. Fresh(manager) /\ AllGiven(manager, done) /\ AllGiven(manager, undone)
    BY DEF IInv, FreshOK
  <2>2. DOMAIN done = 1 .. Len(done) /\ DOMAIN undone = 1 .. Len(undone)
    BY DEF IInv, HistoryOK
  <2>3. \A e \in Entries : Given(manager, e.cmd, e.state)
    BY <2>1, <2>2 DEF Entries, AllGiven
  <2> QED BY <2>1, <2>3 DEF IdsAreFresh, Fresh, Given
<1> QED BY <1>1, InvariantHolds, PTL

\* A pass over a recorded course takes nothing of what lies before it.
THEOREM ThePastIsKept == Spec => RecordingKeepsThePast
<1> DEFINE Keeps ==
      \A t \in DOMAIN manager.tracks \cap DOMAIN manager'.tracks :
        \A c \in DOMAIN manager.tracks[t].values \cap DOMAIN manager'.tracks[t].values :
          LET old == manager.tracks[t].values[c]
              new == manager'.tracks[t].values[c]
          IN  records' # records =>
                \A n \in DOMAIN old :
                  old[n].x < now - manager.states[t].start => n \in DOMAIN new /\ new[n] = old[n]
<1>1. IInv /\ [Next]_vars => [Keeps]_vars
  <2> SUFFICES ASSUME IInv, Next, records' # records PROVE Keeps
    OBVIOUS
  <2>1. Record
    BY DEF Next, Run, Undo, Redo, SaveProject, OpenProject, Restart, Start, Stop, Chase,
           StartRecording, StopRecording, ByNode, AdvanceFrame
  <2> QED BY <2>1, RecordKeeps
<1> QED BY <1>1, InvariantHolds, PTL DEF Spec, RecordingKeepsThePast

\* Tracks and controls stay matched through adding, deleting, undo, redo and loading.
THEOREM TracksKeepAllControls == Spec => []TracksHaveAllControls
<1>1. ReturnInv => TracksHaveAllControls
  BY DEF ReturnInv, Full, TracksHaveAllControls
<1> QED BY <1>1, HistoryAlwaysReturns, PTL

\* Undo brings back the names, and the values of what it brings back.
THEOREM UndoAlwaysRestores == Spec => UndoRestores
<1> DEFINE Restores == Undo /\ ~crossed =>
      LET e == done[Len(done)]
      IN  /\ Named(Content(manager')) = Named(e.before)
          /\ \A t \in DOMAIN e.before.tracks : \A c \in DOMAIN e.before.controls :
               t \notin DOMAIN manager.tracks \/ c \notin DOMAIN manager.controls =>
                 /\ c \in DOMAIN manager'.tracks[t].values
                 /\ manager'.tracks[t].values[c] = e.before.tracks[t].values[c]
<1>1. IInv /\ ReturnInv => Restores
  <2> SUFFICES ASSUME IInv, ReturnInv, Undo, ~crossed PROVE Restores
    OBVIOUS
  <2> DEFINE e == done[Len(done)]
  <2>1. Back(e.before, manager, manager')
    BY UndoReturns
  <2> HIDE DEF e
  <2>2. SameNames(Content(manager'), e.before)
    BY <2>1 DEF Back, SameNames, Content
  <2>3. Named(Content(manager')) = Named(e.before)
    BY <2>2, NamedAlike
  <2> QED BY <2>1, <2>3 DEF Back, e
<1>2. IInv /\ ReturnInv /\ [Next]_vars => [Restores]_vars
  BY <1>1
<1> QED BY <1>2, InvariantHolds, HistoryAlwaysReturns, PTL DEF Spec, UndoRestores

=============================================================================
