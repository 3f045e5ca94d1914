---------------------------- MODULE PlanCommands ----------------------------
(* The commands that edit the plans of a venue (components/plan): where    *)
(* its fixtures, screens and images are. A plan is                         *)
(*   [name, fixtures, screens, images]                                     *)
(* with the fixtures a sequence of [fixture, x, y], in which a fixture can *)
(* be placed several times. Lengths are whole numbers: a fixture is Unit   *)
(* wide and high, and Unit is even, so that halving a distance is exact as *)
(* long as plans are turned a few times only. The order of screens and     *)
(* images is left out, and so are spreading in a circle and turning by     *)
(* other than quarters.                                                    *)
EXTENDS NodeCommands, Integers

Unit == 16

PlanNamed(doc, name) == SelectInSeq(doc.plans, LAMBDA plan : plan.name = name)
PlanNames(doc) == {plan.name : plan \in ToSet(doc.plans)}
PlanOf(doc, name) == doc.plans[PlanNamed(doc, name)]

\* update_plan: change the plan of a name, or fail if there is none.
UpdatePlan(doc, name, Change(_)) ==
  IF name \in PlanNames(doc)
  THEN [doc EXCEPT !.plans[PlanNamed(doc, name)] = Change(@)] ELSE Failed(doc)

NewPlan(name) == [name |-> name, fixtures |-> <<>>, screens |-> {}, images |-> <<>>]

ApplyAddPlan(doc, c) == Applied([doc EXCEPT !.plans = Append(@, NewPlan(c.name))], NoState)
RevertAddPlan(doc, c) ==
  [doc EXCEPT !.plans = SelectSeq(@, LAMBDA plan : plan.name # c.name)]

ApplyRemovePlan(doc, c) ==
  IF c.name \in PlanNames(doc)
  THEN Applied([doc EXCEPT !.plans = RemoveAt(@, PlanNamed(doc, c.name))], PlanOf(doc, c.name))
  ELSE Applied(Failed(doc), NoState)

RevertRemovePlan(doc, plan) == [doc EXCEPT !.plans = Append(@, plan)]

RenamePlan(doc, from, to) == UpdatePlan(doc, from, LAMBDA plan : [plan EXCEPT !.name = to])

-----------------------------------------------------------------------------
(* Fixtures. Commands name fixtures by sequences of ids; those that are    *)
(* not placed are passed over.                                             *)

PlacesNamed(plan, ids) == SelectSeq(plan.fixtures, LAMBDA p : Contains(ids, p.fixture))
PlacedAmong(plan, ids) == {p.fixture : p \in ToSet(PlacesNamed(plan, ids))}
At(p) == [x |-> p.x, y |-> p.y]

\* Where the fixtures are; of one that is placed twice the later place counts.
PlacesOf(plan, ids) ==
  [f \in PlacedAmong(plan, ids) |->
     At(plan.fixtures[SelectLastInSeq(plan.fixtures, LAMBDA p : p.fixture = f)])]

\* Every place of the fixtures is changed, knowing how many of theirs it follows.
ChangePlaces(plan, ids, New(_, _)) ==
  LET before(n) == Len(PlacesNamed([plan EXCEPT !.fixtures = SubSeq(@, 1, n - 1)], ids))
      changed(n, p) == IF Contains(ids, p.fixture)
                       THEN [p EXCEPT !.x = New(before(n), p).x, !.y = New(before(n), p).y] ELSE p
  IN  [plan EXCEPT !.fixtures = [n \in DOMAIN @ |-> changed(n, @[n])]]

ApplyAddToPlan(doc, c) ==
  LET placed == [n \in DOMAIN c.ids |-> [fixture |-> c.ids[n], x |-> (n - 1) * Unit, y |-> 0]]
  IN  Applied(UpdatePlan(doc, c.name, LAMBDA plan : [plan EXCEPT !.fixtures = @ \o placed]), NoState)

\* What the revert retains are the fixtures that were added.
RevertAddToPlan(doc, c) ==
  UpdatePlan(doc, c.name, LAMBDA plan : [plan EXCEPT !.fixtures = PlacesNamed(plan, c.ids)])

AllKept(doc, c, state) == PlacedAmong(PlanOf(doc, c.name), c.ids) \subseteq DOMAIN state

\* Fixtures go back where they were. One that is placed by now and was not
\* when the command ran is unwrapped all the same.
PutBack(doc, c, state) ==
  IF c.name \notin PlanNames(doc) THEN Failed(doc)
  ELSE IF ~AllKept(doc, c, state) THEN Panicked(doc, "plan")
  ELSE UpdatePlan(doc, c.name,
                  LAMBDA plan : ChangePlaces(plan, c.ids, LAMBDA n, p : state[p.fixture]))

\* The same, but what was kept is added to where they are.
ShiftBack(doc, c, state) ==
  LET shifted(p, by) == [x |-> p.x + by.x, y |-> p.y + by.y]
  IN  IF c.name \notin PlanNames(doc) THEN Failed(doc)
      ELSE IF ~AllKept(doc, c, state) THEN Panicked(doc, "plan")
      ELSE UpdatePlan(doc, c.name, LAMBDA plan :
             ChangePlaces(plan, c.ids, LAMBDA n, p : shifted(p, state[p.fixture])))

\* A change of all the places, which keeps where they were.
Rearranged(doc, c, New(_, _)) ==
  Applied(UpdatePlan(doc, c.name, LAMBDA plan : ChangePlaces(plan, c.ids, New)),
          PlacesOf(PlanOf(doc, c.name), c.ids))

ApplyMoveInPlan(doc, c) ==
  LET moved(n, p) == [x |-> p.x + c.by.x * Unit, y |-> p.y + c.by.y * Unit]
  IN  IF c.name \in PlanNames(doc) THEN Rearranged(doc, c, moved)
      ELSE Applied(Failed(doc), NoState)

\* Rows of c.groups fixtures, or columns, from the place of the first.
ApplyAlign(doc, c) ==
  LET origin == PlacesNamed(PlanOf(doc, c.name), c.ids)[1]
      place(across, down) == [x |-> origin.x + across * (c.columnGap + 1) * Unit,
                              y |-> origin.y + down * (c.rowGap + 1) * Unit]
      aligned(n, p) == IF c.rows THEN place(n % c.groups, n \div c.groups)
                       ELSE place(n \div c.groups, n % c.groups)
  IN  IF c.name \notin PlanNames(doc) THEN Applied(Failed(doc), NoState)
      ELSE IF PlacedAmong(PlanOf(doc, c.name), c.ids) = {} THEN Applied(doc, <<>>)
      ELSE IF c.groups = 0 THEN Applied(Panicked(doc, "plan"), NoState)
      ELSE Rearranged(doc, c, aligned)

\* The place of the fixture of a number on a side of a square or a triangle;
\* those that are left over come to one corner.
OnSide(shape, side, number, length) ==
  CASE shape = "square" /\ side = 0 -> [x |-> number, y |-> 0]
    [] shape = "square" /\ side = 1 -> [x |-> length, y |-> number]
    [] shape = "square" /\ side = 2 -> [x |-> length - number, y |-> length]
    [] shape = "square" /\ side = 3 -> [x |-> 0, y |-> length - number]
    [] shape = "triangle" /\ side = 0 -> [x |-> number, y |-> length - number]
    [] shape = "triangle" /\ side = 1 -> [x |-> length + number, y |-> number]
    [] shape = "triangle" /\ side = 2 -> [x |-> (length - number) * 2, y |-> length]
    [] OTHER -> [x |-> 0, y |-> 0]

\* The fixtures are taken in the order of the command. What is kept is where
\* they went, not where they were.
ApplySpread(doc, c) ==
  LET plan   == PlanOf(doc, c.name)
      placed == SelectSeq(c.ids, LAMBDA f : f \in PlacedAmong(plan, c.ids))
      length == Len(placed) \div (IF c.shape = "square" THEN 4 ELSE 3)
      spread(n) == OnSide(c.shape, (n - 1) \div length, ((n - 1) % length) * Unit, length * Unit)
      to == [f \in ToSet(placed) |-> spread(SelectLastInSeq(placed, LAMBDA g : g = f))]
  IN  IF c.name \notin PlanNames(doc) THEN Applied(Failed(doc), NoState)
      ELSE IF placed = <<>> THEN Applied(doc, <<>>)
      ELSE IF length = 0 THEN Applied(Panicked(doc, "plan"), NoState)
      ELSE Applied(Rearranged(doc, c, LAMBDA n, p : to[p.fixture]).doc, to)

\* Turned by quarters around the middle of the box that holds them.
ApplyTransform(doc, c) ==
  LET among == ToSet(PlacesNamed(PlanOf(doc, c.name), c.ids))
      xs == {p.x : p \in among}
      ys == {p.y : p \in among}
      centerX == (Min(xs) + Max(xs)) \div 2
      centerY == (Min(ys) + Max(ys)) \div 2
      turned(n, p) == IF c.quarters = 1
                      THEN [x |-> centerX - (p.y - centerY), y |-> centerY + (p.x - centerX)]
                      ELSE [x |-> 2 * centerX - p.x, y |-> 2 * centerY - p.y]
  IN  IF c.name \notin PlanNames(doc) THEN Applied(Failed(doc), NoState)
      ELSE IF among = {} THEN Applied(Panicked(doc, "plan"), NoState)
      ELSE Rearranged(doc, c, turned)

-----------------------------------------------------------------------------
(* Screens get the number after the highest of the plan; images an id that *)
(* is drawn anew whenever a command adds one.                              *)

ApplyAddScreen(doc, c) ==
  LET id == Max(PlanOf(doc, c.name).screens \cup {0}) + 1
  IN  IF c.name \in PlanNames(doc)
      THEN Applied(UpdatePlan(doc, c.name, LAMBDA plan : [plan EXCEPT !.screens = @ \cup {id}]), id)
      ELSE Applied(Failed(doc), NoState)

RevertAddScreen(doc, c, id) ==
  UpdatePlan(doc, c.name, LAMBDA plan : [plan EXCEPT !.screens = @ \ {id}])

PlaceImage(doc, name, id, image) ==
  UpdatePlan(doc, name, LAMBDA plan : [plan EXCEPT !.images = (id :> image) @@ @])

ApplyAddImage(doc, c) ==
  Applied(PlaceImage([doc EXCEPT !.fresh = @ + 1], c.name, doc.fresh, [position |-> 0, size |-> 0]),
          doc.fresh)

RevertAddImage(doc, c, id) ==
  UpdatePlan(doc, c.name, LAMBDA plan : [plan EXCEPT !.images = Without(@, {id})])

HasImage(doc, c) == c.name \in PlanNames(doc) /\ c.id \in DOMAIN PlanOf(doc, c.name).images
ImageOf(doc, c) == PlanOf(doc, c.name).images[c.id]

ApplyRemoveImage(doc, c) ==
  IF HasImage(doc, c) THEN Applied(RevertAddImage(doc, c, c.id), ImageOf(doc, c))
  ELSE Applied(Failed(doc), NoState)

SetImage(doc, c, field, value) ==
  IF HasImage(doc, c)
  THEN [doc EXCEPT !.plans[PlanNamed(doc, c.name)].images[c.id][field] = value] ELSE Failed(doc)

ChangeImage(doc, c, field) ==
  Applied(SetImage(doc, c, field, c.value),
          IF HasImage(doc, c) THEN ImageOf(doc, c)[field] ELSE NoState)

MoveImage(doc, c)   == ChangeImage(doc, c, "position")
ResizeImage(doc, c) == ChangeImage(doc, c, "size")

-----------------------------------------------------------------------------

PlanOps == {"addPlan", "removePlan", "renamePlan", "addToPlan", "moveInPlan", "align", "spread",
            "transform", "addScreen", "addImage", "removeImage", "moveImage", "resizeImage"}

ApplyToPlans(doc, c) ==
  CASE c.op = "addPlan"     -> ApplyAddPlan(doc, c)
    [] c.op = "removePlan"  -> ApplyRemovePlan(doc, c)
    [] c.op = "renamePlan"  -> Applied(RenamePlan(doc, c.name, c.to), c.name)
    [] c.op = "addToPlan"   -> ApplyAddToPlan(doc, c)
    [] c.op = "moveInPlan"  -> ApplyMoveInPlan(doc, c)
    [] c.op = "align"       -> ApplyAlign(doc, c)
    [] c.op = "spread"      -> ApplySpread(doc, c)
    [] c.op = "transform"   -> ApplyTransform(doc, c)
    [] c.op = "addScreen"   -> ApplyAddScreen(doc, c)
    [] c.op = "addImage"    -> ApplyAddImage(doc, c)
    [] c.op = "removeImage" -> ApplyRemoveImage(doc, c)
    [] c.op = "moveImage"   -> MoveImage(doc, c)
    [] c.op = "resizeImage" -> ResizeImage(doc, c)

RevertOnPlans(doc, c, state) ==
  CASE c.op = "addPlan"     -> RevertAddPlan(doc, c)
    [] c.op = "removePlan"  -> RevertRemovePlan(doc, state)
    [] c.op = "renamePlan"  -> RenamePlan(doc, c.to, state)
    [] c.op = "addToPlan"   -> RevertAddToPlan(doc, c)
    [] c.op \in {"moveInPlan", "transform"} -> PutBack(doc, c, state)
    [] c.op \in {"align", "spread"} -> ShiftBack(doc, c, state)
    [] c.op = "addScreen"   -> RevertAddScreen(doc, c, state)
    [] c.op = "addImage"    -> RevertAddImage(doc, c, state)
    [] c.op = "removeImage" -> PlaceImage(doc, c.name, c.id, state)
    [] c.op = "moveImage"   -> SetImage(doc, c, "position", state)
    [] c.op = "resizeImage" -> SetImage(doc, c, "size", state)
=============================================================================
