-------------------------- MODULE ConnectionCommands --------------------------
(* The commands that edit what the program is connected to: OSC and MQTT   *)
(* connections, inputs and outputs of DMX, the profiles of MIDI devices    *)
(* and the sections of control surfaces (components/connections/protocols, *)
(* components/surfaces). OSC and MQTT do the same, and one protocol stands *)
(* for both. Sockets and the threads behind them are left out, and with    *)
(* them that they can fail.                                                *)
(*                                                                         *)
(* doc.connections and doc.inputs map numbers to settings, doc.outputs     *)
(* names to [type, settings], doc.profiles devices to profiles (0 is       *)
(* none) and doc.sections sections to [input, output].                     *)
EXTENDS NodeCommands, FiniteSets

Put(doc, table, key, value) == [doc EXCEPT ![table] = (key :> value) @@ @]
Drop(doc, table, key) == [doc EXCEPT ![table] = Without(@, {key})]
Holds(doc, table, key) == key \in DOMAIN doc[table]

\* Remove, or replace, what is known under a key, and keep it.
Removed(doc, table, key) ==
  IF Holds(doc, table, key) THEN Applied(Drop(doc, table, key), doc[table][key])
  ELSE Applied(Failed(doc), NoState)

Exchanged(doc, table, key, value) ==
  IF Holds(doc, table, key) THEN Applied(Put(doc, table, key, value), doc[table][key])
  ELSE Applied(Failed(doc), NoState)

-----------------------------------------------------------------------------
(* OSC and MQTT. A connection is numbered by how many there are, whether   *)
(* or not there is one of that number.                                     *)

NextNumber(doc, table) == Cardinality(DOMAIN doc[table])

ApplyAddConnection(doc, c) ==
  LET id == NextNumber(doc, "connections")
  IN  Applied(Put(doc, "connections", id, c.settings), id)
RevertAddConnection(doc, id) == Drop(doc, "connections", id)

ApplyConfigureConnection(doc, c) == Exchanged(doc, "connections", c.id, c.settings)
RevertConfigureConnection(doc, c, settings) == Exchanged(doc, "connections", c.id, settings).doc

ApplyDeleteConnection(doc, c) == Removed(doc, "connections", c.id)
RevertDeleteConnection(doc, c, settings) == Put(doc, "connections", c.id, settings)

-----------------------------------------------------------------------------
(* Inputs and outputs of DMX. *)

ApplyAddInput(doc, c) ==
  LET id == NextNumber(doc, "inputs")
  IN  Applied(Put(doc, "inputs", id, c.settings), id)
RevertAddInput(doc, id) == Removed(doc, "inputs", id).doc

ApplyConfigureInput(doc, c) == Exchanged(doc, "inputs", c.id, c.settings)
RevertConfigureInput(doc, c, settings) == Exchanged(doc, "inputs", c.id, settings).doc

ApplyDeleteInput(doc, c) == Removed(doc, "inputs", c.id)
RevertDeleteInput(doc, c, settings) == Put(doc, "inputs", c.id, settings)

\* Outputs go by the names that users give them.
Output(c) == [type |-> c.type, settings |-> c.settings]
ApplyAddArtnetOutput(doc, c) == Applied(Put(doc, "outputs", c.name, Output(c)), NoState)
ApplyAddSacnOutput(doc, c) == Applied(Put(doc, "outputs", c.name, Output(c)), NoState)
RevertAddOutput(doc, c) == Removed(doc, "outputs", c.name).doc

\* A new output of the new name takes the place of the old one.
ReplaceOutput(doc, c) ==
  IF ~Holds(doc, "outputs", c.id) \/ doc.outputs[c.id].type # c.type
  THEN Applied(Failed(doc), NoState)
  ELSE Applied(Put(Drop(doc, "outputs", c.id), "outputs", c.name, Output(c)), doc.outputs[c.id])

ApplyConfigureArtnetOutput(doc, c) == ReplaceOutput(doc, c)
ApplyConfigureSacnOutput(doc, c) == ReplaceOutput(doc, c)

RevertConfigureOutput(doc, c, output) ==
  IF Holds(doc, "outputs", c.name)
  THEN Put(Drop(doc, "outputs", c.name), "outputs", c.id, output) ELSE Failed(doc)

ApplyDeleteOutput(doc, c) == Removed(doc, "outputs", c.name)
RevertDeleteOutput(doc, c, output) == Put(doc, "outputs", c.name, output)

-----------------------------------------------------------------------------
(* Devices and surfaces. *)

\* What is kept is no profile, whatever the device had.
ApplyChangeProfile(doc, c) ==
  Applied(Exchanged(doc, "profiles", c.device, c.profile).doc, 0)
RevertChangeProfile(doc, c, profile) == Exchanged(doc, "profiles", c.device, profile).doc

\* Either side of a section can be given; both are put back.
ApplyUpdateSection(doc, c) ==
  IF Holds(doc, "sections", c.id)
  THEN Applied([doc EXCEPT !.sections[c.id] = c.sides @@ @], doc.sections[c.id])
  ELSE Applied(Failed(doc), NoState)
RevertUpdateSection(doc, c, section) == Exchanged(doc, "sections", c.id, section).doc

-----------------------------------------------------------------------------

ConnectionOps == {"addConnection", "configureConnection", "deleteConnection", "addInput",
                  "configureInput", "deleteInput", "addOutput", "configureOutput", "deleteOutput",
                  "changeProfile", "updateSection"}

ApplyToConnections(doc, c) ==
  CASE c.op = "addConnection"       -> ApplyAddConnection(doc, c)
    [] c.op = "configureConnection" -> ApplyConfigureConnection(doc, c)
    [] c.op = "deleteConnection"    -> ApplyDeleteConnection(doc, c)
    [] c.op = "addInput"            -> ApplyAddInput(doc, c)
    [] c.op = "configureInput"      -> ApplyConfigureInput(doc, c)
    [] c.op = "deleteInput"         -> ApplyDeleteInput(doc, c)
    [] c.op = "addOutput" /\ c.type = "artnet" -> ApplyAddArtnetOutput(doc, c)
    [] c.op = "addOutput" /\ c.type = "sacn"   -> ApplyAddSacnOutput(doc, c)
    [] c.op = "configureOutput" /\ c.type = "artnet" -> ApplyConfigureArtnetOutput(doc, c)
    [] c.op = "configureOutput" /\ c.type = "sacn"   -> ApplyConfigureSacnOutput(doc, c)
    [] c.op = "deleteOutput"        -> ApplyDeleteOutput(doc, c)
    [] c.op = "changeProfile"       -> ApplyChangeProfile(doc, c)
    [] c.op = "updateSection"       -> ApplyUpdateSection(doc, c)

RevertOnConnections(doc, c, state) ==
  CASE c.op = "addConnection"       -> RevertAddConnection(doc, state)
    [] c.op = "configureConnection" -> RevertConfigureConnection(doc, c, state)
    [] c.op = "deleteConnection"    -> RevertDeleteConnection(doc, c, state)
    [] c.op = "addInput"            -> RevertAddInput(doc, state)
    [] c.op = "configureInput"      -> RevertConfigureInput(doc, c, state)
    [] c.op = "deleteInput"         -> RevertDeleteInput(doc, c, state)
    [] c.op = "addOutput"           -> RevertAddOutput(doc, c)
    [] c.op = "configureOutput"     -> RevertConfigureOutput(doc, c, state)
    [] c.op = "deleteOutput"        -> RevertDeleteOutput(doc, c, state)
    [] c.op = "changeProfile"       -> RevertChangeProfile(doc, c, state)
    [] c.op = "updateSection"       -> RevertUpdateSection(doc, c, state)
=============================================================================
