--------------------------- MODULE MCProjectEdits ---------------------------
(* Instances of ProjectEdits for TLC. *)
EXTENDS ProjectEdits

Session(ops, commands) == [ops |-> ops, commands |-> commands]

\* One session per part of the project; with the layouts also nodes are deleted
\* and renamed that they show, with the fixtures those that stand for them.
AllSessions ==
  {Session(NodeOps, 2), Session(LayoutOps \cup {"delete", "rename"}, 3), Session(PlanOps, 2),
   Session(CueOps, 2), Session(EffectOps, 3), Session(FixtureOps \cup {"delete"}, 2),
   Session(ConnectionOps, 2)}

PlacingFixtures == {Session({"addToPlan"}, 1)}
=============================================================================
