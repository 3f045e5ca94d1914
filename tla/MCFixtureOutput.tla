-------------------------- MODULE MCFixtureOutput --------------------------
EXTENDS FixtureOutput

CONSTANTS f1, f2, circle, wave

MCFixtures == {f1, f2}
MCPicks == {<<f1>>, <<f1, f2>>}
NoPresets == [p \in {} |-> [f \in MCFixtures |-> NoValue]]
MCSequences ==
  {[source |-> "seq1", fixtures |-> {f1}, value |-> 4, priority |-> Normal, fadeOut |-> 2],
   [source |-> "seq2", fixtures |-> {f1, f2}, value |-> 2, priority |-> HTP, fadeOut |-> 0]}
MCMaster == [f \in MCFixtures |-> IF f = f1 THEN 2 ELSE Full]
OutputOps == {"select", "clear", "write", "effect", "sequence", "switchHighlight",
              "offline", "unselect", "step"}
=============================================================================
