---------------------------- MODULE MCProgrammer ----------------------------
EXTENDS ProgrammerSession

CONSTANTS f1, f2, f3, warm

MCFixtures == {f1, f2, f3}
MCPicks == {<<f1>>, <<f2>>, <<f3, f2, f1>>}
MCGroups == {[fixtures |-> <<f3, f1>>, block |-> 0, groups |-> 0, wings |-> 2]}
MCPresetValue == [p \in {warm} |-> [f \in MCFixtures |-> IF f = f3 THEN NoValue ELSE 2]]
ValueOps == {"select", "group", "clear", "write", "preset", "undo", "unselect",
             "highlight", "switchHighlight", "offline",
             "writeDirectly", "arrange", "step", "shuffle"}
=============================================================================
