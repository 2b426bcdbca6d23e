---------------------------- MODULE MCWebProcess ----------------------------
EXTENDS WebProcess

CONSTANTS t1, t2, alice, visitor, home, doc, nobody

MCHandlers == {t1, t2}
MCCallers == {alice, visitor}
MCPrincipals == {alice}
MCCapacity == [k \in MCCallers |-> IF k = alice THEN 2 ELSE 1]
MCHosts == {home}
MCHostOf == [k \in MCCallers |-> home]
MCDocuments == {doc}
MCIds == 1..3
MCAsked == {0, 2}
MCMaxCalls ==
    [kinds \in {{"code"}, {"presence"}, {"page"}} |-> IF kinds = {"presence"} THEN 4 ELSE 3]
=============================================================================
