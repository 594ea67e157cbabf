------------------------------ MODULE MCConsole ------------------------------
EXTENDS Console, TLC

CONSTANTS a1, a2

MCAgents == {a1, a2}
MCOwner == (1 :> a1) @@ (2 :> a1) @@ (3 :> a2)
MCContents == ("d1" :> {1, 2}) @@ ("d2" :> {3})
MCDatasetAgent == ("d1" :> a1) @@ ("d2" :> a2)
=============================================================================
