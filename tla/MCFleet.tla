------------------------------ MODULE MCFleet ------------------------------
\* Instances of Fleet for TLC: one node that mines, two that verify it.
EXTENDS Fleet

MCNodes == {"a", "b", "c"}
MCMiners == {"a"}
MCPeers == [n \in MCNodes |-> IF n = "a" THEN <<>> ELSE <<"a">>]

Known(listed, backed, degraded, his) ==
    [registry |-> TRUE, listed |-> listed, backed |-> backed,
     degraded |-> degraded, mine |-> <<"p", "hash">>, his |-> his,
     cert |-> "p"]

MCKnow ==
    [n \in MCNodes |-> IF n = "b" THEN Known(TRUE, TRUE, FALSE, NoFed)
                       ELSE Known(FALSE, FALSE, FALSE, <<"p", "key">>)]

MCAnchorers == {"b"}
=============================================================================
