-------------------------- MODULE MCTopologyGraph --------------------------
EXTENDS TopologyGraph

MCNames == {1, 2, 3, 8, 9}
MCZones == {"DMZ"}

Unzoned == [d \in Names |-> "none"]
MCLab == [devices |-> {8, 9}, zone |-> Unzoned, cables |-> {{8, 9}}]

\* A cable goes to another device, which has a zone.
Old == [devices |-> {1, 2}, zone |-> Unzoned, cables |-> {{1, 2}}]
New == [devices |-> {1, 3}, zone |-> [Unzoned EXCEPT ![1] = "DMZ"], cables |-> {{1, 3}}]

MCInventories == {Old}
MCMoves == {<<Old, New>>}
=============================================================================
