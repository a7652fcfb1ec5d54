----------------------------- MODULE MCWorkspace1 -----------------------------
EXTENDS Workspace1
CONSTANTS j1, j2, o1, o2, p1, p2, v1, v2, k1
\* One job's form may never be adopted, the other's only at its own registry.
MCFormsOf == [j \in Jobs |-> IF j = j1 THEN {"file-octets"} ELSE {"registry-metadata"}]
=============================================================================
