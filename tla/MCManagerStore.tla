--------------------------- MODULE MCManagerStore ---------------------------
EXTENDS ManagerStore
CONSTANTS p1, p2, p3, e1, e2, n1, n2
=============================================================================
