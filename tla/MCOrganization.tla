--------------------------- MODULE MCOrganization ---------------------------
EXTENDS Organization
CONSTANTS root, g1, g2, w1, w2, shared, home, d1, d2, inside

\* w1 and w2 may be aliased like each other, and like a group.
MCNameOf == [p \in {w1, w2} |-> IF p = w1 THEN g1 ELSE shared]
MCLabels == {root, g1, g2, shared}
\* a.code-workspace and A.code-workspace are one file to editor_name_key.
MCKeyOf == [f \in {"estate", "a", "A", "b"} |-> IF f = "A" THEN "a" ELSE f]
\* w1 is of version 1 and opens whatever is at its path; w2 was selected for d1.
MCRecorded == [p \in {w2} |-> d1]
=============================================================================
