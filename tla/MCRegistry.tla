----------------------------- MODULE MCRegistry -----------------------------
EXTENDS Registry
CONSTANTS p1, p2, p3, t1, t2

\* Five system roles; the fourth has an external_role_id, the fifth repeats
\* the second's permission set.
MCSysRoleDefs == << {p1}, {p2}, {p1, p3}, {p3}, {p2} >>
MCExternal == {4}
MCInputs == {{p1, p2}, {p2}, {p1, p3}, {p3}}
=============================================================================
