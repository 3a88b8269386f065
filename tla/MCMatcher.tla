----------------------------- MODULE MCMatcher -----------------------------
(***************************************************************************)
(* Matcher on every non-empty permission set of three permissions granted *)
(* on one workspace, plus one role granting on two workspaces, against the *)
(* registry of MCDualWrite (a duplicate key and a role that only completes *)
(* a cover).  p1 and p2 belong to one application, p3 to another.          *)
(***************************************************************************)
EXTENDS Matcher, TLC

CONSTANTS p1, p2, p3, w1, w2

MCSysRoleDefs == << {p1}, {p2}, {p1, p3}, {p2} >>

MCApp == (p1 :> "inventory" @@ p2 :> "inventory" @@ p3 :> "rbac")

MCInputs ==
    {[grants |-> {<<p, w1>> : p \in P}, groups |-> {}] : P \in (SUBSET {p1, p2, p3}) \ {{}}}
    \cup {[grants |-> {<<p2, w1>>, <<p3, w1>>, <<p1, w2>>}, groups |-> {}]}

=============================================================================
