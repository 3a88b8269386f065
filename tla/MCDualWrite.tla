---------------------------- MODULE MCDualWrite ----------------------------
(***************************************************************************)
(* A small instance of DualWrite: three permissions, two workspaces, one   *)
(* group, two legacy roles, two request threads.  The registry has a       *)
(* duplicate key ({p2} twice) and a role ({p1, p3}) that only completes a   *)
(* cover, so exact match, first-fit cover and custom role all occur.       *)
(***************************************************************************)
EXTENDS DualWrite

CONSTANTS p1, p2, p3, w1, w2, g1

MCSysRoleDefs == << {p1}, {p2}, {p1, p3}, {p2} >>

\* Role states a write produces: no access; a cover by two system roles on
\* w1; a cover by three; a custom role on w2 with no groups.
MCStates ==
    { [grants |-> {}, groups |-> {g1}],
      [grants |-> {<<p1, w1>>, <<p2, w1>>}, groups |-> {g1}],
      [grants |-> {<<p1, w1>>, <<p2, w1>>, <<p3, w1>>}, groups |-> {g1}],
      [grants |-> {<<p1, w1>>, <<p3, w2>>}, groups |-> {}] }

=============================================================================
