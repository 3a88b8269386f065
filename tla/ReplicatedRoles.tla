--------------------------- MODULE ReplicatedRoles ---------------------------
(***************************************************************************)
(* What the dual write promises, without threads, handlers, mappings or    *)
(* the outbox (spec, sections 1 and 4.4): a committed legacy write of a    *)
(* role either publishes, in the same step, exactly the translation of the *)
(* role's new state in place of what was published for it, or publishes   *)
(* nothing; the latter only while replication is off or for a role that    *)
(* has never been published.  pub[r] is what the relation store holds for  *)
(* r, or Unpublished before its first replicated write.  The translation   *)
(* of a role state into relations is a parameter.                          *)
(***************************************************************************)
EXTENDS Naturals

CONSTANTS
    Roles,             \* legacy roles
    States,            \* legacy role states a write can produce
    Translation(_, _), \* the relations a role's state translates to
    MaxToggles,        \* bound on flips of the replication flag
    Unpublished        \* no relations were ever published for the role

VARIABLES
    role,      \* committed legacy state of each role
    pub,       \* the relations published for each role, or Unpublished
    enabled,   \* the replication flag
    toggles    \* flips of the flag so far

avars == <<role, pub, enabled, toggles>>

Init ==
    /\ role \in [Roles -> States]
    /\ pub = [r \in Roles |-> Unpublished]
    /\ enabled \in BOOLEAN
    /\ toggles = 0

\* A write of role r to state s, replicated atomically with it.
WriteReplicated(r, s) ==
    /\ role' = [role EXCEPT ![r] = s]
    /\ pub' = [pub EXCEPT ![r] = Translation(r, s)]
    /\ UNCHANGED <<enabled, toggles>>

\* A write of role r that publishes nothing.
WriteUnreplicated(r, s) ==
    /\ ~enabled \/ pub[r] = Unpublished
    /\ role' = [role EXCEPT ![r] = s]
    /\ UNCHANGED <<pub, enabled, toggles>>

Toggle ==
    /\ toggles < MaxToggles
    /\ enabled' = ~enabled
    /\ toggles' = toggles + 1
    /\ UNCHANGED <<role, pub>>

Next ==
    \/ \E r \in Roles, s \in States : WriteReplicated(r, s) \/ WriteUnreplicated(r, s)
    \/ Toggle

Spec == Init /\ [][Next]_avars

=============================================================================
