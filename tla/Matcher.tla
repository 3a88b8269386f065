------------------------------ MODULE Matcher ------------------------------
(***************************************************************************)
(* extract_system_roles (migration_tool/                                   *)
(* sharedSystemRolesReplicatedRoleBindings.py) as an operation on the      *)
(* process-wide state it mutates: candidate_system_roles, the diagnostic   *)
(* accumulator of permission sets that no system role covers, and the      *)
(* custom_roles_created counter.  Each call translates the permission      *)
(* groupings of one legacy role; resourceRoles is what the last call       *)
(* returned.                                                               *)
(***************************************************************************)
EXTENDS RoleTranslation

CONSTANTS
    Inputs,       \* perm_groupings the calls receive, as role states
    App,          \* perm.split("_", 1)[0] for each permission
    MaxCustom     \* bound on custom_roles_created

ASSUME MatcherAssumption ==
    /\ Inputs \subseteq RoleState
    /\ App \in [Perms -> STRING]
    /\ MaxCustom \in Nat

VARIABLES
    candidates,          \* candidate_system_roles, as pairs <<perms, v1 role>>
    customRolesCreated,  \* custom_roles_created
    lastInput,           \* perm_groupings of the last call
    resourceRoles        \* resource_roles returned by the last call

vars == <<candidates, customRolesCreated, lastInput, resourceRoles>>

TypeOK ==
    /\ candidates \subseteq (SUBSET Perms) \X Roles
    /\ customRolesCreated \in 0..MaxCustom
    /\ lastInput \in Inputs \cup {[grants |-> {}, groups |-> {}]}
    /\ resourceRoles \in [Resources -> SUBSET V2Role]

Init ==
    /\ candidates = {}
    /\ customRolesCreated = 0
    /\ lastInput = [grants |-> {}, groups |-> {}]
    /\ resourceRoles = [res \in Resources |-> {}]

\* Resources whose permission set falls through to a custom role.
NeedsCustom(s) ==
    {res \in BoundResources(s) :
        /\ ~\E i \in RegIdx : IsKey(i) /\ SysRoleDefs[i] = PermsOn(s, res)
        /\ GreedyCover(PermsOn(s, res)).granted # PermsOn(s, res)}

(***************************************************************************)
(* The leftover bookkeeping for one resource: for each application with a  *)
(* permission left uncovered, the permissions of that application granted *)
(* on the resource form a candidate, recorded against the legacy role.     *)
(***************************************************************************)
CandidatesOf(v1, P) ==
    LET leftovers == P \ GreedyCover(P).granted
    IN {<<{p \in P : App[p] = a}, v1>> : a \in {App[q] : q \in leftovers}}

ExtractSystemRoles(v1, s) ==
    LET custom == NeedsCustom(s) IN
    /\ customRolesCreated + Cardinality(custom) <= MaxCustom
    /\ lastInput' = s
    /\ resourceRoles' = [res \in Resources |->
                            IF res \in BoundResources(s)
                            THEN ExtractRoles(PermsOn(s, res)) ELSE {}]
    /\ candidates' = candidates \cup
                       UNION {CandidatesOf(v1, PermsOn(s, res)) : res \in custom}
    /\ customRolesCreated' = customRolesCreated + Cardinality(custom)

Next == \E v1 \in Roles, s \in Inputs : ExtractSystemRoles(v1, s)

Spec == Init /\ [][Next]_vars

-----------------------------------------------------------------------------
\* The permissions of the system roles in the registry that fit inside P.
Coverable(P) == UNION {SysRoleDefs[i] : i \in {j \in RegIdx : SysRoleDefs[j] \subseteq P}}

(***************************************************************************)
(* First-fit over the registry misses no cover: a custom role is made for  *)
(* a resource exactly when the system roles fitting inside its permission  *)
(* set do not cover it, and then it is the only role on that resource.     *)
(***************************************************************************)
GreedyComplete ==
    \A res \in BoundResources(lastInput) :
        LET P == PermsOn(lastInput, res) IN
        (\E ro \in resourceRoles[res] : ~ro.system)
            <=> /\ Coverable(P) # P
                /\ resourceRoles[res] = {CustomRole(P)}

(***************************************************************************)
(* Spec 4.2, step 3: the custom role holds only the permissions P -        *)
(* granted that the matched system roles leave uncovered.                  *)
(***************************************************************************)
CustomHoldsLeftoversOnly ==
    \A res \in BoundResources(lastInput) :
        \A ro \in resourceRoles[res] :
            ~ro.system =>
                ro.perms \cap GreedyCover(PermsOn(lastInput, res)).granted = {}

=============================================================================
