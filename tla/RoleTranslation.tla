-------------------------- MODULE RoleTranslation --------------------------
(***************************************************************************)
(* The V1 -> V2 translation of one legacy role, as the pure function that  *)
(* v1_role_to_v2_mapping computes (migration_tool/                         *)
(* sharedSystemRolesReplicatedRoleBindings.py):                            *)
(*   - the permissions of the role grouped by the bound resource they are  *)
(*     granted on (the Resource Binder; here a role's grants are already   *)
(*     pairs <<permission, bound resource>>),                              *)
(*   - extract_system_roles: exact match of a resource's permission set    *)
(*     against the system-role registry, else a first-fit cover by the     *)
(*     registry's roles in registry order, else one custom role,           *)
(*   - the role bindings: one per (role, resource) and per group when the  *)
(*     legacy role has groups.                                             *)
(* Binding ids are fresh uuids in the code and are left out: a relation is *)
(* identified by its content, the legacy role, the V2 role, the resource   *)
(* and the groups.                                                         *)
(***************************************************************************)
EXTENDS Naturals, Sequences, FiniteSets

CONSTANTS
    Perms,        \* V2 permission strings (already canonicalised)
    Resources,    \* bound resources V2boundresource(type, id)
    Groups,       \* V2 groups (one per legacy group)
    Roles,        \* legacy (V1) role ids
    SysRoleDefs   \* permission sets of the system roles, in the order
                  \* Role.objects.filter(system=True) returns them

ASSUME SysRoleDefsAssumption == SysRoleDefs \in Seq(SUBSET Perms)

RegIdx == 1..Len(SysRoleDefs)

(***************************************************************************)
(* SystemRole.SYSTEM_ROLES is a dict keyed by frozenset(permissions)       *)
(* (add_system_role): a key keeps the position of its first insertion and *)
(* the value of its last one.                                              *)
(***************************************************************************)
IsKey(i) == \A j \in 1..(i - 1) : SysRoleDefs[j] # SysRoleDefs[i]

LastWith(S) == CHOOSE i \in RegIdx : /\ SysRoleDefs[i] = S
                                     /\ \A j \in RegIdx : SysRoleDefs[j] = S => j <= i

\* V2role(id, is_system, permissions); a custom role's uuid is abstracted to 0.
SysRole(i) == [id |-> LastWith(SysRoleDefs[i]), system |-> TRUE, perms |-> SysRoleDefs[i]]
CustomRole(P) == [id |-> 0, system |-> FALSE, perms |-> P]

V2Role == [id : 0..Len(SysRoleDefs), system : BOOLEAN, perms : SUBSET Perms]

\* Mutant: "not sysperms.issubset(granted)" written as "sysperms.isdisjoint(granted)".
GreedyCoverDisjoint(P) ==
    LET g[i \in 0..Len(SysRoleDefs)] ==
          IF i = 0 THEN [granted |-> {}, matched |-> {}]
          ELSE LET prev == g[i - 1] IN
               IF /\ prev.granted # P
                  /\ IsKey(i)
                  /\ SysRoleDefs[i] \subseteq P
                  /\ SysRoleDefs[i] \cap prev.granted = {}
               THEN [granted |-> prev.granted \cup SysRoleDefs[i],
                     matched |-> prev.matched \cup {SysRole(i)}]
               ELSE prev
    IN g[Len(SysRoleDefs)]

(***************************************************************************)
(* The greedy loop of extract_system_roles over the registry items: a      *)
(* system role is taken when its permissions are a subset of P and not     *)
(* already all granted; the loop stops once granted = P.  Written as a     *)
(* recursive function over the number of items visited.                    *)
(***************************************************************************)
GreedyCover(P) ==
    LET g[i \in 0..Len(SysRoleDefs)] ==
          IF i = 0 THEN [granted |-> {}, matched |-> {}]
          ELSE LET prev == g[i - 1] IN
               IF /\ prev.granted # P
                  /\ IsKey(i)
                  /\ SysRoleDefs[i] \subseteq P
                  /\ ~(SysRoleDefs[i] \subseteq prev.granted)
               THEN [granted |-> prev.granted \cup SysRoleDefs[i],
                     matched |-> prev.matched \cup {SysRole(i)}]
               ELSE prev
    IN g[Len(SysRoleDefs)]

\* extract_system_roles for the permission set P granted on one resource.
ExtractRoles(P) ==
    IF \E i \in RegIdx : IsKey(i) /\ SysRoleDefs[i] = P
    THEN {SysRole(CHOOSE i \in RegIdx : IsKey(i) /\ SysRoleDefs[i] = P)}
    ELSE IF GreedyCover(P).granted = P
         THEN GreedyCover(P).matched
         ELSE {CustomRole(P)}

(***************************************************************************)
(* A legacy role's state: its grants and the groups it is assigned to.     *)
(***************************************************************************)
RoleState == [grants : SUBSET (Perms \X Resources), groups : SUBSET Groups]

\* perm_groupings[resource]
PermsOn(s, res) == {p \in Perms : <<p, res>> \in s.grants}
BoundResources(s) == {res \in Resources : PermsOn(s, res) # {}}

\* V2rolebinding content: the role, frozenset({resource}), the group set.
Binding == [role : V2Role, resource : Resources, groups : SUBSET Groups]

Bindings(s) ==
    LET GroupSets == IF s.groups = {} THEN {{}} ELSE {{g} : g \in s.groups}
    IN UNION {{[role |-> ro, resource |-> res, groups |-> gs] :
                  ro \in ExtractRoles(PermsOn(s, res)), gs \in GroupSets} :
              res \in BoundResources(s)}

\* The relations published for legacy role r in state s.
Rel == [v1 : Roles, binding : Binding]
RelOf(r) == {x \in Rel : x.v1 = r}

Translate(r, s) == {[v1 |-> r, binding |-> b] : b \in Bindings(s)}

=============================================================================
