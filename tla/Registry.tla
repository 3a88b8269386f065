------------------------------- MODULE Registry -------------------------------
(***************************************************************************)
(* SystemRole.SYSTEM_ROLES (migration_tool/                                *)
(* sharedSystemRolesReplicatedRoleBindings.py): a class-level dict shared  *)
(* by every request thread of a process, filled on first use by            *)
(* get_system_roles with no lock.  set_system_roles walks                  *)
(* Role.objects.filter(system=True), one database query per role for its  *)
(* access, and inserts each role with add_system_role; other threads run   *)
(* while it waits on those queries.  extract_system_roles looks its        *)
(* permission set up in the dict it got back (the live dict, not a copy)   *)
(* and then iterates over its items.                                       *)
(*                                                                         *)
(* SysRoleDefs are the permission sets of the system roles in query order; *)
(* External are the positions of roles with an external_role_id, which    *)
(* are skipped.                                                            *)
(***************************************************************************)
EXTENDS RoleTranslation

CONSTANTS
    Threads,   \* request threads of one process
    External,  \* positions in SysRoleDefs of roles with external_role_id()
    Inputs     \* permission sets extract_system_roles is called with

ASSUME RegistryAssumption ==
    /\ External \subseteq RegIdx
    /\ Inputs \subseteq SUBSET Perms

VARIABLES
    reg,      \* SYSTEM_ROLES: a sequence of <<frozenset key, position>> in insertion order
    pc,       \* each thread's step
    nxt,      \* the role set_system_roles visits next
    input,    \* the permission set a thread is translating
    size0,    \* len(system_roles) when the thread's iteration began
    result,   \* the roles the thread's last call returned
    raised    \* some call raised "dictionary changed size during iteration"

vars == <<reg, pc, nxt, input, size0, result, raised>>

\* The translation's outcome: the roles with their source position (0 for custom).
Outcome == [id : 0..Len(SysRoleDefs), system : BOOLEAN, perms : SUBSET Perms]
NoResult == [id |-> 0, system |-> TRUE, perms |-> {}]

TypeOK ==
    /\ reg \in Seq((SUBSET Perms) \X RegIdx)
    /\ Len(reg) <= Len(SysRoleDefs)
    /\ pc \in [Threads -> {"idle", "populating", "lookup", "iterating"}]
    /\ nxt \in [Threads -> 1..(Len(SysRoleDefs) + 1)]
    /\ input \in [Threads -> Inputs]
    /\ size0 \in [Threads -> 0..Len(SysRoleDefs)]
    /\ result \in [Threads -> SUBSET Outcome]
    /\ raised \in BOOLEAN

Init ==
    /\ reg = << >>
    /\ pc = [t \in Threads |-> "idle"]
    /\ nxt = [t \in Threads |-> 1]
    /\ input \in [Threads -> Inputs]
    /\ size0 = [t \in Threads |-> 0]
    /\ result = [t \in Threads |-> {NoResult}]
    /\ raised = FALSE

Keys(d) == [j \in DOMAIN d |-> d[j][1]]

\* Mutant: the first role inserted under a key is kept (setdefault).
AddSystemRoleFirstWins(d, key, i) ==
    IF \E j \in DOMAIN d : d[j][1] = key THEN d ELSE Append(d, <<key, i>>)

\* system_roles[frozenset(role.permissions)] = role: a new key goes last,
\* an existing key keeps its place and takes the new role.
AddSystemRole(d, key, i) ==
    IF \E j \in DOMAIN d : d[j][1] = key
    THEN [j \in DOMAIN d |-> IF d[j][1] = key THEN <<key, i>> ELSE d[j]]
    ELSE Append(d, <<key, i>>)

\* extract_system_roles run against dict d: RoleTranslation with d's keys
\* as the registry, its role positions mapped back to d's values.
Live(keys) == INSTANCE RoleTranslation WITH SysRoleDefs <- keys

ExtractWith(d, P) ==
    {[id |-> IF ro.system THEN d[ro.id][2] ELSE 0,
      system |-> ro.system, perms |-> ro.perms] : ro \in Live(Keys(d))!ExtractRoles(P)}

(***************************************************************************)
(* get_system_roles: "if not cls.SYSTEM_ROLES: cls.set_system_roles()".    *)
(***************************************************************************)
GetSystemRoles(t, P) ==
    /\ pc[t] = "idle"
    /\ input' = [input EXCEPT ![t] = P]
    /\ result' = [result EXCEPT ![t] = {NoResult}]
    /\ IF reg = << >>
       THEN /\ pc' = [pc EXCEPT ![t] = "populating"]
            /\ nxt' = [nxt EXCEPT ![t] = 1]
       ELSE /\ pc' = [pc EXCEPT ![t] = "lookup"]
            /\ UNCHANGED nxt
    /\ UNCHANGED <<reg, size0, raised>>

\* One iteration of set_system_roles' loop: skip an external role, else
\* add_system_role with the role's permissions.
Populate(t) ==
    /\ pc[t] = "populating"
    /\ nxt[t] <= Len(SysRoleDefs)
    /\ reg' = IF nxt[t] \in External THEN reg
              ELSE AddSystemRole(reg, SysRoleDefs[nxt[t]], nxt[t])
    /\ nxt' = [nxt EXCEPT ![t] = @ + 1]
    /\ UNCHANGED <<pc, input, size0, result, raised>>

\* set_system_roles returns and get_system_roles returns the dict.
EndPopulate(t) ==
    /\ pc[t] = "populating"
    /\ nxt[t] = Len(SysRoleDefs) + 1
    /\ pc' = [pc EXCEPT ![t] = "lookup"]
    /\ UNCHANGED <<reg, nxt, input, size0, result, raised>>

(***************************************************************************)
(* extract_system_roles: system_roles.get(frozenset(permissions)); on a    *)
(* hit the call returns that role, else the loop over                      *)
(* system_roles.items() begins.                                            *)
(***************************************************************************)
Lookup(t) ==
    /\ pc[t] = "lookup"
    /\ IF \E j \in DOMAIN reg : reg[j][1] = input[t]
       THEN /\ pc' = [pc EXCEPT ![t] = "idle"]
            /\ result' = [result EXCEPT ![t] = ExtractWith(reg, input[t])]
            /\ UNCHANGED size0
       ELSE /\ pc' = [pc EXCEPT ![t] = "iterating"]
            /\ size0' = [size0 EXCEPT ![t] = Len(reg)]
            /\ UNCHANGED result
    /\ UNCHANGED <<reg, nxt, input, raised>>

(***************************************************************************)
(* The loop over system_roles.items(): when another thread inserted a key  *)
(* since it began, the iterator raises RuntimeError; otherwise the call    *)
(* returns the cover or the custom role.                                   *)
(***************************************************************************)
Iterate(t) ==
    /\ pc[t] = "iterating"
    /\ pc' = [pc EXCEPT ![t] = "idle"]
    /\ IF Len(reg) # size0[t]
       THEN /\ raised' = TRUE
            /\ UNCHANGED result
       ELSE /\ result' = [result EXCEPT ![t] = ExtractWith(reg, input[t])]
            /\ UNCHANGED raised
    /\ UNCHANGED <<reg, nxt, input, size0>>

Next ==
    \E t \in Threads :
        \/ \E P \in Inputs : GetSystemRoles(t, P)
        \/ Populate(t) \/ EndPopulate(t) \/ Lookup(t) \/ Iterate(t)

Spec == Init /\ [][Next]_vars

-----------------------------------------------------------------------------
\* The positions whose key is in the registry after a full population.
Registered == RegIdx \ External
FirstAt(key) == CHOOSE i \in Registered : SysRoleDefs[i] = key /\
                    \A j \in Registered : SysRoleDefs[j] = key => i <= j
LastAt(key) == CHOOSE i \in Registered : SysRoleDefs[i] = key /\
                    \A j \in Registered : SysRoleDefs[j] = key => j <= i

(***************************************************************************)
(* Whenever no thread is populating, a non-empty SYSTEM_ROLES is the dict  *)
(* a single set_system_roles builds: one key per non-external system       *)
(* role's permission set, in the order of its first role, mapped to the    *)
(* last role with that set.  Concurrent populations re-insert the same     *)
(* keys and must not leave an earlier role bound to a key.                 *)
(***************************************************************************)
RegistryFaithful ==
    (reg # << >> /\ \A t \in Threads : pc[t] # "populating") =>
        /\ {reg[j][1] : j \in DOMAIN reg} = {SysRoleDefs[i] : i \in Registered}
        /\ \A j \in DOMAIN reg : reg[j][2] = LastAt(reg[j][1])
        /\ \A j, k \in DOMAIN reg : j < k => FirstAt(reg[j][1]) < FirstAt(reg[k][1])

(***************************************************************************)
(* Why concurrent populations end in the single-population dict (the       *)
(* inductive strengthening of RegistryFaithful).  A stored value is a      *)
(* registered position of its key; every position a thread's loop has     *)
(* passed has its key in the dict; a key is appended only when no thread  *)
(* has passed it yet, so keys stay in order of their first position; and  *)
(* a value that is not its key's last position will still be overwritten  *)
(* by a thread whose loop has not yet reached that last position.         *)
(***************************************************************************)
\* The types the argument needs (result and size0 are not involved).
RegTypes ==
    /\ reg \in Seq((SUBSET Perms) \X RegIdx)
    /\ pc \in [Threads -> {"idle", "populating", "lookup", "iterating"}]
    /\ nxt \in [Threads -> 1..(Len(SysRoleDefs) + 1)]
\* A stored value is a registered role with the key's permission set.
StoredAtOwnKey ==
    \A j \in DOMAIN reg : reg[j][2] \in Registered /\ SysRoleDefs[reg[j][2]] = reg[j][1]
\* Every role a thread's loop has passed has its key in the dict.
PassedStored ==
    \A t \in Threads, i \in Registered :
        i < nxt[t] => \E j \in DOMAIN reg : reg[j][1] = SysRoleDefs[i]
\* Every stored value was written by a loop that has since passed it.
WrittenByPassed ==
    \A j \in DOMAIN reg : \E u \in Threads : reg[j][2] < nxt[u]
\* Each key has a first registered position.
FirstKnown ==
    \A j \in DOMAIN reg : \E f \in Registered :
        /\ SysRoleDefs[f] = reg[j][1]
        /\ \A i \in Registered : SysRoleDefs[i] = reg[j][1] => f <= i
\* Keys are in the order of their first roles.
KeysInFirstOrder ==
    \A j, k \in DOMAIN reg : j < k => FirstAt(reg[j][1]) < FirstAt(reg[k][1])
\* A value is its key's last role, or a populating loop will still reach that role.
LastOrPending ==
    \A j \in DOMAIN reg :
        \/ \A m \in Registered : SysRoleDefs[m] = reg[j][1] => m <= reg[j][2]
        \/ \E t \in Threads, m \in Registered :
              pc[t] = "populating" /\ nxt[t] <= m /\ SysRoleDefs[m] = reg[j][1]
\* A non-empty dict was filled by a loop that finished or is still running.
FilledByLoop ==
    reg # << >> =>
        \E t \in Threads : pc[t] = "populating" \/ nxt[t] = Len(SysRoleDefs) + 1

\* The inductive invariant of concurrent population: all of the above.
RegistryInductive ==
    /\ RegTypes /\ StoredAtOwnKey /\ PassedStored /\ WrittenByPassed
    /\ FirstKnown /\ KeysInFirstOrder /\ LastOrPending /\ FilledByLoop

\* The registry a single, complete population builds: its keys ordered by
\* the position of their first role, each with the position of its last.
KeyPos == {i \in Registered : FirstAt(SysRoleDefs[i]) = i}
FullReg == [j \in 1..Cardinality(KeyPos) |->
              LET i == CHOOSE i \in KeyPos : Cardinality({k \in KeyPos : k < i}) = j - 1
              IN <<SysRoleDefs[i], LastAt(SysRoleDefs[i])>>]

(***************************************************************************)
(* Spec 9 (one-time initialisation of the registry): every call of         *)
(* extract_system_roles returns normally, with the roles the fully         *)
(* populated SYSTEM_ROLES gives; a partial registry, or one another        *)
(* thread is still inserting into, is never read.                          *)
(***************************************************************************)
TranslationUsesFullRegistry ==
    /\ ~raised
    /\ \A t \in Threads :
          result[t] # {NoResult} => result[t] = ExtractWith(FullReg, input[t])

=============================================================================
