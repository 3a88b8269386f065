# TLA+ models of insights-rbac's V1 → V2 replication and access cache

This directory holds TLA+ models of the parts of `src/rbac` that translate legacy (V1) roles into V2 role bindings and replicate them, and of the Redis cache in front of access resolution:

- the resource binder (`split_resourcedef_literal` and the grouping of permissions by resource);
- the process-wide system-role registry and its lazy population;
- the system-role matcher and the binding generator;
- the dual-write handler that publishes the bindings through the outbox;
- the Redis access-policy cache and tenant cache.

It also holds the TLC configurations that model-check them, an abstract specification that the dual write is shown to implement, and TLAPS proofs.

`PROJECT.json` lists:

- the components;
- the runs;
- the mutants that show each property can fail;
- the code lines behind every definition (`map`);
- the findings;
- the hazards;
- the theorems.

## 1. The system and its parts

| Part | Source | What it does | State it owns |
|---|---|---|---|
| Resource Binder | `migration_tool/sharedSystemRolesReplicatedRoleBindings.py` 95-129, 214-250 | `v1_role_to_v2_mapping`'s first loop. Skips permissions of disabled apps, then groups the rest by the bound resource: `split_resourcedef_literal` for `in`/`equal` definitions, otherwise the root or default workspace. | none |
| System Role Registry | same file, 44-92 | `SystemRole.SYSTEM_ROLES` is a class-level dict keyed by `frozenset(permissions)`. `get_system_roles` fills it on first use, with no lock, through `set_system_roles`/`add_system_role`. | the registry dict |
| System Role Matcher | same file, 150-211 | `extract_system_roles`: an exact registry match, otherwise a first-fit cover in registry order, otherwise one custom role. | the globals `candidate_system_roles` and `custom_roles_created` |
| Role Binding Generator | same file, 98-147 | One V2 binding per (role, resource), and one per group when the role has groups. | none |
| Dual-Write Handler | `management/role/relation_api_dual_write_handler.py` | For each legacy role write, it does three things. `load_relations_from_current_state_of_role` computes the current relations. `generate_replication_event_to_outbox` computes the new relations and creates or updates the `BindingMapping`. An outbox insert and delete follows. Change-data capture then publishes the outbox row to the relation store. | `BindingMapping` rows, outbox rows |
| Access and Tenant Cache | `management/cache.py` | `AccessCache` keeps per-principal, per-app policies in a Redis hash with an expiry. `TenantCache` keeps tenants. Both delete through `delete_handler`, which swallows Redis errors. | Redis keys |
| Tenant provisioning, views, serializers, urls, migrations | `api/models.py`, `*/view.py`, `*/serializer.py`, … | Delegates to Django and the database. | |

How the parts interact:

- A legacy write path holds a transaction and a row lock on the role. Inside them it constructs the handler, loads, writes the legacy role, generates and commits.
- Both load and generate call `migrate_role`, which runs the binder, then the registry (`get_system_roles`), then the matcher, then the generator.
- Request threads of one process share the registry and the matcher's globals.
- Policy and tenant changes purge the caches. Access resolution reads the cache, computes the policy on a miss and saves it.

Behaviours that make the code hard to test (each a hazard in `PROJECT.json`):

- concurrent writers of one role;
- the replication flag changing between deployments;
- a failure between the mapping save and the outbox insert;
- current relations recomputed from the live role;
- an event that is not a diff;
- the lazy registry read by a second thread while the first is still filling it, or while it iterates;
- resource literals that are not JSON arrays;
- readers filling a cache while writers purge it;
- Redis errors swallowed on DEL;
- `delete_handler` not yielding.

## 2. Modules

| Module | Models | Kind |
|---|---|---|
| `RoleTranslation` | The binder's grouping on abstract bound resources, and the registry as a dict (first-insertion position and last value per key). Also `extract_system_roles` (`ExtractRoles`, with `GreedyCover` as a recursive *function* over the registry index) and the bindings (`Translate(r, s)`). | pure operators |
| `Binder` | The binder on literal *text*. `JsonLoads` parses texts of at most 5 characters: null, integers, strings, and arrays nested twice. Python iteration (`PyIter`), `str.split(",")` and `split_resourcedef_literal` (`ResourceIds`) act on the result. `Bound` and `DefPairs` build a permission's resources. Actions: `BindPermission` (one loop iteration, failing on a `TypeError`) and `Finish`. | state machine |
| `Registry` | `SYSTEM_ROLES` shared by request threads. The actions are `GetSystemRoles`, `Populate` (one loop iteration of `set_system_roles`, one DB query each), `EndPopulate`, `Lookup` (`system_roles.get`) and `Iterate` (the `items()` loop, raising `RuntimeError` when the dict grew since it began). | state machine |
| `Matcher` | `extract_system_roles` as an action on its process-wide state: the candidate accumulator and the custom-role counter. | state machine |
| `DualWrite` | The handler driven by request threads over several roles. Actions: `Begin` (transaction, row lock, `__init__`), `Load`, `Write` (the caller's legacy write), `Generate`, `Commit`, `Fail` (any exception rolls back) and `Toggle` (a deployment flips `REPLICATION_TO_RELATION_ENABLED`). On `Commit`, the legacy row, the mapping and the outbox event become visible, and the relation store applies the event. | state machine |
| `ReplicatedRoles` | The abstract promise of the dual write. A committed write of a role either replaces what is published for it by the translation of its new state, or publishes nothing. It may publish nothing only while replication is off, or for a never-published role. | abstract spec |
| `AccessCache` | Two caches in one module. For `AccessCache`: `get_policy` (the caller computing on a miss), `save_policy`, `delete_policy`, and `delete_all_policies_for_tenant` as KEYS then DEL. For `TenantCache`: `get_tenant`, `save_tenant` and `delete_tenant`. Shared by both: `delete_handler`, a `RedisError` on any call, and Redis expiry. | state machine |
| `DualWriteProofs` | The TLAPS proofs about `DualWrite`. | proofs |
| `RegistryProofs` | The TLAPS proofs about `Registry`'s concurrent population. | proofs |
| `AccessCacheProofs` | The TLAPS proofs about `AccessCache`: types and key expiry. | proofs |
| `BinderProofs` | The TLAPS proofs about `Binder`: types of bound resources, and the grouping loop against spec §4.1. | proofs |
| `MCDualWrite`, `MCMatcher`, `MCAccessCache`, `MCRegistry`, `MCBinder` | Model values, small registries, role states and literals for TLC. | MC |

Abstractions:

- **Relations** are identified by content: `[v1, binding |-> [role, resource, groups]]`. The uuids the code generates for bindings and custom roles are left out, because no property tells them apart.
- **Role grants** are pairs `<<permission, bound resource>>`, i.e. the binder's output. `RoleTranslation` takes them as given. `Binder` derives them from the literal text.
- **Literals** in `Binder` are texts over `[ ] , " 1 2 a N`, where `N` stands for the four letters of `null`.
  - Parsing is modelled for what these texts can be: a valid text gives an int, a str, null or an array; an invalid one raises `JSONDecodeError`, which `in` catches (falling back to a comma split) and `equal` does not.
  - V2 permission strings and resource types are tuples of their parts. `cleanNameForV2SchemaCompatibility` is not under `src/`.
- **A resource id** is an int, a str or null, kept apart as in Python.
  - `V2boundresource` (in `migration_tool/models.py`, not under `src/`) is a frozen dataclass. A list id makes it unhashable when it is added to the grouping set, so a nested array fails the role.
- **A policy or tenant** in the cache is the version of the database rows it was computed from.
- **A thread's locals** that the code no longer reads (a computed value after its save, the KEYS result after its DEL) are reset when its request ends.

Assumptions taken from the spec, not from the code under `src/` (marked `spec_modelled` in the map):

- the caller's transaction and row lock (`Busy`);
- the caller's legacy write (`Write`);
- the relation store applying `relations_to_remove` before `relations_to_add` (`Apply`);
- the caller changing a policy's or tenant's rows before purging it (`Change`, `TenantChange`).

## 3. Runs

| Run | Cfg | Expect | What it shows |
|---|---|---|---|
| `dualwrite` | `MCDualWrite.cfg` | pass | 2 threads, 2 roles, 4 role states, failures and one flag flip (2.3M states). The relation store always equals the translation of every mapped role's committed state (`ReplicaConsistent`). The inductive invariant `IInv` also holds. The handler implements `ReplicatedRoles` under the mapping `PubBar` (`ImplementsReplicatedRoles`). |
| `dualwrite_diff` | `MCDualWrite_diff.cfg` | violation | `EventIsDiff`: an update that keeps a binding puts it in both `relations_to_add` and `relations_to_remove`. The spec (§4.4, §8) says the event is a diff. |
| `dualwrite_reenable` | `MCDualWrite_reenable.cfg` | violation | `ReplicatedWriteRepublishes`, an action property with two flips: a replicated write leaves the store holding exactly the translation of the role's new state. The trace publishes a role, turns the flag off, commits a write of that role without replication, and turns the flag on again. The next write's `Load` takes the remove set from the live role, not from the mapping, so the relations published first stay in the store. |
| `matcher` | `MCMatcher.cfg` | pass | Every permission set over 3 permissions, with a registry that has a duplicate key. First-fit makes a custom role exactly when no registry cover exists (`GreedyComplete`). |
| `matcher_leftover` | `MCMatcher_leftover.cfg` | violation | `CustomHoldsLeftoversOnly`: the code's custom role holds all the permissions of the resource and drops the matched system roles. Spec §4.2 step 3 says it holds the leftovers. |
| `registry` | `MCRegistry.cfg` | pass | 2 threads; 5 system roles, one of them external and one repeating another's permission set. Concurrent `set_system_roles` calls re-insert the same keys, yet a registry that no thread is still filling is always the dict a single population builds (`RegistryFaithful`). The run also checks `RegistryInductive`, the inductive invariant of the proof. |
| `registry_partial` | `MCRegistry_partial.cfg` | violation | `TranslationUsesFullRegistry`: a second thread sees a non-empty, partly filled `SYSTEM_ROLES` and translates against it. If the first thread inserts during its `items()` loop, it raises `RuntimeError`. Spec §9 requires a one-time initialisation. |
| `binder` | `MCBinder.cfg` | pass | Roles of one or two permissions over every app and resource type, with no definition or one of 10 literal/operation pairs (4422 roles). When the loop finishes, the grouping is the spec's binding (`GroupingIsSpecBinding`). |
| `binder_in` | `MCBinder_in.cfg` | violation | `InExpandsAsSpec`: the trace's `in` literal is `1`. `json.loads` gives the integer 1, and iterating it raises `TypeError`, so the role fails. The spec (§4.1) splits the literal on commas into the id `1`. |
| `cache` | `MCAccessCache.cfg` | pass | 2 threads, 2 principals, 2 changes each, 2 tenant changes, Redis faults, and the cache either on or off (235K states). Every key in Redis has its expiry set (`EveryKeyExpires`). Under fairness, both caches eventually hold only current data for good (`EventuallyFresh`). |
| `cache_stale` | `MCAccessCache_stale.cfg` | violation | `NoStaleAfterInvalidation`, under `MCEnabledSpec` (the cache on) with no Redis fault. The trace is `GetPolicy`, `Change`, `DeletePolicy`, `SavePolicy`: a reader that computed a policy before a change saves it after the change's purge. The same race applies to a tenant. |
| `cache_disabled` | `MCAccessCache_disabled.cfg` | violation | `DeleteNeverRaises`: with the cache disabled, `delete_policy` raises `RuntimeError("generator didn't yield")`. |

Why these bounds are enough:

- **DualWrite.**
  - Two threads can contend for one role, so the mutant without the lock fails.
  - The four role states include a kept binding, a changed binding, a groupless role and an empty role.
  - `MaxToggles = 1` exercises a flip in flight. Two flips are the separate violation run.
- **Matcher.**
  - The registry `<<{p1}, {p2}, {p1,p3}, {p2}>>` has a duplicate key and a cover that needs two roles.
  - The inputs cover every non-empty permission set on one resource, plus a two-resource role.
- **Registry.**
  - Two threads are enough for one to populate while the other populates, looks up or iterates.
  - The external role and the duplicate key exercise the skip and the overwrite. The mutant that keeps the first role for a key is caught.
- **Binder.**
  - Five characters reach every parse outcome: a two-item array, an empty array, a nested array, null in an array, a scalar, a string, and invalid text.
  - The apps include an enabled one, a skipped one and `inventory` (workspace-bound). Two permissions per role let a failure follow a success.
  - The `binder_in` inputs are every bracket-free text of up to 5 characters.
- **Cache.**
  - Two changes per principal (and per tenant) let a purge race both a reader and a second purge.

Fairness:

- Only `AccessCache` assumes any.
  - A started request finishes: there is weak fairness on its save and delete steps, for policies and tenants.
  - Redis expires a key whose lifetime has run out. `save_policy` and `save_tenant` set an expiry on every write, which justifies this.
- Starting requests is not fair.
- The other modules check safety only.
- `binder` does not check deadlock, because the loop ends in `done` or `failed`.

Every property of a passing run has a mutant in `PROJECT.json` that breaks it, for example:

- the lock dropped;
- `isdisjoint` instead of `not issubset`;
- the first role kept for a repeated key;
- the null-workspace default dropped;
- `pipe.expire` dropped for policies and for tenants (breaks `EveryKeyExpires` and `EventuallyFresh`);
- `Begin` without the row lock (breaks the refinement).

## 4. What is proved (TLAPS)

### 4.1 `DualWriteProofs`

- `TypeCorrect`: `Spec => []TypeOK` for all constants satisfying `DualWriteAssumption`.
- `IInvariant`: under `MaxToggles <= 1`, `Spec => []IInv` (the inductive invariant below).
- `ReplicaConsistency`: under `MaxToggles <= 1`, `Spec => []ReplicaConsistent`.
  - `ReplicaConsistent` is not inductive, because it says nothing about threads in flight. The proof uses `IInv` (checked by TLC in the `dualwrite` run), which adds:
    - `LockHeld`: no two active threads share a role;
    - `HandlerFresh`, `HandlerLoaded`, `HandlerGenerated`: what a thread's handler holds at each step, i.e. the mapping and the translation of the committed role;
    - `NothingPublishedWithoutMapping`;
    - `ConsistentWhileEnabled`: consistency also holds while the flag is off, for roles whose writer has replication enabled;
    - `DisabledWritersUnmapped` and `NeverEnabledUnmapped`: a thread that runs with replication off touches only unmapped roles. This is true with at most one flip (off → on), and it is why the bound is in the theorem.
  - The steps are `IInvInit`, then `IInvStep` (one case per action, with `Commit` split on the thread's flag and `Toggle` on the flag's value), then `IInv => ReplicaConsistent`.
- `Refinement`: under `MaxToggles <= 1`, `Spec => ImplementsReplicatedRoles`. The dual write implements `ReplicatedRoles` with `pub` mapped to `PubBar`: each mapped role's published relations, or `None` for an unmapped one.
  - `Init` maps to the abstract `Init`, since nothing is mapped yet.
  - `RefineStep` shows that, under `IInv`, every step is an abstract step or a stutter:
    - a `Commit` with replication on is `WriteReplicated`;
    - a `Commit` with it off is `WriteUnreplicated`, which is where `DisabledWritersUnmapped` is needed;
    - `Toggle` is `Toggle`;
    - every other action leaves the committed roles and the published relations alone.
  - The stutter-first form that TLC checks is shown equivalent by PTL.
- The lemmas the proofs rest on:
  - `ApplyOwnRole`: applying an event of role r leaves the relations of other roles alone;
  - `TranslateOwnRole`;
  - `NoneNotTranslation`: `None` is not a relation set;
  - `CommitEnabled`: what an enabled commit does to the mapping and the published relations.
- The translation is an opaque function in the proofs (`ReplicatedRoles` takes it as the operator parameter `Translation`). Nothing in them depends on how the binder, registry or matcher compute it.

### 4.2 `RegistryProofs`

From `SysRoleDefsAssumption` and `RegistryAssumption` only, so for any role list, any external roles and any number of threads:

- `RegistryInvariant`: `Spec => []RegistryInductive`.
- `RegistryFaithfulness`: `Spec => []RegistryFaithful`.
  - `RegistryFaithful` is not inductive, because it says nothing while a loop is running. `RegistryInductive` (checked by TLC in the `registry` run) adds:
    - `StoredAtOwnKey`: a stored value is a registered role with the key's permissions;
    - `PassedStored`: every role some thread's loop has passed has its key in the dict;
    - `WrittenByPassed`;
    - `KeysInFirstOrder`: keys are appended only when no loop has passed them, so they stay in the order of their first role;
    - `LastOrPending`: a value that is not its key's last role will still be overwritten by a loop that has not reached that role;
    - `FilledByLoop`.
  - `FirstKnown` and the witness in `LastOrPending` name the first and last role of a key explicitly. The provers then pin `FirstAt`/`LastAt` by uniqueness (lemmas `FirstAtIs`, `LastAtIs`) instead of by induction over `Nat`.
  - The step proof splits `Populate` three ways: an external role, an overwrite of an existing key, and an append of a new one.

### 4.3 `AccessCacheProofs`

From `AccessCacheAssumption`, so for any users, apps, threads and version bounds, with or without Redis faults:

- `CacheTypeCorrect`: `Spec => []TypeOK`.
- `KeysAlwaysExpire`: `Spec => []EveryKeyExpires`.
- Both follow from `CacheInvariant`, `Spec => []CacheInductive`, where `CacheInductive` is `TypeOK /\ EveryKeyExpires /\ ValTyped`.
  - `ValTyped` records that a thread that computed a policy holds a policy version, and one that computed a tenant holds a tenant version. It is needed because a save writes the thread's value into Redis.
  - The step proof has one case per action. The `delete_handler` actions split into the body running and the body not running (lemma `HandlerAborted`: a swallowed `RedisError`, or the disabled cache's `RuntimeError`).
- The proof found one error in the model: `TypeOK` first gave `val` the policy version range. `TenantGet` stores the tenant version there, and `MaxTenantVer` may exceed `MaxVer`, so `val`'s type is now the union of the two.

### 4.4 `BinderProofs`

From `BinderAssumption` (literals of at most 5 characters, and inputs that are sequences of V1 permissions):

- `BinderTypeCorrect`: `Spec => []TypeOK`, for every role and every literal.
  - The content is in the ids. A pair in `perm_groupings` always has an integer, string or workspace id, never a list.
  - A nested JSON array either invalidates the parse or is refused as an unhashable `V2boundresource` id. Either way the role's translation aborts.
  - The proof is a case analysis of what `json.loads`, Python iteration and `str.split` can return, with one lemma per operator: `ScalarKind`, `InnerArrayKind`, `JsonLoadsKind`, `ResourceIdsKind` and `DefPairsType`. It needs no induction over texts.
- `GroupingMatchesSpec`: `Spec => []GroupingIsSpecBinding`, under the same hypothesis.
  - `NoInStringLiteral` says that no `in` literal of an enabled app parses as a JSON string.
  - It is exactly the case where code and spec part. The code iterates such a string character by character; spec §4.1 splits the text on commas.
  - Every other difference makes the code raise, so the loop never reaches `done`: an `in` literal that is a number or null, a non-`in` literal that is not JSON, or a nested array.
  - So the theorem places the divergence: only such a literal can make a completed grouping differ from the spec's.
  - The `binder` run's inputs satisfy the hypothesis.
  - The proof's inductive invariant is `BindingInductive`, `TypeOK /\ GroupedSoFar` (lemma `BindingInvariant`), defined in `BinderProofs`. While the loop has not failed, `perm_groupings` is the union of `SpecGroupingOf` over the permissions visited so far. The key lemma, `DefPairsSpec`, shows that a definition that does not fail binds exactly the spec's ids.
  - `SpecGrouping` is stated per permission (`SpecGroupingOf`) so that the loop invariant can name a prefix of the role.
  - tlapm cannot parse the tuple binder `<<p, d>> \in S` in a set constructor, so the spec's grouping is written with nested `UNION`s.

Only model-checked:

- `GreedyComplete` of `Matcher`. It reaches `GreedyCover`, a recursive function over the registry. What it returns for every input needs induction over data, and the provers cannot instantiate the library's induction theorems.
- nothing about roles with an `in` literal that parses as a JSON string. For those the code iterates the string character by character; `binder_in` shows a different case, the integer literal that raises;
- liveness (`EventuallyFresh`), since TLAPS does not handle fairness and ENABLED here;
- all violation runs.

The `TypeOK` of `DualWrite`, `Matcher`, `AccessCache` and `Registry` is not a run property. Every value these handlers can produce lies in its type, so no plausible bug of the code breaks it. Those of `DualWrite` and `AccessCache` are proved (`TypeCorrect`, `CacheTypeCorrect`), and the `dualwrite` run checks `DualWrite`'s as a conjunct of `IInv`.

## 5. Not modelled

- **Tenant schema provisioning** (`api/models.py`, `create_schema`, `schema_handler`). The spec (line 6) treats it as an external collaborator.
  - It is a straight sequence of database calls, run once per tenant from an `on_commit` hook.
  - Its one hazard is listed in `PROJECT.json` without a property. A failure after `CREATE SCHEMA` leaves an unseeded schema, and the retry's `check_if_exists` then returns `False` without seeding it.
- **Views, serializers and routing.** They are thin wrappers that call the modelled components or the ORM.
- **Migrations.** They are generated code.
- **The loss of a `BindingMapping` row**, e.g. a manual delete or restore. No code under `src/` deletes the mapping of a live role.
- **The Redis connection pool's blocking**, which is a property of `redis-py`, not of this code.
- **A second process with its own registry**, and system roles seeded after the registry was first filled. The registry is per process and never refreshed, which is listed as a stale-state hazard.
