----------------------------- MODULE DualWrite -----------------------------
(***************************************************************************)
(* RelationApiDualWriteHandler (management/role/                           *)
(* relation_api_dual_write_handler.py) driven by the legacy write path     *)
(* that uses it, for several request threads and several legacy roles.    *)
(*                                                                         *)
(* One request writing legacy role r runs, inside the caller's database    *)
(* transaction that holds r's row lock:                                    *)
(*   __init__ -> load_relations_from_current_state_of_role -> the legacy   *)
(*   write -> generate_replication_event_to_outbox -> commit,              *)
(* and any exception (DualWriteException, IntegrityError, a crash) rolls   *)
(* the whole transaction back.  The outbox row is inserted and deleted in  *)
(* the transaction; the change-data-capture reader sees it at commit and   *)
(* the relation store downstream applies relations_to_remove, then         *)
(* relations_to_add.                                                       *)
(*                                                                         *)
(* REPLICATION_TO_RELATION_ENABLED is read from the process environment:   *)
(* it is fixed for a request's lifetime and changes between deployments.  *)
(***************************************************************************)
EXTENDS RoleTranslation

CONSTANTS
    Threads,      \* request threads (gunicorn workers)
    States,       \* legacy role states a write can produce
    MaxToggles    \* bound on flips of the replication flag

ASSUME DualWriteAssumption ==
    /\ Roles # {}
    /\ States # {}
    /\ States \subseteq RoleState
    /\ MaxToggles \in Nat

VARIABLES
    role,       \* committed legacy state of each role
    mapping,    \* committed BindingMapping.mappings of each role, or None
    replica,    \* relations held by the relation store downstream
    enabled,    \* the replication flag of the current deployment
    toggles,    \* flips of the flag so far
    pc,         \* step of each request thread
    tr,         \* the legacy role a thread writes (handler.role)
    en,         \* replication_enabled() as the thread's process sees it
    bm,         \* handler.binding_mapping
    cur,        \* handler.current_role_relations
    new,        \* handler.role_relations
    buf         \* the legacy state the thread's write produces

\* The relation sets a handler holds: a translation of a role, or none.
AllTranslations == {Translate(r, s) : r \in Roles, s \in States} \cup {{}}

\* "no BindingMapping row" / binding_mapping = None
None == CHOOSE x : x \notin AllTranslations

vars == <<role, mapping, replica, enabled, toggles, pc, tr, en, bm, cur, new, buf>>

PC == {"idle", "begun", "loaded", "written", "generated"}

ReplicaOf(r) == {x \in replica : x.v1 = r}

\* The row lock on r is held by every thread in a transaction on r.
Busy(r) == \E u \in Threads : pc[u] # "idle" /\ tr[u] = r

TypeOK ==
    /\ role \in [Roles -> States]
    /\ mapping \in [Roles -> AllTranslations \cup {None}]
    /\ replica \subseteq UNION AllTranslations
    /\ enabled \in BOOLEAN
    /\ toggles \in 0..MaxToggles
    /\ pc \in [Threads -> PC]
    /\ tr \in [Threads -> Roles]
    /\ en \in [Threads -> BOOLEAN]
    /\ bm \in [Threads -> AllTranslations \cup {None}]
    /\ cur \in [Threads -> AllTranslations]
    /\ new \in [Threads -> AllTranslations]
    /\ buf \in [Threads -> States]

\* Before the feature is turned on nothing has been published.
Init ==
    /\ role \in [Roles -> States]
    /\ mapping = [r \in Roles |-> None]
    /\ replica = {}
    /\ enabled \in BOOLEAN
    /\ toggles = 0
    /\ pc = [t \in Threads |-> "idle"]
    /\ tr = [t \in Threads |-> CHOOSE r \in Roles : TRUE]
    /\ en = [t \in Threads |-> FALSE]
    /\ bm = [t \in Threads |-> None]
    /\ cur = [t \in Threads |-> {}]
    /\ new = [t \in Threads |-> {}]
    /\ buf = [t \in Threads |-> CHOOSE s \in States : TRUE]

\* Mutant: the caller takes no row lock on the role.
BeginUnlocked(t, r) ==
    /\ pc[t] = "idle"
    /\ pc' = [pc EXCEPT ![t] = "begun"]
    /\ tr' = [tr EXCEPT ![t] = r]
    /\ en' = [en EXCEPT ![t] = enabled]
    /\ bm' = [bm EXCEPT ![t] = None]
    /\ cur' = [cur EXCEPT ![t] = {}]
    /\ new' = [new EXCEPT ![t] = {}]
    /\ buf' = [buf EXCEPT ![t] = role[r]]
    /\ UNCHANGED <<role, mapping, replica, enabled, toggles>>

(***************************************************************************)
(* The caller opens a transaction, locks role r and constructs the         *)
(* handler: __init__ clears role_relations, current_role_relations and     *)
(* binding_mapping.                                                        *)
(***************************************************************************)
Begin(t, r) ==
    /\ pc[t] = "idle"
    /\ ~Busy(r)
    /\ pc' = [pc EXCEPT ![t] = "begun"]
    /\ tr' = [tr EXCEPT ![t] = r]
    /\ en' = [en EXCEPT ![t] = enabled]
    /\ bm' = [bm EXCEPT ![t] = None]
    /\ cur' = [cur EXCEPT ![t] = {}]
    /\ new' = [new EXCEPT ![t] = {}]
    /\ buf' = [buf EXCEPT ![t] = role[r]]
    /\ UNCHANGED <<role, mapping, replica, enabled, toggles>>

(***************************************************************************)
(* load_relations_from_current_state_of_role: read role.binding_mapping;   *)
(* when the row is missing (DoesNotExist) keep current relations empty;    *)
(* otherwise migrate_role the role as it is now.                           *)
(***************************************************************************)
Load(t) ==
    LET r == tr[t] IN
    /\ pc[t] = "begun"
    /\ pc' = [pc EXCEPT ![t] = "loaded"]
    /\ IF en[t] /\ mapping[r] # None
       THEN /\ bm' = [bm EXCEPT ![t] = mapping[r]]
            /\ cur' = [cur EXCEPT ![t] = Translate(r, role[r])]
       ELSE UNCHANGED <<bm, cur>>
    /\ UNCHANGED <<role, mapping, replica, enabled, toggles, tr, en, new, buf>>

\* The caller's legacy write (role update, access added or removed).
Write(t, s) ==
    /\ pc[t] = "loaded"
    /\ pc' = [pc EXCEPT ![t] = "written"]
    /\ buf' = [buf EXCEPT ![t] = s]
    /\ UNCHANGED <<role, mapping, replica, enabled, toggles, tr, en, bm, cur, new>>

(***************************************************************************)
(* generate_replication_event_to_outbox: migrate_role the written role     *)
(* into role_relations, then create the BindingMapping when none was       *)
(* loaded (an IntegrityError if one exists by now) or update it, then      *)
(* insert and delete the outbox row.  All of it is inside the caller's     *)
(* transaction, so it becomes visible at Commit.                           *)
(***************************************************************************)
Generate(t) ==
    /\ pc[t] = "written"
    /\ en[t] => ~(bm[t] = None /\ mapping[tr[t]] # None)
    /\ pc' = [pc EXCEPT ![t] = "generated"]
    /\ new' = IF en[t] THEN [new EXCEPT ![t] = Translate(tr[t], buf[t])] ELSE new
    /\ UNCHANGED <<role, mapping, replica, enabled, toggles, tr, en, bm, cur, buf>>

\* _build_replication_event
Event(t) == [relations_to_add |-> new[t], relations_to_remove |-> cur[t]]

\* The relation store applies an event: removals first, then additions.
Apply(rs, ev) == (rs \ ev.relations_to_remove) \cup ev.relations_to_add

(***************************************************************************)
(* The transaction commits: the legacy write, the mapping and the outbox   *)
(* event become visible together and the row lock is released.            *)
(***************************************************************************)
Commit(t) ==
    LET r == tr[t] IN
    /\ pc[t] = "generated"
    /\ pc' = [pc EXCEPT ![t] = "idle"]
    /\ role' = [role EXCEPT ![r] = buf[t]]
    /\ IF en[t]
       THEN /\ mapping' = [mapping EXCEPT ![r] = new[t]]
            /\ replica' = Apply(replica, Event(t))
       ELSE UNCHANGED <<mapping, replica>>
    /\ UNCHANGED <<enabled, toggles, tr, en, bm, cur, new, buf>>

\* DualWriteException or any other failure: the caller rolls back.
Fail(t) ==
    /\ pc[t] # "idle"
    /\ pc' = [pc EXCEPT ![t] = "idle"]
    /\ UNCHANGED <<role, mapping, replica, enabled, toggles, tr, en, bm, cur, new, buf>>

\* A deployment flips REPLICATION_TO_RELATION_ENABLED.
Toggle ==
    /\ toggles < MaxToggles
    /\ enabled' = ~enabled
    /\ toggles' = toggles + 1
    /\ UNCHANGED <<role, mapping, replica, pc, tr, en, bm, cur, new, buf>>

Next ==
    \/ \E t \in Threads, r \in Roles : Begin(t, r)
    \/ \E t \in Threads : Load(t) \/ Generate(t) \/ Commit(t) \/ Fail(t)
    \/ \E t \in Threads, s \in States : Write(t, s)
    \/ Toggle

Spec == Init /\ [][Next]_vars

-----------------------------------------------------------------------------
(***************************************************************************)
(* Once a role has a BindingMapping and replication is on, the relation    *)
(* store holds for that role exactly the translation of its committed      *)
(* legacy state, and the mapping records that same set: the remove set the *)
(* handler recomputes at load time matches what was published before.     *)
(***************************************************************************)
ReplicaConsistent ==
    \A r \in Roles :
        enabled /\ mapping[r] # None =>
            /\ ReplicaOf(r) = Translate(r, role[r])
            /\ mapping[r] = ReplicaOf(r)

(***************************************************************************)
(* The inductive strengthening of ReplicaConsistent, for deployments that *)
(* flip the flag at most once.  Holding a role's row lock from __init__    *)
(* to commit is what makes the remove set a thread loads equal to what the *)
(* relation store holds for the role when the thread commits.              *)
(***************************************************************************)
Consistent(r) ==
    /\ ReplicaOf(r) = Translate(r, role[r])
    /\ mapping[r] = ReplicaOf(r)

\* An enabled request is in a transaction on r.
EnabledWriter(r) == \E t \in Threads : pc[t] # "idle" /\ en[t] /\ tr[t] = r

LockHeld ==
    \A t, u \in Threads :
        t # u /\ pc[t] # "idle" /\ pc[u] # "idle" => tr[t] # tr[u]

NothingPublishedWithoutMapping ==
    \A r \in Roles : mapping[r] = None => ReplicaOf(r) = {}

ConsistentWhileEnabled ==
    \A r \in Roles :
        mapping[r] # None /\ (enabled \/ EnabledWriter(r)) => Consistent(r)

HandlerFresh ==
    \A t \in Threads : pc[t] = "begun" => bm[t] = None /\ cur[t] = {}

HandlerLoaded ==
    \A t \in Threads :
        pc[t] \in {"loaded", "written", "generated"} /\ en[t] =>
            /\ bm[t] = mapping[tr[t]]
            /\ cur[t] = IF mapping[tr[t]] = None THEN {} ELSE Translate(tr[t], role[tr[t]])

HandlerGenerated ==
    \A t \in Threads :
        pc[t] = "generated" /\ en[t] => new[t] = Translate(tr[t], buf[t])

DisabledWritersUnmapped ==
    \A t \in Threads :
        pc[t] # "idle" /\ ~en[t] /\ enabled => mapping[tr[t]] = None

NeverEnabledUnmapped ==
    ~enabled /\ toggles = 0 =>
        /\ \A r \in Roles : mapping[r] = None
        /\ \A t \in Threads : ~en[t]

(***************************************************************************)
(* The inductive invariant behind ReplicaConsistent: the row lock keeps    *)
(* one writer per role, a handler holds the committed mapping and the      *)
(* translation of the committed role from load to commit, and a request   *)
(* running with replication off only writes roles that were never mapped. *)
(***************************************************************************)
IInv ==
    /\ TypeOK
    /\ LockHeld
    /\ NothingPublishedWithoutMapping
    /\ ConsistentWhileEnabled
    /\ HandlerFresh
    /\ HandlerLoaded
    /\ HandlerGenerated
    /\ DisabledWritersUnmapped
    /\ NeverEnabledUnmapped

(***************************************************************************)
(* The refinement mapping: the relations published for a role are what the *)
(* relation store holds for it once it has a BindingMapping.               *)
(***************************************************************************)
PubBar == [r \in Roles |-> IF mapping[r] = None THEN None ELSE ReplicaOf(r)]

Abstract == INSTANCE ReplicatedRoles
                WITH pub <- PubBar, Unpublished <- None, Translation <- Translate

(***************************************************************************)
(* The handler and its callers implement ReplicatedRoles: every commit of  *)
(* a legacy write replaces, in the same step, what the relation store     *)
(* holds for the role by the translation of its new state, or leaves the  *)
(* store alone only while replication is off or for a role never          *)
(* published; load, generate, a rollback and every other step publish     *)
(* nothing.  (Abstract!Spec, with the stutter tried first: most steps of   *)
(* the handler are stutters of ReplicatedRoles.)                           *)
(***************************************************************************)
ImplementsReplicatedRoles ==
    Abstract!Init /\ [][UNCHANGED Abstract!avars \/ Abstract!Next]_Abstract!avars

(***************************************************************************)
(* Spec 4.4: a write with replication on leaves the relation store holding *)
(* for the role exactly the translation of its new state.  The remove set  *)
(* has to be what was published for the role (LoadCurrent rebuilds it     *)
(* from the mapping); load_relations_from_current_state_of_role recomputes *)
(* it from the live role instead, which differs from what was published   *)
(* once the role was written while replication was off.                    *)
(***************************************************************************)
ReplicatedWriteRepublishes ==
    [][\A t \in Threads :
          Commit(t) /\ en[t] =>
              {x \in replica' : x.v1 = tr[t]} = Translate(tr[t], buf[t])]_vars

(***************************************************************************)
(* The event of a write is a diff (spec, section 8): it never both adds    *)
(* and removes the same relation.                                          *)
(***************************************************************************)
EventIsDiff ==
    \A t \in Threads :
        pc[t] = "generated" /\ en[t] =>
            Event(t).relations_to_add \cap Event(t).relations_to_remove = {}

=============================================================================
