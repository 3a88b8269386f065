----------------------------- MODULE AccessCache -----------------------------
(***************************************************************************)
(* AccessCache (management/cache.py): the Redis hash of a principal's      *)
(* policies per application, read and filled by request threads that      *)
(* resolve access and purged by the threads that change what a policy is  *)
(* computed from.  A policy is abstracted to the version of the database   *)
(* rows it was computed from; db[u] is the current version.  Every Redis   *)
(* call may raise RedisError (a lost connection, a failed ping), which     *)
(* each method logs and swallows.  ACCESS_CACHE_ENABLED is read from the   *)
(* settings of the process and does not change while it runs.              *)
(*                                                                         *)
(* TenantCache (same file) caches the tenant of one schema under its own   *)
(* key with the same expiry and delete_handler; a tenant is abstracted to  *)
(* the version of its row.  Its get and save do not consult                *)
(* ACCESS_CACHE_ENABLED.                                                   *)
(***************************************************************************)
EXTENDS Integers

CONSTANTS
    Users,         \* principal uuids of one tenant
    Apps,          \* application names (hash fields)
    Threads,       \* gunicorn request threads
    MaxVer,        \* bound on the number of policy changes per principal
    MaxTenantVer,  \* bound on the number of tenant changes
    RedisFaults    \* TRUE when Redis calls may raise RedisError

ASSUME AccessCacheAssumption ==
    /\ MaxVer \in Nat
    /\ MaxTenantVer \in Nat
    /\ RedisFaults \in BOOLEAN

\* What hget returns for a missing key or field.
Absent == -1
Version == 0..MaxVer

VARIABLES
    enabled,   \* settings.ACCESS_CACHE_ENABLED
    db,        \* version of the rows each principal's policy is computed from
    cache,     \* the Redis hash rbac::policy::tenant=..::user=u, field per app
    ttl,       \* the key has an expiry (ACCESS_CACHE_LIFETIME) set
    pc,        \* where each request thread is
    user,      \* the principal a thread works on
    app,       \* the application a reader asked for
    val,       \* the policy version a reader computed from the database
    keys,      \* the keys KEYS returned to delete_all_policies_for_tenant
    raised,    \* some request got RuntimeError from delete_handler
    tdb,       \* version of the tenant row
    tcache,    \* the Redis key rbac::tenant::schema=..
    tttl       \* that key has an expiry set

tenantVars == <<tdb, tcache, tttl>>
vars == <<enabled, db, cache, ttl, pc, user, app, val, keys, raised, tdb, tcache, tttl>>

NoKey == [a \in Apps |-> Absent]

TypeOK ==
    /\ enabled \in BOOLEAN
    /\ db \in [Users -> Version]
    /\ cache \in [Users -> [Apps -> Version \cup {Absent}]]
    /\ ttl \in [Users -> BOOLEAN]
    /\ pc \in [Threads -> {"idle", "computed", "changed", "listed", "tcomputed", "tchanged"}]
    /\ user \in [Threads -> Users]
    /\ app \in [Threads -> Apps]
    /\ val \in [Threads -> Version \cup 0..MaxTenantVer]
    /\ keys \in [Threads -> SUBSET Users]
    /\ raised \in BOOLEAN
    /\ tdb \in 0..MaxTenantVer
    /\ tcache \in 0..MaxTenantVer \cup {Absent}
    /\ tttl \in BOOLEAN

Init ==
    /\ enabled \in BOOLEAN
    /\ db = [u \in Users |-> 0]
    /\ cache = [u \in Users |-> NoKey]
    /\ ttl = [u \in Users |-> FALSE]
    /\ pc = [t \in Threads |-> "idle"]
    /\ user \in [Threads -> Users]
    /\ app \in [Threads -> Apps]
    /\ val = [t \in Threads |-> 0]
    /\ keys = [t \in Threads |-> {}]
    /\ raised = FALSE
    /\ tdb = 0
    /\ tcache = Absent
    /\ tttl = FALSE

\* The Redis call of a step either runs or raises RedisError.
RedisCall(Body) == Body \/ (RedisFaults /\ UNCHANGED <<cache, ttl, tcache, tttl>>)

\* DEL of the keys of the principals in us.
DelKeys(us) ==
    /\ cache' = [u \in Users |-> IF u \in us THEN NoKey ELSE cache[u]]
    /\ ttl' = [u \in Users |-> IF u \in us THEN FALSE ELSE ttl[u]]

(***************************************************************************)
(* get_policy(u, a), and on a miss the caller computing the policy from    *)
(* the database.  When the cache is disabled, or hget raises, it is a      *)
(* miss.  A hit returns the cached policy and changes nothing, so it is    *)
(* not a step of its own.                                                  *)
(***************************************************************************)
GetPolicy(t, u, a) ==
    /\ pc[t] = "idle"
    /\ ~enabled \/ cache[u][a] = Absent \/ RedisFaults
    /\ user' = [user EXCEPT ![t] = u]
    /\ app' = [app EXCEPT ![t] = a]
    /\ pc' = [pc EXCEPT ![t] = "computed"]
    /\ val' = [val EXCEPT ![t] = db[u]]
    /\ UNCHANGED <<enabled, db, cache, ttl, keys, raised, tenantVars>>

\* Mutant: the pipeline without pipe.expire.
SavePolicyNoExpire(t) ==
    /\ pc[t] = "computed"
    /\ pc' = [pc EXCEPT ![t] = "idle"]
    /\ val' = [val EXCEPT ![t] = 0]
    /\ IF enabled
       THEN RedisCall(/\ cache' = [cache EXCEPT ![user[t]][app[t]] = val[t]]
                      /\ UNCHANGED ttl)
       ELSE UNCHANGED <<cache, ttl>>
    /\ UNCHANGED <<enabled, db, user, app, keys, raised, tenantVars>>

(***************************************************************************)
(* save_policy(u, a, policy): a no-op when the cache is disabled; else one *)
(* MULTI/EXEC pipeline that sets the field and the key's expiry.           *)
(***************************************************************************)
SavePolicy(t) ==
    /\ pc[t] = "computed"
    /\ pc' = [pc EXCEPT ![t] = "idle"]
    /\ val' = [val EXCEPT ![t] = 0]
    /\ IF enabled
       THEN RedisCall(/\ cache' = [cache EXCEPT ![user[t]][app[t]] = val[t]]
                      /\ ttl' = [ttl EXCEPT ![user[t]] = TRUE])
       ELSE UNCHANGED <<cache, ttl>>
    /\ UNCHANGED <<enabled, db, user, app, keys, raised, tenantVars>>

\* A caller changes the rows principal u's policy is computed from.
Change(t, u) ==
    /\ pc[t] = "idle"
    /\ db[u] < MaxVer
    /\ db' = [db EXCEPT ![u] = @ + 1]
    /\ pc' = [pc EXCEPT ![t] = "changed"]
    /\ user' = [user EXCEPT ![t] = u]
    /\ UNCHANGED <<enabled, cache, ttl, app, val, keys, raised, tenantVars>>

(***************************************************************************)
(* delete_handler: a @contextmanager that returns before its yield when    *)
(* the cache is disabled, so the with statement raises RuntimeError        *)
(* ("generator didn't yield") and the body never runs; else the body runs  *)
(* and a RedisError it raises is logged and swallowed.                     *)
(***************************************************************************)
DeleteHandler(t, Body) ==
    IF enabled
    THEN /\ raised' = raised
         /\ \/ Body
            \/ /\ RedisFaults
               /\ pc' = [pc EXCEPT ![t] = "idle"]
               /\ UNCHANGED <<cache, ttl, keys, tcache, tttl>>
    ELSE /\ raised' = TRUE
         /\ pc' = [pc EXCEPT ![t] = "idle"]
         /\ UNCHANGED <<cache, ttl, keys, tcache, tttl>>

\* delete_policy(u): DEL of the principal's key.
DeletePolicy(t) ==
    /\ pc[t] = "changed"
    /\ DeleteHandler(t, /\ DelKeys({user[t]})
                        /\ pc' = [pc EXCEPT ![t] = "idle"]
                        /\ UNCHANGED keys)
    /\ UNCHANGED <<enabled, db, user, app, val, tenantVars>>

(***************************************************************************)
(* delete_all_policies_for_tenant: KEYS of the tenant's policies, then, in *)
(* a second round trip, DEL of those keys when there are any.              *)
(***************************************************************************)
ListKeys(t) ==
    /\ pc[t] = "changed"
    /\ DeleteHandler(t, /\ keys' = [keys EXCEPT ![t] =
                                      {u \in Users : cache[u] # NoKey}]
                        /\ pc' = [pc EXCEPT ![t] = "listed"]
                        /\ UNCHANGED <<cache, ttl>>)
    /\ UNCHANGED <<enabled, db, user, app, val, tenantVars>>

DeleteKeys(t) ==
    /\ pc[t] = "listed"
    /\ pc' = [pc EXCEPT ![t] = "idle"]
    /\ keys' = [keys EXCEPT ![t] = {}]
    /\ RedisCall(DelKeys(keys[t]))
    /\ UNCHANGED <<enabled, db, user, app, val, raised, tenantVars>>

\* Redis drops a key whose ACCESS_CACHE_LIFETIME has run out.
Expire(u) ==
    /\ ttl[u]
    /\ DelKeys({u})
    /\ UNCHANGED <<enabled, db, pc, user, app, val, keys, raised, tenantVars>>

\* Mutant: the tenant pipeline without pipe.expire.
TenantSaveNoExpire(t) ==
    /\ pc[t] = "tcomputed"
    /\ pc' = [pc EXCEPT ![t] = "idle"]
    /\ val' = [val EXCEPT ![t] = 0]
    /\ RedisCall(tcache' = val[t] /\ UNCHANGED <<cache, ttl, tttl>>)
    /\ UNCHANGED <<enabled, db, user, app, keys, raised, tdb>>

(***************************************************************************)
(* TenantCache.get, and on a miss (or a RedisError, including a failed     *)
(* ping of a new connection) the caller loading the tenant row.  A hit     *)
(* returns the cached tenant.  It does not look at ACCESS_CACHE_ENABLED.   *)
(***************************************************************************)
TenantGet(t) ==
    /\ pc[t] = "idle"
    /\ tcache = Absent \/ RedisFaults
    /\ pc' = [pc EXCEPT ![t] = "tcomputed"]
    /\ val' = [val EXCEPT ![t] = tdb]
    /\ UNCHANGED <<enabled, db, cache, ttl, user, app, keys, raised, tenantVars>>

\* TenantCache.save: SET and EXPIRE in one pipeline, enabled or not.
TenantSave(t) ==
    /\ pc[t] = "tcomputed"
    /\ pc' = [pc EXCEPT ![t] = "idle"]
    /\ val' = [val EXCEPT ![t] = 0]
    /\ RedisCall(/\ tcache' = val[t] /\ tttl' = TRUE
                 /\ UNCHANGED <<cache, ttl>>)
    /\ UNCHANGED <<enabled, db, user, app, keys, raised, tdb>>

\* A caller changes the tenant row.
TenantChange(t) ==
    /\ pc[t] = "idle"
    /\ tdb < MaxTenantVer
    /\ tdb' = tdb + 1
    /\ pc' = [pc EXCEPT ![t] = "tchanged"]
    /\ UNCHANGED <<enabled, db, cache, ttl, user, app, val, keys, raised, tcache, tttl>>

\* TenantCache.delete: DEL of the tenant's key inside delete_handler.
TenantDelete(t) ==
    /\ pc[t] = "tchanged"
    /\ DeleteHandler(t, /\ tcache' = Absent /\ tttl' = FALSE
                        /\ pc' = [pc EXCEPT ![t] = "idle"]
                        /\ UNCHANGED <<cache, ttl, keys>>)
    /\ UNCHANGED <<enabled, db, user, app, val, tdb>>

\* Redis drops the tenant key once its lifetime has run out.
TenantExpire ==
    /\ tttl
    /\ tcache' = Absent /\ tttl' = FALSE
    /\ UNCHANGED <<enabled, db, cache, ttl, pc, user, app, val, keys, raised, tdb>>

Next ==
    \/ \E t \in Threads :
          \/ \E u \in Users, a \in Apps : GetPolicy(t, u, a)
          \/ \E u \in Users : Change(t, u)
          \/ SavePolicy(t) \/ DeletePolicy(t) \/ ListKeys(t) \/ DeleteKeys(t)
          \/ TenantGet(t) \/ TenantSave(t) \/ TenantChange(t) \/ TenantDelete(t)
    \/ \E u \in Users : Expire(u)
    \/ TenantExpire

(***************************************************************************)
(* A request in progress runs to its end, and Redis expires a key once its *)
(* lifetime is over.  Nobody is obliged to start a request.                *)
(***************************************************************************)
Fairness ==
    /\ \A t \in Threads :
          WF_vars(SavePolicy(t) \/ DeletePolicy(t) \/ ListKeys(t) \/ DeleteKeys(t)
                  \/ TenantSave(t) \/ TenantDelete(t))
    /\ \A u \in Users : WF_vars(Expire(u))
    /\ WF_vars(TenantExpire)

Spec == Init /\ [][Next]_vars /\ Fairness

-----------------------------------------------------------------------------
\* Every cached policy, and the cached tenant, was computed from the current rows.
Fresh == /\ \A u \in Users, a \in Apps : cache[u][a] \in {Absent, db[u]}
         /\ tcache \in {Absent, tdb}

(***************************************************************************)
(* Once policy and tenant changes stop, the cache ends up holding only     *)
(* current policies and the current tenant for good: a policy saved by a  *)
(* reader that raced an                                                    *)
(* invalidation, or left behind by a DEL that raised, is bounded by the    *)
(* expiry save_policy sets on every write.                                 *)
(***************************************************************************)
EventuallyFresh == <>[]Fresh

(***************************************************************************)
(* Every key the caches hold in Redis has its expiry set: save_policy and  *)
(* TenantCache.save write the value and the EXPIRE in one MULTI/EXEC       *)
(* pipeline, and every DEL or expiry removes both.  A stale policy saved   *)
(* by a reader that raced a purge, or left by a DEL that raised, is then   *)
(* dropped by Redis in the end; without the expiry it would be served     *)
(* until the next purge of that principal.                                 *)
(***************************************************************************)
EveryKeyExpires ==
    /\ \A u \in Users : cache[u] # NoKey => ttl[u]
    /\ tcache # Absent => tttl

(***************************************************************************)
(* Once a thread's invalidation of principal u is done, no policy of u     *)
(* computed before it is served from the cache: delete_policy is meant to  *)
(* purge the principal's policy.  Likewise TenantCache.delete for the      *)
(* tenant.                                                                 *)
(***************************************************************************)
NoStaleAfterInvalidation ==
    /\ \A u \in Users :
          (~\E t \in Threads : pc[t] \in {"changed", "listed"} /\ user[t] = u)
              => \A a \in Apps : cache[u][a] \in {Absent, db[u]}
    /\ (~\E t \in Threads : pc[t] = "tchanged") => tcache \in {Absent, tdb}

(***************************************************************************)
(* Purging a policy never fails a request: delete_policy and              *)
(* delete_all_policies_for_tenant return normally whether or not the      *)
(* cache is enabled.                                                       *)
(***************************************************************************)
DeleteNeverRaises == ~raised

=============================================================================
