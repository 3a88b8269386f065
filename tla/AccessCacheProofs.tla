------------------------- MODULE AccessCacheProofs -------------------------
(***************************************************************************)
(* Proofs about AccessCache for every set of principals, applications and *)
(* threads and every bound on changes, with or without Redis faults and   *)
(* with the cache enabled or not.                                          *)
(***************************************************************************)
EXTENDS AccessCache, TLAPS

USE AccessCacheAssumption

(***************************************************************************)
(* What a request thread holds between its get and its save: a policy     *)
(* version after get_policy missed, a tenant version after                *)
(* TenantCache.get missed.  TypeOK alone does not say which.              *)
(***************************************************************************)
ValTyped ==
    \A t \in Threads :
        /\ pc[t] = "computed" => val[t] \in Version
        /\ pc[t] = "tcomputed" => val[t] \in 0..MaxTenantVer

CacheInductive == TypeOK /\ EveryKeyExpires /\ ValTyped

\* Absent is not a version.
LEMMA AbsentNotVersion ==
    /\ Absent \notin Version
    /\ Absent \notin 0..MaxTenantVer
BY DEF Absent, Version

\* The empty hash is a hash.
LEMMA NoKeyType == NoKey \in [Apps -> Version \cup {Absent}]
BY DEF NoKey

\* A hash with a field set is not the empty hash.
LEMMA FieldNotNoKey ==
    ASSUME NEW h \in [Apps -> Version \cup {Absent}], NEW a \in Apps, NEW v \in Version
    PROVE  [h EXCEPT ![a] = v] # NoKey
BY AbsentNotVersion DEF NoKey

-----------------------------------------------------------------------------
LEMMA InductiveInit == Init => CacheInductive
<1> SUFFICES ASSUME Init PROVE CacheInductive
  OBVIOUS
<1>1. TypeOK
  <2>1. cache \in [Users -> [Apps -> Version \cup {Absent}]]
    BY NoKeyType DEF Init
  <2>2. /\ val \in [Threads -> Version \cup 0..MaxTenantVer]
        /\ db \in [Users -> Version]
    BY DEF Init, Version
  <2>3. tcache \in 0..MaxTenantVer \cup {Absent}
    BY DEF Init
  <2>4. /\ pc \in [Threads -> {"idle", "computed", "changed", "listed", "tcomputed", "tchanged"}]
        /\ ttl \in [Users -> BOOLEAN]
        /\ keys \in [Threads -> SUBSET Users]
    BY DEF Init
  <2>5. enabled \in BOOLEAN /\ raised \in BOOLEAN /\ tttl \in BOOLEAN
    BY DEF Init
  <2>6. tdb \in 0..MaxTenantVer /\ user \in [Threads -> Users] /\ app \in [Threads -> Apps]
    BY DEF Init
  <2> QED
    BY <2>1, <2>2, <2>3, <2>4, <2>5, <2>6 DEF TypeOK
<1>2. EveryKeyExpires
  BY DEF Init, EveryKeyExpires
<1>3. ValTyped
  BY DEF Init, ValTyped
<1> QED
  BY <1>1, <1>2, <1>3 DEF CacheInductive

(***************************************************************************)
(* DEL of some principals' keys keeps every remaining key's expiry.        *)
(***************************************************************************)
LEMMA DelKeysKeepsExpiry ==
    ASSUME TypeOK, EveryKeyExpires, NEW us \in SUBSET Users, DelKeys(us)
    PROVE  /\ cache' \in [Users -> [Apps -> Version \cup {Absent}]]
           /\ ttl' \in [Users -> BOOLEAN]
           /\ \A u \in Users : cache'[u] # NoKey => ttl'[u]
BY NoKeyType DEF DelKeys, TypeOK, EveryKeyExpires

\* The threads other than t keep their step and their value.
ValTypedOthers(t) ==
    \A s \in Threads \ {t} : pc'[s] = pc[s] /\ val'[s] = val[s]

LEMMA ValTypedStep ==
    ASSUME ValTyped, NEW t \in Threads, ValTypedOthers(t),
           pc' \in [Threads -> {"idle", "computed", "changed", "listed", "tcomputed", "tchanged"}],
           pc'[t] = "computed" => val'[t] \in Version,
           pc'[t] = "tcomputed" => val'[t] \in 0..MaxTenantVer
    PROVE  ValTyped'
BY DEF ValTyped, ValTypedOthers

(***************************************************************************)
(* delete_handler without its body running (the body's RedisError was     *)
(* swallowed, or the cache is disabled and the with statement raised):    *)
(* the thread's request ends and Redis is untouched.                       *)
(***************************************************************************)
LEMMA HandlerAborted ==
    ASSUME CacheInductive, NEW t \in Threads,
           pc' = [pc EXCEPT ![t] = "idle"], raised' \in BOOLEAN,
           UNCHANGED <<cache, ttl, keys, tcache, tttl, enabled, db, user, app, val, tdb>>
    PROVE  CacheInductive'
<1>1. TypeOK'
  BY DEF CacheInductive, TypeOK
<1>2. EveryKeyExpires'
  BY DEF CacheInductive, EveryKeyExpires
<1>3. ValTyped'
  BY DEF CacheInductive, ValTyped, TypeOK
<1> QED
  BY <1>1, <1>2, <1>3 DEF CacheInductive

-----------------------------------------------------------------------------
LEMMA InductiveStep == CacheInductive /\ [Next]_vars => CacheInductive'
<1> SUFFICES ASSUME CacheInductive, [Next]_vars PROVE CacheInductive'
  OBVIOUS
<1> USE DEF CacheInductive, tenantVars
<1>0. TypeOK /\ EveryKeyExpires /\ ValTyped
  OBVIOUS
<1>1. ASSUME NEW t \in Threads, NEW u \in Users, NEW a \in Apps, GetPolicy(t, u, a)
      PROVE  CacheInductive'
  <2>1. TypeOK'
    BY <1>1 DEF GetPolicy, TypeOK, Version
  <2>2. EveryKeyExpires'
    BY <1>1 DEF GetPolicy, EveryKeyExpires
  <2>3. ValTyped'
    BY <1>1, <2>1, ValTypedStep DEF GetPolicy, TypeOK, ValTypedOthers
  <2> QED
    BY <2>1, <2>2, <2>3
<1>2. ASSUME NEW t \in Threads, SavePolicy(t) PROVE CacheInductive'
  <2>1. val[t] \in Version
    BY <1>2 DEF SavePolicy, ValTyped, TypeOK
  <2>2. CASE enabled /\ cache' = [cache EXCEPT ![user[t]][app[t]] = val[t]]
                     /\ ttl' = [ttl EXCEPT ![user[t]] = TRUE]
    <3>1. TypeOK'
      BY <1>2, <2>1, <2>2 DEF SavePolicy, TypeOK
    <3>2. EveryKeyExpires'
      BY <1>2, <2>2 DEF SavePolicy, EveryKeyExpires, TypeOK
    <3> QED
      BY <1>2, <3>1, <3>2, ValTypedStep DEF SavePolicy, TypeOK, ValTypedOthers
  <2>3. CASE UNCHANGED <<cache, ttl>>
    <3>1. TypeOK'
      BY <1>2, <2>3 DEF SavePolicy, TypeOK, Version
    <3>2. EveryKeyExpires'
      BY <1>2, <2>3 DEF SavePolicy, EveryKeyExpires
    <3> QED
      BY <1>2, <3>1, <3>2, ValTypedStep DEF SavePolicy, TypeOK, ValTypedOthers
  <2> QED
    BY <1>2, <2>2, <2>3 DEF SavePolicy, RedisCall
<1>3. ASSUME NEW t \in Threads, NEW u \in Users, Change(t, u) PROVE CacheInductive'
  <2>1. TypeOK'
    BY <1>3 DEF Change, TypeOK, Version
  <2>2. EveryKeyExpires'
    BY <1>3 DEF Change, EveryKeyExpires
  <2> QED
    BY <1>3, <2>1, <2>2, ValTypedStep DEF Change, TypeOK, ValTypedOthers
<1>4. ASSUME NEW t \in Threads, DeletePolicy(t) PROVE CacheInductive'
  <2>1. CASE enabled /\ DelKeys({user[t]}) /\ pc' = [pc EXCEPT ![t] = "idle"]
             /\ UNCHANGED keys
    <3>1. /\ cache' \in [Users -> [Apps -> Version \cup {Absent}]]
          /\ ttl' \in [Users -> BOOLEAN]
          /\ \A v \in Users : cache'[v] # NoKey => ttl'[v]
      BY <2>1, DelKeysKeepsExpiry DEF TypeOK
    <3>2. raised' = raised /\ UNCHANGED <<enabled, db, user, app, val, tdb, tcache, tttl>>
      BY <1>4, <2>1 DEF DeletePolicy, DeleteHandler
    <3>3. TypeOK'
      BY <2>1, <3>1, <3>2 DEF TypeOK
    <3>4. EveryKeyExpires'
      BY <3>1, <3>2 DEF EveryKeyExpires
    <3>5. ValTyped'
      BY <2>1, <3>2 DEF ValTyped, TypeOK
    <3> QED
      BY <3>3, <3>4, <3>5
  <2>2. CASE ~(enabled /\ DelKeys({user[t]}) /\ pc' = [pc EXCEPT ![t] = "idle"]
               /\ UNCHANGED keys)
    <3>1. /\ pc' = [pc EXCEPT ![t] = "idle"] /\ raised' \in BOOLEAN
          /\ UNCHANGED <<cache, ttl, keys, tcache, tttl, enabled, db, user, app, val, tdb>>
      BY <1>4, <2>2 DEF DeletePolicy, DeleteHandler, TypeOK
    <3> QED
      BY <3>1, HandlerAborted
  <2> QED
    BY <2>1, <2>2
<1>5. ASSUME NEW t \in Threads, ListKeys(t) PROVE CacheInductive'
  <2>1. CASE enabled /\ keys' = [keys EXCEPT ![t] = {u \in Users : cache[u] # NoKey}]
             /\ pc' = [pc EXCEPT ![t] = "listed"] /\ UNCHANGED <<cache, ttl>>
    <3>1. raised' = raised /\ UNCHANGED <<enabled, db, user, app, val, tdb, tcache, tttl>>
      BY <1>5, <2>1 DEF ListKeys, DeleteHandler
    <3>2. TypeOK'
      BY <2>1, <3>1 DEF TypeOK
    <3>3. EveryKeyExpires'
      BY <2>1, <3>1 DEF EveryKeyExpires
    <3>4. ValTyped'
      BY <2>1, <3>1 DEF ValTyped, TypeOK
    <3> QED
      BY <3>2, <3>3, <3>4
  <2>2. CASE ~(enabled /\ keys' = [keys EXCEPT ![t] = {u \in Users : cache[u] # NoKey}]
               /\ pc' = [pc EXCEPT ![t] = "listed"] /\ UNCHANGED <<cache, ttl>>)
    <3>1. /\ pc' = [pc EXCEPT ![t] = "idle"] /\ raised' \in BOOLEAN
          /\ UNCHANGED <<cache, ttl, keys, tcache, tttl, enabled, db, user, app, val, tdb>>
      BY <1>5, <2>2 DEF ListKeys, DeleteHandler, TypeOK
    <3> QED
      BY <3>1, HandlerAborted
  <2> QED
    BY <2>1, <2>2
<1>6. ASSUME NEW t \in Threads, DeleteKeys(t) PROVE CacheInductive'
  <2>1. CASE DelKeys(keys[t])
    <3>1. /\ cache' \in [Users -> [Apps -> Version \cup {Absent}]]
          /\ ttl' \in [Users -> BOOLEAN]
          /\ \A v \in Users : cache'[v] # NoKey => ttl'[v]
      BY <2>1, DelKeysKeepsExpiry DEF TypeOK
    <3> QED
      BY <1>6, <3>1, ValTypedStep DEF DeleteKeys, TypeOK, EveryKeyExpires, ValTypedOthers
  <2>2. CASE UNCHANGED <<cache, ttl, tcache, tttl>>
    BY <1>6, <2>2, ValTypedStep DEF DeleteKeys, TypeOK, EveryKeyExpires, ValTypedOthers
  <2> QED
    BY <1>6, <2>1, <2>2 DEF DeleteKeys, RedisCall
<1>7. ASSUME NEW u \in Users, Expire(u) PROVE CacheInductive'
  <2>1. /\ cache' \in [Users -> [Apps -> Version \cup {Absent}]]
        /\ ttl' \in [Users -> BOOLEAN]
        /\ \A v \in Users : cache'[v] # NoKey => ttl'[v]
    BY <1>7, DelKeysKeepsExpiry DEF Expire
  <2> QED
    BY <1>7, <2>1 DEF Expire, TypeOK, EveryKeyExpires, ValTyped
<1>8. ASSUME NEW t \in Threads, TenantGet(t) PROVE CacheInductive'
  BY <1>8, ValTypedStep DEF TenantGet, TypeOK, EveryKeyExpires, ValTypedOthers, tenantVars
<1>9. ASSUME NEW t \in Threads, TenantSave(t) PROVE CacheInductive'
  <2>1. val[t] \in 0..MaxTenantVer
    BY <1>9 DEF TenantSave, ValTyped, TypeOK
  <2>2. /\ pc' = [pc EXCEPT ![t] = "idle"] /\ val' = [val EXCEPT ![t] = 0]
        /\ UNCHANGED <<enabled, db, user, app, keys, raised, tdb, cache, ttl>>
        /\ \/ tcache' = val[t] /\ tttl' = TRUE
           \/ UNCHANGED <<tcache, tttl>>
    BY <1>9 DEF TenantSave, RedisCall
  <2>3. TypeOK'
    <3>1. tcache' \in 0..MaxTenantVer \cup {Absent} /\ tttl' \in BOOLEAN
      BY <2>1, <2>2 DEF TypeOK
    <3>2. val' \in [Threads -> Version \cup 0..MaxTenantVer]
      BY <2>2 DEF TypeOK
    <3>3. pc' \in [Threads -> {"idle", "computed", "changed", "listed", "tcomputed", "tchanged"}]
      BY <2>2 DEF TypeOK
    <3> QED
      BY <2>2, <3>1, <3>2, <3>3 DEF TypeOK
  <2>4. EveryKeyExpires'
    BY <2>2 DEF EveryKeyExpires
  <2>5. ValTyped'
    BY <2>2 DEF ValTyped, TypeOK
  <2> QED
    BY <2>3, <2>4, <2>5
<1>10. ASSUME NEW t \in Threads, TenantChange(t) PROVE CacheInductive'
  BY <1>10, ValTypedStep DEF TenantChange, TypeOK, EveryKeyExpires, ValTypedOthers
<1>11. ASSUME NEW t \in Threads, TenantDelete(t) PROVE CacheInductive'
  <2>1. CASE enabled /\ tcache' = Absent /\ tttl' = FALSE
             /\ pc' = [pc EXCEPT ![t] = "idle"] /\ UNCHANGED <<cache, ttl, keys>>
    <3>1. raised' = raised /\ UNCHANGED <<enabled, db, user, app, val, tdb>>
      BY <1>11, <2>1 DEF TenantDelete, DeleteHandler
    <3>2. TypeOK'
      BY <2>1, <3>1 DEF TypeOK
    <3>3. EveryKeyExpires'
      BY <2>1, <3>1 DEF EveryKeyExpires
    <3>4. ValTyped'
      BY <2>1, <3>1 DEF ValTyped, TypeOK
    <3> QED
      BY <3>2, <3>3, <3>4
  <2>2. CASE ~(enabled /\ tcache' = Absent /\ tttl' = FALSE
               /\ pc' = [pc EXCEPT ![t] = "idle"] /\ UNCHANGED <<cache, ttl, keys>>)
    <3>1. /\ pc' = [pc EXCEPT ![t] = "idle"] /\ raised' \in BOOLEAN
          /\ UNCHANGED <<cache, ttl, keys, tcache, tttl, enabled, db, user, app, val, tdb>>
      BY <1>11, <2>2 DEF TenantDelete, DeleteHandler, TypeOK
    <3> QED
      BY <3>1, HandlerAborted
  <2> QED
    BY <2>1, <2>2
<1>12. CASE TenantExpire
  BY <1>12 DEF TenantExpire, TypeOK, EveryKeyExpires, ValTyped
<1>13. CASE UNCHANGED vars
  BY <1>13 DEF vars, TypeOK, EveryKeyExpires, ValTyped
<1> QED
  BY <1>1, <1>2, <1>3, <1>4, <1>5, <1>6, <1>7, <1>8, <1>9, <1>10, <1>11, <1>12, <1>13
     DEF Next


-----------------------------------------------------------------------------
\* CacheInductive holds in every reachable state of the caches.
THEOREM CacheInvariant == Spec => []CacheInductive
BY InductiveInit, InductiveStep, PTL DEF Spec

\* Type correctness of the policy and tenant caches: every Redis value,
\* version and thread-local variable stays in its type under any
\* interleaving of reads, saves, purges and expiries.
THEOREM CacheTypeCorrect == Spec => []TypeOK
<1>1. CacheInductive => TypeOK
  BY DEF CacheInductive
<1> QED
  BY <1>1, CacheInvariant, PTL

\* Every key that save_policy or TenantCache.save puts in Redis has its
\* expiry set, because both write it in the same MULTI/EXEC pipeline, for
\* every number of users, applications, threads and versions.
THEOREM KeysAlwaysExpire == Spec => []EveryKeyExpires
<1>1. CacheInductive => EveryKeyExpires
  BY DEF CacheInductive
<1> QED
  BY <1>1, CacheInvariant, PTL

=============================================================================
