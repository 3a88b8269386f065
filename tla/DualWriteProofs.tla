-------------------------- MODULE DualWriteProofs --------------------------
(***************************************************************************)
(* Proofs about DualWrite for every value of its constants.  The           *)
(* translation (Translate) is used as an opaque function: the proofs rely  *)
(* only on every relation of Translate(r, s) belonging to legacy role r.   *)
(***************************************************************************)
EXTENDS DualWrite, TLAPS

USE DualWriteAssumption

\* binding_mapping = None is distinguishable from every stored mapping.
LEMMA NoneNotTranslation == None \notin AllTranslations
BY NoSetContainsEverything DEF None

\* A translation of role r holds relations of r only.
LEMMA TranslateOwnRole ==
    ASSUME NEW r, NEW s
    PROVE  \A x \in Translate(r, s) : x.v1 = r
BY DEF Translate

(***************************************************************************)
(* Applying an event whose relations all belong to role r changes the      *)
(* relations of r as removal-then-addition and leaves every other role's. *)
(***************************************************************************)
LEMMA ApplyOwnRole ==
    ASSUME NEW rs, NEW r, NEW C, NEW N,
           \A x \in C \cup N : x.v1 = r
    PROVE  /\ {x \in (rs \ C) \cup N : x.v1 = r} = ({x \in rs : x.v1 = r} \ C) \cup N
           /\ \A q : q # r =>
                 {x \in (rs \ C) \cup N : x.v1 = q} = {x \in rs : x.v1 = q}
OBVIOUS

\* A handler's relation lists start empty, and empty is a relation set it holds.
LEMMA EmptyTranslation == {} \in AllTranslations
BY DEF AllTranslations

-----------------------------------------------------------------------------
LEMMA TypeInit == Init => TypeOK
<1> SUFFICES ASSUME Init PROVE TypeOK
  OBVIOUS
<1>1. (CHOOSE r \in Roles : TRUE) \in Roles /\ (CHOOSE s \in States : TRUE) \in States
  OBVIOUS
<1> QED
  BY <1>1, EmptyTranslation DEF Init, TypeOK, PC

LEMMA TypeStep == TypeOK /\ [Next]_vars => TypeOK'
<1> SUFFICES ASSUME TypeOK, [Next]_vars PROVE TypeOK'
  OBVIOUS
<1> USE DEF TypeOK
<1>1. ASSUME NEW t \in Threads, NEW r \in Roles, Begin(t, r) PROVE TypeOK'
  BY <1>1, EmptyTranslation DEF Begin, PC
<1>2. ASSUME NEW t \in Threads, Load(t) PROVE TypeOK'
  <2>1. mapping[tr[t]] # None => mapping[tr[t]] \in AllTranslations
    OBVIOUS
  <2>2. Translate(tr[t], role[tr[t]]) \in AllTranslations
    BY DEF AllTranslations
  <2> QED
    BY <1>2, <2>1, <2>2 DEF Load, PC
<1>3. ASSUME NEW t \in Threads, NEW s \in States, Write(t, s) PROVE TypeOK'
  BY <1>3 DEF Write, PC
<1>4. ASSUME NEW t \in Threads, Generate(t) PROVE TypeOK'
  <2>1. Translate(tr[t], buf[t]) \in AllTranslations
    BY DEF AllTranslations
  <2>2. new' \in [Threads -> AllTranslations]
    BY <1>4, <2>1 DEF Generate
  <2> QED
    BY <1>4, <2>2 DEF Generate, PC
<1>5. ASSUME NEW t \in Threads, Commit(t) PROVE TypeOK'
  <2>1. Apply(replica, Event(t)) \subseteq UNION AllTranslations
    BY DEF Apply, Event
  <2> QED
    BY <1>5, <2>1 DEF Commit, PC
<1>6. ASSUME NEW t \in Threads, Fail(t) PROVE TypeOK'
  BY <1>6 DEF Fail, PC
<1>7. CASE Toggle
  BY <1>7 DEF Toggle
<1>8. CASE UNCHANGED vars
  BY <1>8 DEF vars
<1> QED
  BY <1>1, <1>2, <1>3, <1>4, <1>5, <1>6, <1>7, <1>8 DEF Next

(***************************************************************************)
(* Type correctness: every state of the handler and of the stores is of    *)
(* the shape TypeOK states, whatever the constants.                        *)
(***************************************************************************)
THEOREM TypeCorrect == Spec => []TypeOK
BY TypeInit, TypeStep, PTL DEF Spec

-----------------------------------------------------------------------------
LEMMA IInvInit == Init => IInv
<1> SUFFICES ASSUME Init PROVE IInv
  OBVIOUS
<1>1. TypeOK
  BY TypeInit
<1>2. ReplicaOf(CHOOSE r \in Roles : TRUE) = {}
  BY DEF Init, ReplicaOf
<1> QED
  BY <1>1 DEF Init, IInv, LockHeld, NothingPublishedWithoutMapping,
             ConsistentWhileEnabled, HandlerFresh, HandlerLoaded, HandlerGenerated,
             DisabledWritersUnmapped, NeverEnabledUnmapped, ReplicaOf, EnabledWriter

\* The steps other than Commit leave role, mapping and replica alone.
LEMMA StoresUnchanged ==
    ASSUME NEW t \in Threads,
           \/ \E r \in Roles : Begin(t, r)
           \/ Load(t) \/ Generate(t) \/ Fail(t)
           \/ \E s \in States : Write(t, s)
    PROVE  UNCHANGED <<role, mapping, replica, enabled, toggles>>
BY DEF Begin, Load, Generate, Fail, Write

(***************************************************************************)
(* The commit of a thread running with replication on: under the          *)
(* inductive invariant the store ends up holding, for the role, exactly    *)
(* the translation of the written state (which the mapping records), and   *)
(* the relations of every other role are untouched.                        *)
(***************************************************************************)
LEMMA CommitEnabled ==
    ASSUME IInv, NEW t \in Threads, Commit(t), en[t]
    PROVE  LET r == tr[t] IN
           /\ mapping' = [mapping EXCEPT ![r] = Translate(r, buf[t])]
           /\ ReplicaOf(r)' = Translate(r, buf[t])
           /\ \A q \in Roles : q # r => ReplicaOf(q)' = ReplicaOf(q)
<1> DEFINE r == tr[t]
<1>0. /\ r \in Roles /\ pc[t] = "generated" /\ UNCHANGED tr
      /\ mapping' = [mapping EXCEPT ![r] = new[t]]
      /\ replica' = (replica \ cur[t]) \cup new[t]
  BY DEF Commit, Apply, Event, IInv, TypeOK
<1>1. /\ cur[t] = IF mapping[r] = None THEN {} ELSE Translate(r, role[r])
      /\ new[t] = Translate(r, buf[t])
  BY <1>0 DEF IInv, HandlerLoaded, HandlerGenerated
<1>2. \A x \in cur[t] \cup new[t] : x.v1 = r
  BY <1>1, TranslateOwnRole
<1>3. /\ ReplicaOf(r)' = (ReplicaOf(r) \ cur[t]) \cup new[t]
      /\ \A q \in Roles : q # r => ReplicaOf(q)' = ReplicaOf(q)
  <2>1. /\ {x \in (replica \ cur[t]) \cup new[t] : x.v1 = r}
           = ({x \in replica : x.v1 = r} \ cur[t]) \cup new[t]
        /\ \A q : q # r =>
             {x \in (replica \ cur[t]) \cup new[t] : x.v1 = q} = {x \in replica : x.v1 = q}
    BY <1>2, ApplyOwnRole
  <2> QED
    BY <1>0, <2>1 DEF ReplicaOf
<1>4. ReplicaOf(r) \subseteq cur[t]
  <2>1. CASE mapping[r] = None
    BY <2>1, <1>0 DEF IInv, NothingPublishedWithoutMapping
  <2>2. CASE mapping[r] # None
    <3>1. EnabledWriter(r)
      BY <1>0 DEF EnabledWriter
    <3> QED
      BY <2>2, <3>1, <1>1, <1>0 DEF IInv, ConsistentWhileEnabled, Consistent
  <2> QED
    BY <2>1, <2>2
<1> QED
  BY <1>0, <1>1, <1>3, <1>4

LEMMA IInvStep ==
    ASSUME MaxToggles <= 1
    PROVE  IInv /\ [Next]_vars => IInv'
<1> SUFFICES ASSUME IInv, [Next]_vars PROVE IInv'
  OBVIOUS
<1>0. TypeOK /\ TypeOK'
  BY TypeStep DEF IInv
<1> USE DEF IInv
<1>1. ASSUME NEW t \in Threads, NEW r \in Roles, Begin(t, r) PROVE IInv'
  <2> USE <1>1
  <2>1. UNCHANGED <<role, mapping, replica, enabled, toggles>>
    BY StoresUnchanged
  <2>2. LockHeld'
    BY <1>0 DEF Begin, Busy, LockHeld, TypeOK
  <2>3. NothingPublishedWithoutMapping'
    BY <2>1 DEF NothingPublishedWithoutMapping, ReplicaOf
  <2>4. ConsistentWhileEnabled'
    <3> SUFFICES ASSUME NEW q \in Roles, mapping'[q] # None, enabled' \/ EnabledWriter(q)'
                 PROVE  Consistent(q)'
      BY DEF ConsistentWhileEnabled
    <3>1. enabled \/ EnabledWriter(q)
      BY <1>0, <2>1 DEF Begin, EnabledWriter, TypeOK
    <3> QED
      BY <3>1, <2>1 DEF ConsistentWhileEnabled, Consistent, ReplicaOf
  <2>5. HandlerFresh'
    BY <1>0 DEF Begin, HandlerFresh, TypeOK
  <2>6. HandlerLoaded'
    BY <1>0, <2>1 DEF Begin, HandlerLoaded, TypeOK
  <2>7. HandlerGenerated'
    BY <1>0 DEF Begin, HandlerGenerated, TypeOK
  <2>8. DisabledWritersUnmapped'
    BY <1>0, <2>1 DEF Begin, DisabledWritersUnmapped, TypeOK
  <2>9. NeverEnabledUnmapped'
    BY <1>0, <2>1 DEF Begin, NeverEnabledUnmapped, TypeOK
  <2> QED
    BY <1>0, <2>2, <2>3, <2>4, <2>5, <2>6, <2>7, <2>8, <2>9
<1>2. ASSUME NEW t \in Threads, Load(t) PROVE IInv'
  <2> USE <1>2
  <2>1. UNCHANGED <<role, mapping, replica, enabled, toggles>>
    BY StoresUnchanged
  <2>2. UNCHANGED <<tr, en, new, buf>> /\ pc' = [pc EXCEPT ![t] = "loaded"] /\ pc[t] = "begun"
    BY DEF Load
  <2>3. HandlerLoaded'
    BY <1>0, <2>1, <2>2 DEF Load, HandlerLoaded, HandlerFresh, TypeOK
  <2>4. HandlerGenerated'
    BY <1>0, <2>2 DEF Load, HandlerGenerated, TypeOK
  <2>5. \A u \in Threads : pc'[u] # "idle" <=> pc[u] # "idle"
    BY <1>0, <2>2 DEF TypeOK
  <2>6. LockHeld' /\ DisabledWritersUnmapped' /\ NeverEnabledUnmapped'
    BY <2>1, <2>2, <2>5 DEF LockHeld, DisabledWritersUnmapped, NeverEnabledUnmapped
  <2>7. ConsistentWhileEnabled'
    <3>1. \A q \in Roles : EnabledWriter(q)' <=> EnabledWriter(q)
      BY <2>2, <2>5 DEF EnabledWriter
    <3> QED
      BY <3>1, <2>1 DEF ConsistentWhileEnabled, Consistent, ReplicaOf
  <2>8. HandlerFresh'
    BY <1>0, <2>2 DEF HandlerFresh, Load, TypeOK
  <2>9. NothingPublishedWithoutMapping'
    BY <2>1 DEF NothingPublishedWithoutMapping, ReplicaOf
  <2> QED
    BY <1>0, <2>3, <2>4, <2>6, <2>7, <2>8, <2>9
<1>3. ASSUME NEW t \in Threads, NEW s \in States, Write(t, s) PROVE IInv'
  <2> USE <1>3
  <2>1. UNCHANGED <<role, mapping, replica, enabled, toggles, tr, en, bm, cur, new>>
    BY DEF Write
  <2>2. pc[t] = "loaded" /\ pc' = [pc EXCEPT ![t] = "written"]
    BY DEF Write
  <2> QED
    BY <1>0, <2>1, <2>2
       DEF LockHeld, NothingPublishedWithoutMapping, ConsistentWhileEnabled, Consistent,
           EnabledWriter, ReplicaOf, HandlerFresh, HandlerLoaded, HandlerGenerated,
           DisabledWritersUnmapped, NeverEnabledUnmapped, Write, TypeOK
<1>4. ASSUME NEW t \in Threads, Generate(t) PROVE IInv'
  <2> USE <1>4
  <2>1. UNCHANGED <<role, mapping, replica, enabled, toggles, tr, en, bm, cur, buf>>
    BY DEF Generate
  <2>2. pc[t] = "written" /\ pc' = [pc EXCEPT ![t] = "generated"]
    BY DEF Generate
  <2>3. HandlerGenerated'
    BY <1>0, <2>1, <2>2 DEF Generate, HandlerGenerated, TypeOK
  <2> QED
    BY <1>0, <2>1, <2>2, <2>3
       DEF LockHeld, NothingPublishedWithoutMapping, ConsistentWhileEnabled, Consistent,
           EnabledWriter, ReplicaOf, HandlerFresh, HandlerLoaded,
           DisabledWritersUnmapped, NeverEnabledUnmapped, TypeOK
<1>5. ASSUME NEW t \in Threads, Commit(t) PROVE IInv'
  <2> USE <1>5
  <2> DEFINE r == tr[t]
  <2>0. /\ r \in Roles
        /\ pc[t] = "generated"
        /\ pc' = [pc EXCEPT ![t] = "idle"]
        /\ role' = [role EXCEPT ![r] = buf[t]]
        /\ UNCHANGED <<enabled, toggles, tr, en, bm, cur, new, buf>>
    BY <1>0 DEF Commit, TypeOK
  \* The row lock: no other thread is in a transaction on r.
  <2>1. \A u \in Threads : u # t /\ pc[u] # "idle" => tr[u] # r
    BY <2>0 DEF LockHeld
  <2>2. \A u \in Threads : pc'[u] # "idle" => u # t /\ pc[u] # "idle"
    BY <2>0, <1>0 DEF TypeOK
  <2>3. \A q \in Roles : q # r => (EnabledWriter(q)' => EnabledWriter(q))
    BY <2>0, <2>2 DEF EnabledWriter
  <2>4. ~EnabledWriter(r)'
    BY <2>0, <2>1, <2>2 DEF EnabledWriter
  <2>5. HandlerFresh' /\ HandlerGenerated' /\ LockHeld'
    BY <2>0, <2>2, <1>0 DEF HandlerFresh, HandlerGenerated, LockHeld, TypeOK
  <2>6. CASE en[t]
    <3>1. /\ mapping' = [mapping EXCEPT ![r] = new[t]]
          /\ new[t] = Translate(r, buf[t])
      BY <2>6, <2>0 DEF Commit, HandlerGenerated
    <3>2. /\ ReplicaOf(r)' = Translate(r, buf[t])
          /\ \A q \in Roles : q # r => ReplicaOf(q)' = ReplicaOf(q)
      BY <2>6, CommitEnabled
    <3>3. ReplicaOf(r)' = new[t]
      BY <3>1, <3>2
    <3>4. new[t] # None
      BY <1>0, NoneNotTranslation DEF TypeOK
    <3>5. NothingPublishedWithoutMapping'
      BY <3>1, <3>2, <3>4, <1>0 DEF NothingPublishedWithoutMapping, TypeOK
    <3>6. ConsistentWhileEnabled'
      <4> SUFFICES ASSUME NEW q \in Roles, mapping'[q] # None, enabled' \/ EnabledWriter(q)'
                   PROVE  Consistent(q)'
        BY DEF ConsistentWhileEnabled
      <4>1. CASE q = r
        BY <4>1, <3>1, <3>3, <2>0, <1>0 DEF Consistent, TypeOK
      <4>2. CASE q # r
        <5>1. enabled \/ EnabledWriter(q)
          BY <4>2, <2>0, <2>3
        <5> QED
          BY <4>2, <5>1, <3>1, <3>2, <2>0, <1>0 DEF ConsistentWhileEnabled, Consistent, TypeOK
      <4> QED
        BY <4>1, <4>2
    <3>7. HandlerLoaded'
      BY <3>1, <2>0, <2>1, <2>2, <1>0 DEF HandlerLoaded, TypeOK
    <3>8. DisabledWritersUnmapped'
      BY <3>1, <2>0, <2>1, <2>2, <1>0 DEF DisabledWritersUnmapped, TypeOK
    <3>9. NeverEnabledUnmapped'
      BY <2>0, <2>6 DEF NeverEnabledUnmapped
    <3> QED
      BY <1>0, <2>5, <3>5, <3>6, <3>7, <3>8, <3>9
  <2>7. CASE ~en[t]
    <3>1. UNCHANGED <<mapping, replica>>
      BY <2>7 DEF Commit
    <3>2. ~(enabled /\ mapping[r] # None)
      BY <2>0, <2>7 DEF DisabledWritersUnmapped
    <3>3. ConsistentWhileEnabled'
      <4> SUFFICES ASSUME NEW q \in Roles, mapping'[q] # None, enabled' \/ EnabledWriter(q)'
                   PROVE  Consistent(q)'
        BY DEF ConsistentWhileEnabled
      <4>1. q # r
        BY <3>1, <3>2, <2>0, <2>4
      <4>2. enabled \/ EnabledWriter(q)
        BY <4>1, <2>0, <2>3
      <4> QED
        BY <4>1, <4>2, <3>1, <2>0, <1>0 DEF ConsistentWhileEnabled, Consistent, ReplicaOf, TypeOK
    <3>4. NothingPublishedWithoutMapping'
      BY <3>1 DEF NothingPublishedWithoutMapping, ReplicaOf
    <3>5. HandlerLoaded'
      BY <3>1, <2>0, <2>1, <2>2, <1>0 DEF HandlerLoaded, TypeOK
    <3>6. DisabledWritersUnmapped' /\ NeverEnabledUnmapped'
      BY <3>1, <2>0, <2>2 DEF DisabledWritersUnmapped, NeverEnabledUnmapped
    <3> QED
      BY <1>0, <2>5, <3>3, <3>4, <3>5, <3>6
  <2> QED
    BY <2>6, <2>7
<1>6. ASSUME NEW t \in Threads, Fail(t) PROVE IInv'
  <2> USE <1>6
  <2>1. UNCHANGED <<role, mapping, replica, enabled, toggles, tr, en, bm, cur, new, buf>>
    BY DEF Fail
  <2>2. pc' = [pc EXCEPT ![t] = "idle"]
    BY DEF Fail
  <2>3. ConsistentWhileEnabled'
    BY <1>0, <2>1, <2>2 DEF ConsistentWhileEnabled, Consistent, EnabledWriter, ReplicaOf, TypeOK
  <2> QED
    BY <1>0, <2>1, <2>2, <2>3
       DEF LockHeld, NothingPublishedWithoutMapping, ReplicaOf, HandlerFresh,
           HandlerLoaded, HandlerGenerated, DisabledWritersUnmapped,
           NeverEnabledUnmapped, TypeOK
<1>7. CASE Toggle
  <2>1. /\ toggles = 0
        /\ enabled' = ~enabled
        /\ toggles' = 1
        /\ UNCHANGED <<role, mapping, replica, pc, tr, en, bm, cur, new, buf>>
    BY <1>7, <1>0 DEF Toggle, TypeOK
  <2>2. \A q \in Roles : EnabledWriter(q)' <=> EnabledWriter(q)
    BY <2>1 DEF EnabledWriter
  <2>3. CASE enabled
    <3>1. ConsistentWhileEnabled'
      BY <2>1, <2>2, <2>3 DEF ConsistentWhileEnabled, Consistent, ReplicaOf
    <3> QED
      BY <1>0, <2>1, <2>3, <3>1
         DEF LockHeld, NothingPublishedWithoutMapping, ReplicaOf, HandlerFresh,
             HandlerLoaded, HandlerGenerated, DisabledWritersUnmapped, NeverEnabledUnmapped
  <2>4. CASE ~enabled
    <3>1. \A q \in Roles : mapping[q] = None
      BY <2>1, <2>4 DEF NeverEnabledUnmapped
    <3>2. ConsistentWhileEnabled' /\ DisabledWritersUnmapped'
      BY <2>1, <3>1 DEF ConsistentWhileEnabled, DisabledWritersUnmapped, TypeOK
    <3> QED
      BY <1>0, <2>1, <3>2
         DEF LockHeld, NothingPublishedWithoutMapping, ReplicaOf, HandlerFresh,
             HandlerLoaded, HandlerGenerated, NeverEnabledUnmapped
  <2> QED
    BY <2>3, <2>4
<1>8. CASE UNCHANGED vars
  <2>1. UNCHANGED <<role, mapping, replica, enabled, toggles, pc, tr, en, bm, cur, new, buf>>
    BY <1>8 DEF vars
  <2> QED
  BY <2>1, <1>0 DEF LockHeld, NothingPublishedWithoutMapping, ConsistentWhileEnabled,
     Consistent, EnabledWriter, ReplicaOf, HandlerFresh, HandlerLoaded,
     HandlerGenerated, DisabledWritersUnmapped, NeverEnabledUnmapped
<1> QED
  BY <1>1, <1>2, <1>3, <1>4, <1>5, <1>6, <1>7, <1>8 DEF Next

(***************************************************************************)
(* With at most one flip of the replication flag, the row lock keeps one   *)
(* writer per role, each handler holds the committed mapping and the       *)
(* translation of the committed role from load to commit, and requests run *)
(* with replication off only write never-mapped roles (IInv), in every     *)
(* reachable state.                                                        *)
(***************************************************************************)
THEOREM IInvariant ==
    ASSUME MaxToggles <= 1
    PROVE  Spec => []IInv
BY IInvInit, IInvStep, PTL DEF Spec

(***************************************************************************)
(* In a deployment history that flips REPLICATION_TO_RELATION_ENABLED at   *)
(* most once, whenever replication is on, every role with a BindingMapping *)
(* has in the relation store exactly the translation of its committed      *)
(* legacy state, and its mapping records that set.                         *)
(***************************************************************************)
THEOREM ReplicaConsistency ==
    ASSUME MaxToggles <= 1
    PROVE  Spec => []ReplicaConsistent
<1>1. IInv => ReplicaConsistent
  BY DEF IInv, ConsistentWhileEnabled, Consistent, ReplicaConsistent
<1> QED
  BY <1>1, IInvariant, PTL

-----------------------------------------------------------------------------
(***************************************************************************)
(* Every step of the handler and its callers is a step of ReplicatedRoles  *)
(* under the refinement mapping PubBar, or leaves its variables alone.     *)
(***************************************************************************)
LEMMA RefineStep ==
    ASSUME MaxToggles <= 1
    PROVE  IInv /\ [Next]_vars => [Abstract!Next]_Abstract!avars
<1> SUFFICES ASSUME IInv, [Next]_vars PROVE [Abstract!Next]_Abstract!avars
  OBVIOUS
<1>0. TypeOK
  BY DEF IInv
<1>1. ASSUME NEW t \in Threads,
             \/ \E r \in Roles : Begin(t, r)
             \/ Load(t) \/ Generate(t) \/ Fail(t)
             \/ \E s \in States : Write(t, s)
      PROVE  UNCHANGED Abstract!avars
  <2>1. UNCHANGED <<role, mapping, replica, enabled, toggles>>
    BY <1>1, StoresUnchanged
  <2> QED
    BY <2>1 DEF Abstract!avars, PubBar, ReplicaOf
<1>2. ASSUME NEW t \in Threads, Commit(t), en[t]
      PROVE  Abstract!WriteReplicated(tr[t], buf[t])
  <2> DEFINE r == tr[t]
  <2>1. /\ r \in Roles /\ buf[t] \in States
        /\ role' = [role EXCEPT ![r] = buf[t]]
        /\ UNCHANGED <<enabled, toggles, tr>>
    BY <1>2, <1>0 DEF Commit, TypeOK
  <2>2. /\ mapping' = [mapping EXCEPT ![r] = Translate(r, buf[t])]
        /\ ReplicaOf(r)' = Translate(r, buf[t])
        /\ \A q \in Roles : q # r => ReplicaOf(q)' = ReplicaOf(q)
    BY <1>2, CommitEnabled
  <2>3. Translate(r, buf[t]) # None
    BY <2>1, NoneNotTranslation DEF AllTranslations
  <2>4. PubBar' = [PubBar EXCEPT ![r] = Translate(r, buf[t])]
    BY <2>1, <2>2, <2>3, <1>0 DEF PubBar, TypeOK
  <2> QED
    BY <2>1, <2>4 DEF Abstract!WriteReplicated
<1>3. ASSUME NEW t \in Threads, Commit(t), ~en[t]
      PROVE  Abstract!WriteUnreplicated(tr[t], buf[t])
  <2> DEFINE r == tr[t]
  <2>1. /\ r \in Roles /\ pc[t] = "generated"
        /\ role' = [role EXCEPT ![r] = buf[t]]
        /\ UNCHANGED <<mapping, replica, enabled, toggles>>
    BY <1>3, <1>0 DEF Commit, TypeOK
  <2>2. enabled => mapping[r] = None
    BY <1>3, <2>1 DEF IInv, DisabledWritersUnmapped
  <2>3. ~enabled \/ PubBar[r] = None
    BY <2>1, <2>2 DEF PubBar
  <2>4. PubBar' = PubBar
    BY <2>1 DEF PubBar, ReplicaOf
  <2> QED
    BY <2>1, <2>3, <2>4 DEF Abstract!WriteUnreplicated
<1>4. CASE Toggle
  BY <1>4 DEF Toggle, Abstract!Next, Abstract!Toggle, PubBar, ReplicaOf
<1>5. CASE UNCHANGED vars
  BY <1>5 DEF vars, Abstract!avars, PubBar, ReplicaOf
<1>6. ASSUME NEW t \in Threads, Commit(t) PROVE [Abstract!Next]_Abstract!avars
  <2>1. tr[t] \in Roles /\ buf[t] \in States
    BY <1>0 DEF TypeOK
  <2>2. Abstract!WriteReplicated(tr[t], buf[t]) \/ Abstract!WriteUnreplicated(tr[t], buf[t])
    BY <1>6, <1>2, <1>3
  <2> QED
    BY <2>1, <2>2 DEF Abstract!Next
<1> QED
  BY <1>1, <1>4, <1>5, <1>6 DEF Next

(***************************************************************************)
(* With the caller's row lock and transaction and at most one flip of the  *)
(* replication flag, the dual write implements ReplicatedRoles: what the   *)
(* relation store holds for each role changes only when a legacy write of  *)
(* the role commits, and then becomes the translation of its new state.    *)
(***************************************************************************)
THEOREM Refinement ==
    ASSUME MaxToggles <= 1
    PROVE  Spec => ImplementsReplicatedRoles
<1>1. Init => Abstract!Init
  BY DEF Init, Abstract!Init, PubBar
<1>2. Spec => []IInv
  BY IInvariant
<1>3. [][UNCHANGED Abstract!avars \/ Abstract!Next]_Abstract!avars
      <=> [][Abstract!Next]_Abstract!avars
  BY PTL
<1> QED
  BY <1>1, <1>2, <1>3, RefineStep, PTL DEF Spec, ImplementsReplicatedRoles

=============================================================================
