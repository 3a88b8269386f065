--------------------------- MODULE RegistryProofs ---------------------------
(***************************************************************************)
(* Proofs about Registry for every list of system roles, every set of      *)
(* external roles and any number of threads: however the threads'          *)
(* set_system_roles loops interleave, a SYSTEM_ROLES that no loop is still *)
(* filling is the dict one complete population builds.                     *)
(***************************************************************************)
EXTENDS Registry, SequenceTheorems, TLAPS

USE SysRoleDefsAssumption, RegistryAssumption

\* Positions are natural numbers.
LEMMA RegisteredNat ==
    /\ Len(SysRoleDefs) \in Nat
    /\ Registered \subseteq 1..Len(SysRoleDefs)
    /\ Registered \subseteq Nat
BY LenProperties DEF Registered, RegIdx

(***************************************************************************)
(* FirstAt and LastAt are the registered positions of a key's first and    *)
(* last roles: a position shown to be the least (greatest) one is the one *)
(* CHOOSE picks.                                                           *)
(***************************************************************************)
LEMMA FirstAtIs ==
    ASSUME NEW key, NEW f \in Registered, SysRoleDefs[f] = key,
           \A i \in Registered : SysRoleDefs[i] = key => f <= i
    PROVE  FirstAt(key) = f
<1>1. \A i \in Registered :
        (SysRoleDefs[i] = key /\ \A j \in Registered : SysRoleDefs[j] = key => i <= j)
        <=> i = f
  BY RegisteredNat
<1> QED
  BY <1>1 DEF FirstAt

LEMMA LastAtIs ==
    ASSUME NEW key, NEW l \in Registered, SysRoleDefs[l] = key,
           \A i \in Registered : SysRoleDefs[i] = key => i <= l
    PROVE  LastAt(key) = l
<1>1. \A i \in Registered :
        (SysRoleDefs[i] = key /\ \A j \in Registered : SysRoleDefs[j] = key => j <= i)
        <=> i = l
  BY RegisteredNat
<1> QED
  BY <1>1 DEF LastAt

-----------------------------------------------------------------------------
LEMMA InductiveInit == Init => RegistryInductive
<1> SUFFICES ASSUME Init PROVE RegistryInductive
  OBVIOUS
<1>1. RegTypes
  BY DEF Init, RegTypes
<1>2. PassedStored
  BY RegisteredNat DEF Init, PassedStored
<1> QED
  BY <1>1, <1>2 DEF Init, RegistryInductive, StoredAtOwnKey, WrittenByPassed,
     FirstKnown, KeysInFirstOrder, LastOrPending, FilledByLoop

(***************************************************************************)
(* A step that leaves the dict and the loop cursors alone, and changes no *)
(* thread's being in a population loop, preserves the invariant.          *)
(***************************************************************************)
LEMMA SameRegistry ==
    ASSUME RegistryInductive, reg' = reg, nxt' = nxt,
           pc' \in [Threads -> {"idle", "populating", "lookup", "iterating"}],
           \A u \in Threads : pc'[u] = "populating" <=> pc[u] = "populating"
    PROVE  RegistryInductive'
<1>1. RegTypes'
  BY DEF RegistryInductive, RegTypes
<1>2. LastOrPending'
  BY DEF RegistryInductive, LastOrPending
<1>3. FilledByLoop'
  BY DEF RegistryInductive, FilledByLoop
<1> QED
  BY <1>1, <1>2, <1>3 DEF RegistryInductive, StoredAtOwnKey, PassedStored,
     WrittenByPassed, FirstKnown, KeysInFirstOrder

-----------------------------------------------------------------------------
(***************************************************************************)
(* One iteration of set_system_roles' loop by thread t at position n.      *)
(***************************************************************************)
LEMMA PopulateExternal ==
    ASSUME RegistryInductive, NEW t \in Threads, Populate(t), nxt[t] \in External
    PROVE  RegistryInductive'
<1> DEFINE n == nxt[t]
<1>1. /\ reg' = reg /\ pc' = pc /\ nxt' = [nxt EXCEPT ![t] = n + 1]
      /\ n \in 1..Len(SysRoleDefs) /\ pc[t] = "populating"
  BY DEF Populate, RegistryInductive, RegTypes
<1>2. RegTypes'
  BY <1>1 DEF RegistryInductive, RegTypes
<1>3. PassedStored'
  BY <1>1, RegisteredNat DEF RegistryInductive, RegTypes, PassedStored, Registered
<1>4. WrittenByPassed'
  <2> SUFFICES ASSUME NEW j \in DOMAIN reg' PROVE \E u \in Threads : reg'[j][2] < nxt'[u]
    BY DEF WrittenByPassed
  <2>1. PICK u \in Threads : reg[j][2] < nxt[u]
    BY <1>1 DEF RegistryInductive, WrittenByPassed
  <2>2. reg[j][2] \in Nat
    BY <1>1, RegisteredNat DEF RegistryInductive, StoredAtOwnKey
  <2>3. nxt[u] <= nxt'[u] /\ nxt[u] \in Nat
    BY <1>1 DEF RegistryInductive, RegTypes
  <2>4. reg'[j][2] < nxt'[u]
    BY <1>1, <2>1, <2>2, <2>3
  <2> QED
    BY <2>4
<1>5. LastOrPending'
  BY <1>1, RegisteredNat DEF RegistryInductive, RegTypes, LastOrPending, Registered
<1>6. FilledByLoop'
  BY <1>1 DEF RegistryInductive, RegTypes, FilledByLoop
<1> QED
  BY <1>1, <1>2, <1>3, <1>4, <1>5, <1>6 DEF RegistryInductive, StoredAtOwnKey,
     FirstKnown, KeysInFirstOrder

\* The role's key is in the dict: its value becomes the role, keys stay put.
LEMMA PopulateOverwrite ==
    ASSUME RegistryInductive, NEW t \in Threads, Populate(t),
           nxt[t] \notin External,
           \E j \in DOMAIN reg : reg[j][1] = SysRoleDefs[nxt[t]]
    PROVE  RegistryInductive'
<1> DEFINE n == nxt[t]
           K == SysRoleDefs[n]
<1>1. /\ reg' = [j \in DOMAIN reg |-> IF reg[j][1] = K THEN <<K, n>> ELSE reg[j]]
      /\ pc' = pc /\ nxt' = [nxt EXCEPT ![t] = n + 1]
      /\ n \in Registered /\ pc[t] = "populating"
      /\ K \in SUBSET Perms
  BY DEF Populate, AddSystemRole, RegistryInductive, RegTypes, Registered, RegIdx
<1>2. /\ DOMAIN reg' = DOMAIN reg
      /\ \A j \in DOMAIN reg : reg'[j][1] = reg[j][1]
      /\ \A j \in DOMAIN reg : reg[j][1] = K => reg'[j][2] = n
      /\ \A j \in DOMAIN reg : reg[j][1] # K => reg'[j][2] = reg[j][2]
  BY <1>1
<1>3. RegTypes'
  <2>1. reg \in Seq((SUBSET Perms) \X RegIdx)
    BY DEF RegistryInductive, RegTypes
  <2>2. <<K, n>> \in (SUBSET Perms) \X RegIdx
    BY <1>1 DEF Registered
  <2>3. reg' \in [1..Len(reg) -> (SUBSET Perms) \X RegIdx]
    BY <1>1, <2>1, <2>2
  <2>4. reg' \in Seq((SUBSET Perms) \X RegIdx)
    BY <2>1, <2>3, LenProperties, SeqDef
  <2> QED
    BY <1>1, <2>4, RegisteredNat DEF RegistryInductive, RegTypes, Registered, RegIdx
<1>4. StoredAtOwnKey'
  BY <1>1, <1>2 DEF RegistryInductive, StoredAtOwnKey
<1>5. PassedStored'
  BY <1>1, <1>2, RegisteredNat DEF RegistryInductive, RegTypes, PassedStored
<1>6. WrittenByPassed'
  <2> SUFFICES ASSUME NEW j \in DOMAIN reg' PROVE \E u \in Threads : reg'[j][2] < nxt'[u]
    BY DEF WrittenByPassed
  <2>1. CASE reg[j][1] = K
    BY <1>1, <1>2, <2>1, RegisteredNat DEF RegistryInductive, RegTypes
  <2>2. CASE reg[j][1] # K
    <3>1. PICK u \in Threads : reg[j][2] < nxt[u]
      BY <1>2 DEF RegistryInductive, WrittenByPassed
    <3>2. reg[j][2] \in Nat
      <4>1. j \in DOMAIN reg
        BY <1>2
      <4>2. reg[j][2] \in Registered
        BY <4>1 DEF RegistryInductive, StoredAtOwnKey
      <4> QED
        BY <4>2, RegisteredNat
    <3>3. nxt[u] <= nxt'[u] /\ nxt[u] \in Nat /\ nxt'[u] \in Nat
      BY <1>1 DEF RegistryInductive, RegTypes
    <3>4. reg'[j][2] = reg[j][2]
      BY <1>2, <2>2
    <3> QED
      BY <3>1, <3>2, <3>3, <3>4
  <2> QED
    BY <2>1, <2>2
<1>7. FirstKnown' /\ KeysInFirstOrder'
  BY <1>2 DEF RegistryInductive, FirstKnown, KeysInFirstOrder
<1>8. LastOrPending'
  <2> SUFFICES ASSUME NEW j \in DOMAIN reg'
               PROVE  \/ \A m \in Registered : SysRoleDefs[m] = reg'[j][1] => m <= reg'[j][2]
                      \/ \E u \in Threads, m \in Registered :
                            pc'[u] = "populating" /\ nxt'[u] <= m /\ SysRoleDefs[m] = reg'[j][1]
    BY DEF LastOrPending
  <2>1. CASE reg[j][1] = K
    <3>1. CASE \A m \in Registered : SysRoleDefs[m] = K => m <= n
      BY <1>2, <2>1, <3>1
    <3>2. CASE \E m \in Registered : SysRoleDefs[m] = K /\ ~(m <= n)
      <4>1. PICK m \in Registered : SysRoleDefs[m] = K /\ ~(m <= n)
        BY <3>2
      <4>2. nxt'[t] <= m
        BY <1>1, <4>1, RegisteredNat DEF RegistryInductive, RegTypes
      <4> QED
        BY <1>1, <1>2, <2>1, <4>1, <4>2
    <3> QED
      BY <3>1, <3>2
  <2>2. CASE reg[j][1] # K
    <3>1. CASE \A m \in Registered : SysRoleDefs[m] = reg[j][1] => m <= reg[j][2]
      BY <1>2, <2>2, <3>1
    <3>2. CASE \E u \in Threads, m \in Registered :
                  pc[u] = "populating" /\ nxt[u] <= m /\ SysRoleDefs[m] = reg[j][1]
      <4>1. PICK u \in Threads, m \in Registered :
                  pc[u] = "populating" /\ nxt[u] <= m /\ SysRoleDefs[m] = reg[j][1]
        BY <3>2
      <4>2. nxt'[u] <= m
        BY <1>1, <2>2, <4>1, RegisteredNat DEF RegistryInductive, RegTypes
      <4> QED
        BY <1>1, <1>2, <4>1, <4>2
    <3> QED
      BY <1>2, <3>1, <3>2 DEF RegistryInductive, LastOrPending
  <2> QED
    BY <2>1, <2>2
<1>9. FilledByLoop'
  BY <1>1 DEF RegistryInductive, RegTypes, FilledByLoop
<1> QED
  BY <1>3, <1>4, <1>5, <1>6, <1>7, <1>8, <1>9 DEF RegistryInductive

(***************************************************************************)
(* The role's key is not in the dict: it is appended.  No loop has passed *)
(* this position (it would have stored the key), so this is the key's     *)
(* first role and every stored key's first role comes before it.          *)
(***************************************************************************)
LEMMA PopulateAppend ==
    ASSUME RegistryInductive, NEW t \in Threads, Populate(t),
           nxt[t] \notin External,
           ~\E j \in DOMAIN reg : reg[j][1] = SysRoleDefs[nxt[t]]
    PROVE  RegistryInductive'
<1> DEFINE n == nxt[t]
           K == SysRoleDefs[n]
           N == Len(reg) + 1
<1>1. /\ reg' = Append(reg, <<K, n>>)
      /\ pc' = pc /\ nxt' = [nxt EXCEPT ![t] = n + 1]
      /\ n \in Registered /\ pc[t] = "populating"
      /\ K \in SUBSET Perms
  BY DEF Populate, AddSystemRole, RegistryInductive, RegTypes, Registered, RegIdx
<1>2. /\ reg \in Seq((SUBSET Perms) \X RegIdx)
      /\ Len(reg) \in Nat /\ DOMAIN reg = 1..Len(reg)
      /\ nxt \in [Threads -> 1..(Len(SysRoleDefs) + 1)]
  BY LenProperties DEF RegistryInductive, RegTypes
<1>3. /\ reg' \in Seq((SUBSET Perms) \X RegIdx)
      /\ DOMAIN reg' = 1..N
      /\ \A j \in 1..Len(reg) : reg'[j] = reg[j]
      /\ reg'[N] = <<K, n>>
  BY <1>1, <1>2, AppendProperties DEF Registered
<1>4. \A u \in Threads : nxt[u] <= n
  BY <1>1, <1>2, RegisteredNat DEF RegistryInductive, PassedStored
<1>5. \A i \in Registered : SysRoleDefs[i] = K => n <= i
  BY <1>1, <1>2, RegisteredNat DEF RegistryInductive, PassedStored
<1>6. FirstAt(K) = n
  BY <1>1, <1>5, FirstAtIs
<1>7. RegTypes'
  BY <1>1, <1>3, RegisteredNat DEF RegistryInductive, RegTypes
<1>8. StoredAtOwnKey'
  BY <1>1, <1>2, <1>3 DEF RegistryInductive, StoredAtOwnKey
<1>9. PassedStored'
  BY <1>1, <1>2, <1>3, RegisteredNat DEF RegistryInductive, PassedStored
<1>10. WrittenByPassed'
  <2> SUFFICES ASSUME NEW j \in DOMAIN reg' PROVE \E u \in Threads : reg'[j][2] < nxt'[u]
    BY DEF WrittenByPassed
  <2>1. CASE j = N
    BY <1>1, <1>2, <1>3, <2>1, RegisteredNat
  <2>2. CASE j \in 1..Len(reg)
    <3>1. PICK u \in Threads : reg[j][2] < nxt[u]
      BY <1>2, <2>2 DEF RegistryInductive, WrittenByPassed
    <3>2. reg[j][2] \in Nat
      BY <1>2, <2>2, RegisteredNat DEF RegistryInductive, StoredAtOwnKey
    <3>3. nxt[u] <= nxt'[u] /\ nxt[u] \in Nat /\ nxt'[u] \in Nat
      BY <1>1, <1>2
    <3> QED
      BY <1>3, <2>2, <3>1, <3>2, <3>3
  <2> QED
    BY <1>3, <2>1, <2>2
<1>11. FirstKnown'
  BY <1>1, <1>2, <1>3, <1>5 DEF RegistryInductive, FirstKnown
<1>12. KeysInFirstOrder'
  <2> SUFFICES ASSUME NEW j \in DOMAIN reg', NEW k \in DOMAIN reg', j < k
               PROVE  FirstAt(reg'[j][1]) < FirstAt(reg'[k][1])
    BY DEF KeysInFirstOrder
  <2>1. CASE k \in 1..Len(reg)
    BY <1>2, <1>3, <2>1 DEF RegistryInductive, KeysInFirstOrder
  <2>2. CASE k = N
    <3>1. j \in 1..Len(reg)
      BY <1>2, <1>3, <2>2
    <3>2. PICK f \in Registered :
              /\ SysRoleDefs[f] = reg[j][1]
              /\ \A i \in Registered : SysRoleDefs[i] = reg[j][1] => f <= i
      BY <1>2, <3>1 DEF RegistryInductive, FirstKnown
    <3>3. FirstAt(reg[j][1]) = f
      BY <3>2, FirstAtIs
    <3>4. f <= reg[j][2] /\ reg[j][2] \in Registered
      BY <1>2, <3>1, <3>2 DEF RegistryInductive, StoredAtOwnKey
    <3>5. PICK u \in Threads : reg[j][2] < nxt[u]
      BY <1>2, <3>1 DEF RegistryInductive, WrittenByPassed
    <3>6. f < n
      <4>1. nxt[u] <= n
        BY <1>4
      <4>2. f \in Nat /\ reg[j][2] \in Nat /\ n \in Nat
        BY <1>1, <3>4, RegisteredNat
      <4>3. nxt[u] \in Nat
        BY <1>2, RegisteredNat
      <4> QED
        BY <3>4, <3>5, <4>1, <4>2, <4>3
    <3> QED
      BY <1>3, <1>6, <2>2, <3>1, <3>3, <3>6
  <2> QED
    BY <1>3, <2>1, <2>2
<1>13. LastOrPending'
  <2> SUFFICES ASSUME NEW j \in DOMAIN reg'
               PROVE  \/ \A m \in Registered : SysRoleDefs[m] = reg'[j][1] => m <= reg'[j][2]
                      \/ \E u \in Threads, m \in Registered :
                            pc'[u] = "populating" /\ nxt'[u] <= m /\ SysRoleDefs[m] = reg'[j][1]
    BY DEF LastOrPending
  <2>1. CASE j = N
    <3>1. CASE \A m \in Registered : SysRoleDefs[m] = K => m <= n
      BY <1>3, <2>1, <3>1
    <3>2. CASE \E m \in Registered : SysRoleDefs[m] = K /\ ~(m <= n)
      <4>1. PICK m \in Registered : SysRoleDefs[m] = K /\ ~(m <= n)
        BY <3>2
      <4>2. nxt'[t] <= m
        BY <1>1, <1>2, <4>1, RegisteredNat
      <4> QED
        BY <1>1, <1>3, <2>1, <4>1, <4>2
    <3> QED
      BY <3>1, <3>2
  <2>2. CASE j \in 1..Len(reg)
    <3>1. reg[j][1] # K
      BY <1>2, <2>2
    <3>2. CASE \A m \in Registered : SysRoleDefs[m] = reg[j][1] => m <= reg[j][2]
      BY <1>3, <2>2, <3>2
    <3>3. CASE \E u \in Threads, m \in Registered :
                  pc[u] = "populating" /\ nxt[u] <= m /\ SysRoleDefs[m] = reg[j][1]
      <4>1. PICK u \in Threads, m \in Registered :
                  pc[u] = "populating" /\ nxt[u] <= m /\ SysRoleDefs[m] = reg[j][1]
        BY <3>3
      <4>2. nxt'[u] <= m
        BY <1>1, <1>2, <3>1, <4>1, RegisteredNat
      <4> QED
        BY <1>1, <1>3, <2>2, <4>1, <4>2
    <3> QED
      BY <1>2, <2>2, <3>2, <3>3 DEF RegistryInductive, LastOrPending
  <2> QED
    BY <1>3, <2>1, <2>2
<1>14. FilledByLoop'
  BY <1>1 DEF FilledByLoop
<1> QED
  BY <1>7, <1>8, <1>9, <1>10, <1>11, <1>12, <1>13, <1>14 DEF RegistryInductive

LEMMA PopulateStep ==
    ASSUME RegistryInductive, NEW t \in Threads, Populate(t)
    PROVE  RegistryInductive'
BY PopulateExternal, PopulateOverwrite, PopulateAppend

-----------------------------------------------------------------------------
\* get_system_roles on an empty dict: the thread's loop starts at the first role.
LEMMA GetStartsPopulation ==
    ASSUME RegistryInductive, NEW t \in Threads, NEW P \in Inputs,
           GetSystemRoles(t, P), reg = << >>
    PROVE  RegistryInductive'
<1>1. /\ reg' = reg /\ pc' = [pc EXCEPT ![t] = "populating"]
      /\ nxt' = [nxt EXCEPT ![t] = 1] /\ DOMAIN reg = {}
  BY DEF GetSystemRoles
<1>2. RegTypes'
  BY <1>1, RegisteredNat DEF RegistryInductive, RegTypes
<1>3. PassedStored'
  BY <1>1, RegisteredNat DEF RegistryInductive, RegTypes, PassedStored
<1> QED
  BY <1>1, <1>2, <1>3 DEF RegistryInductive, StoredAtOwnKey, WrittenByPassed,
     FirstKnown, KeysInFirstOrder, LastOrPending, FilledByLoop

\* A set_system_roles loop that has passed every role returns.
LEMMA EndPopulateStep ==
    ASSUME RegistryInductive, NEW t \in Threads, EndPopulate(t)
    PROVE  RegistryInductive'
<1>1. /\ reg' = reg /\ nxt' = nxt /\ pc' = [pc EXCEPT ![t] = "lookup"]
      /\ nxt[t] = Len(SysRoleDefs) + 1
  BY DEF EndPopulate
<1>2. RegTypes'
  BY <1>1 DEF RegistryInductive, RegTypes
<1>3. LastOrPending'
  BY <1>1, RegisteredNat DEF RegistryInductive, RegTypes, LastOrPending
<1>4. FilledByLoop'
  BY <1>1 DEF RegistryInductive, RegTypes, FilledByLoop
<1> QED
  BY <1>1, <1>2, <1>3, <1>4 DEF RegistryInductive, StoredAtOwnKey, PassedStored,
     WrittenByPassed, FirstKnown, KeysInFirstOrder

LEMMA InductiveStep == RegistryInductive /\ [Next]_vars => RegistryInductive'
<1> SUFFICES ASSUME RegistryInductive, [Next]_vars PROVE RegistryInductive'
  OBVIOUS
<1>0. pc \in [Threads -> {"idle", "populating", "lookup", "iterating"}]
  BY DEF RegistryInductive, RegTypes
<1>1. ASSUME NEW t \in Threads, NEW P \in Inputs, GetSystemRoles(t, P)
      PROVE  RegistryInductive'
  <2>1. CASE reg = << >>
    BY <1>1, <2>1, GetStartsPopulation
  <2>2. CASE reg # << >>
    BY <1>0, <1>1, <2>2, SameRegistry DEF GetSystemRoles
  <2> QED
    BY <2>1, <2>2
<1>2. ASSUME NEW t \in Threads, Populate(t) PROVE RegistryInductive'
  BY <1>2, PopulateStep
<1>3. ASSUME NEW t \in Threads, EndPopulate(t) PROVE RegistryInductive'
  BY <1>3, EndPopulateStep
<1>4. ASSUME NEW t \in Threads, Lookup(t) PROVE RegistryInductive'
  BY <1>0, <1>4, SameRegistry DEF Lookup
<1>5. ASSUME NEW t \in Threads, Iterate(t) PROVE RegistryInductive'
  BY <1>0, <1>5, SameRegistry DEF Iterate
<1>6. CASE UNCHANGED vars
  BY <1>0, <1>6, SameRegistry DEF vars
<1> QED
  BY <1>1, <1>2, <1>3, <1>4, <1>5, <1>6 DEF Next

-----------------------------------------------------------------------------
(***************************************************************************)
(* With no loop running, the invariant is RegistryFaithful: some loop ran *)
(* to the end, so every registered role's key is stored; no value can     *)
(* still be pending, so each is its key's last role.                      *)
(***************************************************************************)
LEMMA InductiveFaithful == RegistryInductive => RegistryFaithful
<1> SUFFICES ASSUME RegistryInductive, reg # << >>,
                    \A t \in Threads : pc[t] # "populating"
             PROVE  RegistryFaithful
  BY DEF RegistryFaithful
<1>1. PICK t \in Threads : nxt[t] = Len(SysRoleDefs) + 1
  BY DEF RegistryInductive, FilledByLoop
<1>2. {reg[j][1] : j \in DOMAIN reg} = {SysRoleDefs[i] : i \in Registered}
  <2>1. \A j \in DOMAIN reg : \E i \in Registered : reg[j][1] = SysRoleDefs[i]
    BY DEF RegistryInductive, StoredAtOwnKey
  <2>2. \A i \in Registered : \E j \in DOMAIN reg : reg[j][1] = SysRoleDefs[i]
    BY <1>1, RegisteredNat DEF RegistryInductive, PassedStored
  <2> QED
    BY <2>1, <2>2
<1>3. \A j \in DOMAIN reg : reg[j][2] = LastAt(reg[j][1])
  <2> SUFFICES ASSUME NEW j \in DOMAIN reg PROVE reg[j][2] = LastAt(reg[j][1])
    OBVIOUS
  <2>1. \A m \in Registered : SysRoleDefs[m] = reg[j][1] => m <= reg[j][2]
    BY DEF RegistryInductive, LastOrPending
  <2>2. reg[j][2] \in Registered /\ SysRoleDefs[reg[j][2]] = reg[j][1]
    BY DEF RegistryInductive, StoredAtOwnKey
  <2> QED
    BY <2>1, <2>2, LastAtIs
<1> QED
  BY <1>2, <1>3 DEF RegistryFaithful, RegistryInductive, KeysInFirstOrder

(***************************************************************************)
(* The inductive invariant holds in every state of the registry.           *)
(***************************************************************************)
THEOREM RegistryInvariant == Spec => []RegistryInductive
BY InductiveInit, InductiveStep, PTL DEF Spec

(***************************************************************************)
(* get_system_roles' unguarded lazy population is safe for the dict        *)
(* itself: whichever way the set_system_roles loops of any number of       *)
(* threads interleave, once none is running a non-empty SYSTEM_ROLES is    *)
(* the dict a single population builds (RegistryFaithful).                 *)
(***************************************************************************)
THEOREM RegistryFaithfulness == Spec => []RegistryFaithful
BY RegistryInvariant, InductiveFaithful, PTL


=============================================================================
