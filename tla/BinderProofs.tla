----------------------------- MODULE BinderProofs -----------------------------
(***************************************************************************)
(* Type correctness of the Resource Binder for every role and literal.    *)
(* Its content is in the ids: whatever text a resource definition holds,  *)
(* a bound resource in perm_groupings has an integer, string or workspace *)
(* id, never a list, because a nested JSON array either invalidates the   *)
(* parse or is refused as an unhashable V2boundresource id, aborting the  *)
(* role.  The argument is a case analysis of what json.loads, the         *)
(* iteration and str.split can yield; no induction over texts is needed.  *)
(***************************************************************************)
EXTENDS Binder, TLAPS

USE BinderAssumption

\* The kinds of Python value a parsed literal can hold, and the kinds of id.
Parsed == {"null", "int", "str", "list"}
IdKinds == {"int", "str", "null", "ws"}

-----------------------------------------------------------------------------
\* A scalar is null, an integer, a string, or invalid text.
LEMMA ScalarKind ==
    ASSUME NEW s
    PROVE  Scalar(s) = Invalid \/ Scalar(s).t \in {"null", "int", "str"}
BY DEF Scalar, Null, Int, Str, Invalid

\* A nested array of scalars is a list, or invalid when an item is.
LEMMA InnerArrayKind ==
    ASSUME NEW e
    PROVE  ArrayOf(e, Scalar) = Invalid \/ ArrayOf(e, Scalar).t = "list"
BY DEF ArrayOf, List, Invalid

(***************************************************************************)
(* json.loads of any text: invalid, a scalar, or a list whose items are   *)
(* scalars or lists (never invalid: one invalid item invalidates it all). *)
(***************************************************************************)
LEMMA JsonLoadsKind ==
    ASSUME NEW s
    PROVE  \/ JsonLoads(s) = Invalid
           \/ JsonLoads(s).t \in {"null", "int", "str"}
           \/ /\ JsonLoads(s).t = "list"
              /\ \A k \in DOMAIN JsonLoads(s).v : JsonLoads(s).v[k].t \in Parsed
<1>1. CASE Bracketed(s)
  <2> DEFINE Elem(e) == IF Bracketed(e) THEN ArrayOf(e, Scalar) ELSE Scalar(e)
             xs == [k \in DOMAIN Items(s) |-> Elem(Items(s)[k])]
  <2>1. JsonLoads(s) = IF \E k \in DOMAIN xs : xs[k] = Invalid THEN Invalid ELSE List(xs)
    BY <1>1 DEF JsonLoads, ArrayOf
  <2>2. \A k \in DOMAIN xs : xs[k] = Invalid \/ xs[k].t \in Parsed
    <3> TAKE k \in DOMAIN xs
    <3>1. CASE Bracketed(Items(s)[k])
      BY <3>1, InnerArrayKind DEF Parsed
    <3>2. CASE ~Bracketed(Items(s)[k])
      BY <3>2, ScalarKind DEF Parsed
    <3> QED
      BY <3>1, <3>2
  <2>3. CASE \E k \in DOMAIN xs : xs[k] = Invalid
    BY <2>1, <2>3
  <2>4. CASE ~\E k \in DOMAIN xs : xs[k] = Invalid
    <3>1. JsonLoads(s) = List(xs)
      BY <2>1, <2>4
    <3>2. \A k \in DOMAIN xs : xs[k].t \in Parsed
      BY <2>2, <2>4
    <3>3. JsonLoads(s).t = "list" /\ JsonLoads(s).v = xs
      BY <3>1 DEF List
    <3> QED
      BY <3>2, <3>3
  <2> QED
    BY <2>3, <2>4
<1>2. CASE ~Bracketed(s)
  BY <1>2, ScalarKind DEF JsonLoads
<1> QED
  BY <1>1, <1>2

\* Invalid is the only outcome of json.loads of kind "invalid".
LEMMA InvalidKind == Invalid.t \notin Parsed
BY DEF Invalid, Parsed

(***************************************************************************)
(* The ids "for resource_id in ..." visits after split_resourcedef_literal *)
(* returns normally are Python values of a parsed kind.                    *)
(***************************************************************************)
LEMMA ResourceIdsKind ==
    ASSUME NEW op, NEW s, ~ResourceIds(op, s).err
    PROVE  \A k \in DOMAIN ResourceIds(op, s).ids : ResourceIds(op, s).ids[k].t \in Parsed
<1> DEFINE J == JsonLoads(s)
<1>1. J # Invalid => J.t \in Parsed /\ (J.t = "list" => \A k \in DOMAIN J.v : J.v[k].t \in Parsed)
  BY JsonLoadsKind DEF Parsed
<1>2. CASE op = "in" /\ J # Invalid
  <2>1. ResourceIds(op, s) = PyIter(J)
    BY <1>2 DEF ResourceIds
  <2>2. CASE J.t = "list"
    BY <1>1, <1>2, <2>1, <2>2 DEF PyIter
  <2>3. CASE J.t = "str"
    BY <2>1, <2>3 DEF PyIter, Str, Parsed
  <2>4. CASE J.t \notin {"list", "str"}
    BY <2>1, <2>4 DEF PyIter, NotIterable
  <2> QED
    BY <2>2, <2>3, <2>4
<1>3. CASE op = "in" /\ J = Invalid
  BY <1>3 DEF ResourceIds, SplitComma, Str, Parsed
<1>4. CASE op # "in" /\ J # Invalid
  BY <1>1, <1>4 DEF ResourceIds
<1>5. CASE op # "in" /\ J = Invalid
  BY <1>5 DEF ResourceIds
<1> QED
  BY <1>2, <1>3, <1>4, <1>5

\* The pairs one resource definition adds: a typed bound resource whose id
\* is never a list.
LEMMA DefPairsType ==
    ASSUME NEW p \in V1Permission, NEW d \in ResourceDef, ~DefPairs(p, d).err
    PROVE  \A x \in DefPairs(p, d).pairs :
              /\ x[1].type \in {Workspace} \cup (Apps \X ResourceTypes)
              /\ x[1].id.t \in IdKinds
<1> DEFINE r == ResourceIds(d.op, d.lit)
<1>1. ~r.err /\ \A k \in DOMAIN r.ids : r.ids[k].t # "list"
  BY DEF DefPairs
<1>2. \A k \in DOMAIN r.ids : r.ids[k].t \in {"null", "int", "str"}
  BY <1>1, ResourceIdsKind DEF Parsed
<1>3. DefPairs(p, d).pairs =
        {<<Bound(ResourceType(p, d), r.ids[k]), v1_perm_to_v2_perm(p)>> : k \in DOMAIN r.ids}
  BY <1>1 DEF DefPairs
<1>4. ResourceType(p, d) \in {Workspace} \cup (Apps \X ResourceTypes)
  BY DEF ResourceType, ResourceDef
<1>5. \A k \in DOMAIN r.ids : Bound(ResourceType(p, d), r.ids[k]).id.t \in IdKinds
  BY <1>2 DEF Bound, DefaultWs, IdKinds
<1> QED
  BY <1>3, <1>4, <1>5 DEF Bound


-----------------------------------------------------------------------------
\* The conjunct of TypeOK about perm_groupings, for a set of pairs G.
Typed(G) == \A x \in G : x[1].type \in {Workspace} \cup (Apps \X ResourceTypes)
                         /\ x[1].id.t \in IdKinds

LEMMA TypeInit == Init => TypeOK
<1> SUFFICES ASSUME Init PROVE TypeOK
  OBVIOUS
<1>1. role \in Seq(V1Permission)
  BY DEF Init
<1>2. Len(role) \in Nat
  BY <1>1
<1> QED
  BY <1>2 DEF Init, TypeOK

\* One pass of the grouping loop adds only typed pairs.
LEMMA BindTyped ==
    ASSUME TypeOK, BindPermission
    PROVE  Typed(groupings')
<1> DEFINE p == role[i]
           rs == [k \in DOMAIN p.defs |-> DefPairs(p, p.defs[k])]
<1>1. role \in Seq(V1Permission) /\ i \in 1..Len(role)
  BY DEF TypeOK, BindPermission
<1>2. p \in V1Permission
  BY <1>1
<1>3. Typed(groupings)
  BY DEF TypeOK, Typed, IdKinds
<1>4. CASE ~is_for_enabled_app(p)
  BY <1>3, <1>4 DEF BindPermission
<1>5. CASE is_for_enabled_app(p) /\ p.defs = << >>
  <2>1. groupings' = groupings \cup {<<Bound(Workspace, RootWs), v1_perm_to_v2_perm(p)>>}
    BY <1>5 DEF BindPermission
  <2>2. Bound(Workspace, RootWs).type = Workspace /\ Bound(Workspace, RootWs).id.t = "ws"
    BY DEF Bound, RootWs, Null
  <2> QED
    BY <1>3, <2>1, <2>2 DEF Typed, IdKinds
<1>6. CASE is_for_enabled_app(p) /\ p.defs # << >>
  <2>1. CASE \E k \in DOMAIN rs : rs[k].err
    BY <1>3, <1>6, <2>1 DEF BindPermission
  <2>2. CASE ~\E k \in DOMAIN rs : rs[k].err
    <3>1. groupings' = groupings \cup UNION {rs[k].pairs : k \in DOMAIN rs}
      BY <1>6, <2>2 DEF BindPermission
    <3>2. p.defs \in Seq(ResourceDef)
      BY <1>2 DEF V1Permission
    <3>3. \A k \in DOMAIN rs : Typed(rs[k].pairs)
      <4> TAKE k \in DOMAIN rs
      <4>1. p.defs[k] \in ResourceDef /\ ~DefPairs(p, p.defs[k]).err
        BY <2>2, <3>2
      <4> QED
        BY <1>2, <4>1, DefPairsType DEF Typed
    <3> QED
      BY <1>3, <3>1, <3>3 DEF Typed
  <2> QED
    BY <2>1, <2>2
<1> QED
  BY <1>4, <1>5, <1>6

LEMMA TypeStep == TypeOK /\ [Next]_vars => TypeOK'
<1> SUFFICES ASSUME TypeOK, [Next]_vars PROVE TypeOK'
  OBVIOUS
<1>1. role \in Seq(V1Permission) /\ Len(role) \in Nat
  BY DEF TypeOK
<1>2. CASE BindPermission
  <2>1. role' \in Inputs /\ i' \in 1..(Len(role') + 1)
    BY <1>1, <1>2 DEF BindPermission, TypeOK
  <2>2. pc' \in {"loop", "done", "failed"}
    BY <1>2 DEF BindPermission, TypeOK
  <2>3. Typed(groupings')
    BY <1>2, BindTyped
  <2> QED
    BY <2>1, <2>2, <2>3 DEF TypeOK, Typed, IdKinds
<1>3. CASE Finish
  BY <1>3 DEF Finish, TypeOK
<1>4. CASE UNCHANGED vars
  BY <1>4 DEF vars, TypeOK
<1> QED
  BY <1>2, <1>3, <1>4 DEF Next

(***************************************************************************)
(* For every set of V1 roles and every literal, each pair the grouping     *)
(* loop of v1_role_to_v2_mapping puts in perm_groupings has a bound        *)
(* resource of a V2 type with an integer, string or workspace id: a JSON   *)
(* array nested in a resource definition never becomes a resource id (the *)
(* code raises and the role's translation fails instead), and a null       *)
(* workspace id is always replaced by the default workspace.              *)
(***************************************************************************)
THEOREM BinderTypeCorrect == Spec => []TypeOK
BY TypeInit, TypeStep, PTL DEF Spec


-----------------------------------------------------------------------------
(***************************************************************************)
(* Where the code's grouping and spec 4.1's can part.  Under "in", a       *)
(* literal that json.loads parses as a string is iterated character by    *)
(* character, while the spec splits the text on commas.  Every other      *)
(* difference (an "in" literal that is a number or null, a non-"in"        *)
(* literal that is not JSON, a nested array) makes the code raise, so the *)
(* loop never finishes.                                                    *)
(***************************************************************************)
NoInStringLiteral ==
    \A r \in Inputs : \A k \in DOMAIN r : \A d \in Elems(r[k].defs) :
        r[k].app \notin skipped_apps /\ d.op = "in" => JsonLoads(d.lit).t # "str"

\* Spec 4.1's pairs for one resource definition of p.
SpecDefPairs(p, d) == {<<Bound(ResourceType(p, d), id), v1_perm_to_v2_perm(p)>> : id \in SpecIds(d)}

\* Spec 4.1's grouping of a permission with resource definitions.
LEMMA SpecGroupingOfDefs ==
    ASSUME NEW p, p.app \notin skipped_apps, p.defs # << >>
    PROVE  SpecGroupingOf(p) = UNION {SpecDefPairs(p, d) : d \in Elems(p.defs)}
BY DEF SpecGroupingOf, SpecDefPairs, Bound, ResourceType, v1_perm_to_v2_perm

\* When a definition's literal does not fail, the code binds spec 4.1's ids.
LEMMA DefPairsSpec ==
    ASSUME NEW p, NEW d, ~DefPairs(p, d).err,
           d.op = "in" => JsonLoads(d.lit).t # "str"
    PROVE  DefPairs(p, d).pairs = SpecDefPairs(p, d)
<1> DEFINE r == ResourceIds(d.op, d.lit)
           J == JsonLoads(d.lit)
           f(id) == <<Bound(ResourceType(p, d), id), v1_perm_to_v2_perm(p)>>
<1>1. ~r.err
  BY DEF DefPairs
<1>2. DefPairs(p, d).pairs = {f(r.ids[k]) : k \in DOMAIN r.ids}
  BY <1>1 DEF DefPairs
<1>3. Elems(r.ids) = SpecIds(d)
  <2>1. CASE d.op = "in" /\ J # Invalid
    <3>1. r = PyIter(J) /\ J.t # "str"
      BY <2>1 DEF ResourceIds
    <3>2. J.t = "list"
      BY <1>1, <3>1 DEF PyIter, NotIterable
    <3> QED
      BY <2>1, <3>1, <3>2 DEF PyIter, SpecIds
  <2>2. CASE d.op = "in" /\ J = Invalid
    BY <2>2 DEF ResourceIds, SpecIds, Invalid
  <2>3. CASE d.op # "in" /\ J # Invalid
    BY <2>3 DEF ResourceIds, SpecIds, Elems
  <2>4. CASE d.op # "in" /\ J = Invalid
    BY <1>1, <2>4 DEF ResourceIds
  <2> QED
    BY <2>1, <2>2, <2>3, <2>4
<1> QED
  BY <1>2, <1>3 DEF SpecDefPairs, Elems


(***************************************************************************)
(* The loop invariant behind GroupingIsSpecBinding: while the loop has not *)
(* failed, perm_groupings holds spec 4.1's grouping of the permissions it *)
(* has visited, and it finishes only after the last one.                  *)
(***************************************************************************)
GroupedSoFar ==
    /\ pc # "failed" => groupings = UNION {SpecGroupingOf(role[k]) : k \in 1..(i - 1)}
    /\ pc = "done" => i = Len(role) + 1

\* The inductive invariant of the grouping loop.
BindingInductive == TypeOK /\ GroupedSoFar

\* The grouping so far after the first n permissions of a role.
GroupedUpTo(n) == UNION {SpecGroupingOf(role[k]) : k \in 1..n}

LEMMA GroupedInit == Init => GroupedSoFar
BY DEF Init, GroupedSoFar

\* One pass of the loop adds spec 4.1's grouping of the permission it visits.
LEMMA BindGrouped ==
    ASSUME NoInStringLiteral, TypeOK, GroupedSoFar, BindPermission
    PROVE  GroupedSoFar'
<1> DEFINE p == role[i]
           rs == [k \in DOMAIN p.defs |-> DefPairs(p, p.defs[k])]
<1>1. /\ role \in Seq(V1Permission) /\ role \in Inputs
      /\ i \in 1..Len(role) /\ pc = "loop"
      /\ role' = role /\ i' = i + 1
  BY DEF TypeOK, BindPermission
<1>2. groupings = GroupedUpTo(i - 1)
  BY <1>1 DEF GroupedSoFar, GroupedUpTo
<1>3. GroupedUpTo(i) = GroupedUpTo(i - 1) \cup SpecGroupingOf(p)
  <2>1. 1..i = (1..(i - 1)) \cup {i}
    BY <1>1
  <2> QED
    BY <2>1 DEF GroupedUpTo
<1>4. pc' \in {"loop", "failed"}
  BY <1>1 DEF BindPermission
<1>5. pc' # "failed" => groupings' = groupings \cup SpecGroupingOf(p)
  <2>1. CASE ~is_for_enabled_app(p)
    BY <2>1 DEF BindPermission, SpecGroupingOf, is_for_enabled_app
  <2>2. CASE is_for_enabled_app(p) /\ p.defs = << >>
    <3>1. groupings' = groupings \cup {<<Bound(Workspace, RootWs), v1_perm_to_v2_perm(p)>>}
      BY <2>2 DEF BindPermission
    <3>2. SpecGroupingOf(p) = {<<Bound(Workspace, RootWs), v1_perm_to_v2_perm(p)>>}
      BY <2>2 DEF SpecGroupingOf, is_for_enabled_app, Bound, RootWs, Null, v1_perm_to_v2_perm
    <3> QED
      BY <3>1, <3>2
  <2>3. CASE is_for_enabled_app(p) /\ p.defs # << >> /\ \E k \in DOMAIN rs : rs[k].err
    BY <2>3 DEF BindPermission
  <2>4. CASE is_for_enabled_app(p) /\ p.defs # << >> /\ ~\E k \in DOMAIN rs : rs[k].err
    <3>1. groupings' = groupings \cup UNION {rs[k].pairs : k \in DOMAIN rs}
      BY <2>4 DEF BindPermission
    <3>2. \A k \in DOMAIN p.defs : rs[k].pairs = SpecDefPairs(p, p.defs[k])
      <4> TAKE k \in DOMAIN p.defs
      <4>1. p.defs[k] \in Elems(p.defs)
        BY DEF Elems
      <4>2. p.defs[k].op = "in" => JsonLoads(p.defs[k].lit).t # "str"
        BY <1>1, <2>4, <4>1 DEF NoInStringLiteral, is_for_enabled_app
      <4> QED
        BY <2>4, <4>2, DefPairsSpec
    <3>3. UNION {rs[k].pairs : k \in DOMAIN rs} = UNION {SpecDefPairs(p, d) : d \in Elems(p.defs)}
      BY <3>2 DEF Elems
    <3>4. SpecGroupingOf(p) = UNION {SpecDefPairs(p, d) : d \in Elems(p.defs)}
      BY <2>4, SpecGroupingOfDefs DEF is_for_enabled_app
    <3> QED
      BY <3>1, <3>3, <3>4
  <2> QED
    BY <2>1, <2>2, <2>3, <2>4
<1> QED
  BY <1>1, <1>2, <1>3, <1>4, <1>5 DEF GroupedSoFar, GroupedUpTo

LEMMA GroupedStep ==
    ASSUME NoInStringLiteral, TypeOK, GroupedSoFar, [Next]_vars
    PROVE  GroupedSoFar'
<1>1. CASE BindPermission
  BY <1>1, BindGrouped
<1>2. CASE Finish
  BY <1>2 DEF Finish, GroupedSoFar
<1>3. CASE UNCHANGED vars
  BY <1>3 DEF vars, GroupedSoFar
<1> QED
  BY <1>1, <1>2, <1>3 DEF Next

\* The loop invariant gives spec 4.1's grouping once the loop is done.
LEMMA GroupedDone == TypeOK /\ GroupedSoFar => GroupingIsSpecBinding
<1> SUFFICES ASSUME TypeOK, GroupedSoFar, pc = "done" PROVE groupings = SpecGrouping(role)
  BY DEF GroupingIsSpecBinding
<1>1. role \in Seq(V1Permission) /\ i = Len(role) + 1
  BY DEF TypeOK, GroupedSoFar
<1>2. 1..(i - 1) = DOMAIN role
  BY <1>1
<1> QED
  BY <1>2 DEF GroupedSoFar, SpecGrouping

(***************************************************************************)
(* The loop invariant of the grouping loop of v1_role_to_v2_mapping holds *)
(* in every state, for every set of V1 roles with no "in" literal of an   *)
(* enabled app that parses as a JSON string: perm_groupings is always     *)
(* spec 4.1's grouping of the permissions visited so far.                 *)
(***************************************************************************)
LEMMA BindingInvariant ==
    ASSUME NoInStringLiteral
    PROVE  Spec => []BindingInductive
<1>1. Init => BindingInductive
  BY TypeInit, GroupedInit DEF BindingInductive
<1>2. BindingInductive /\ [Next]_vars => BindingInductive'
  BY TypeStep, GroupedStep DEF BindingInductive
<1> QED
  BY <1>1, <1>2, PTL DEF Spec

(***************************************************************************)
(* For every set of V1 roles in which no "in" literal of an enabled app    *)
(* parses as a JSON string, a translation whose grouping loop in           *)
(* v1_role_to_v2_mapping completes has grouped exactly what spec 4.1      *)
(* says.  With BinderTypeCorrect and the binder_in run this places the    *)
(* code's divergence from spec 4.1 exactly: such a literal, and nothing   *)
(* else, can make a completed grouping differ from the spec's.            *)
(***************************************************************************)
THEOREM GroupingMatchesSpec ==
    ASSUME NoInStringLiteral
    PROVE  Spec => []GroupingIsSpecBinding
<1>1. BindingInductive => GroupingIsSpecBinding
  BY GroupedDone DEF BindingInductive
<1> QED
  BY <1>1, BindingInvariant, PTL

=============================================================================
