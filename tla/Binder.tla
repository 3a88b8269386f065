-------------------------------- MODULE Binder --------------------------------
(***************************************************************************)
(* The Resource Binder: the first loop of v1_role_to_v2_mapping            *)
(* (migration_tool/sharedSystemRolesReplicatedRoleBindings.py), which      *)
(* groups a legacy role's permissions by the bound resource they are       *)
(* granted on, with split_resourcedef_literal expanding a resource         *)
(* definition's literal into resource ids.                                 *)
(*                                                                         *)
(* The literal is text, and the properties are about how it is parsed, so  *)
(* it is a sequence of characters over a small alphabet: brackets, comma,  *)
(* the double quote, the digits 1 and 2, the letter a, and N standing for  *)
(* the four characters of null.  json.loads is modelled for what such text *)
(* can be: null, an integer, a string without escapes, and arrays of those *)
(* nested at most twice (texts of at most 5 characters); Python iteration  *)
(* over its result (a list yields its items, a string its characters, an   *)
(* integer or None raises TypeError) and str.split(",") likewise.          *)
(* V2 permission strings and resource types are tuples of their parts      *)
(* (cleanNameForV2SchemaCompatibility is outside this repository).         *)
(***************************************************************************)
EXTENDS Naturals, Sequences, FiniteSets

CONSTANTS
    Inputs,    \* V1 roles: sequences of V1 permissions
    MaxLen     \* longest literal text

Alphabet == {"[", "]", ",", "\"", "1", "2", "a", "N"}
Text == UNION {[1..n -> Alphabet] : n \in 0..MaxLen}

-----------------------------------------------------------------------------
(* Python values a literal can yield.                                      *)
Int(ds) == [t |-> "int", v |-> ds]
Str(cs) == [t |-> "str", v |-> cs]
Null == [t |-> "null", v |-> << >>]
Invalid == [t |-> "invalid", v |-> << >>]
List(xs) == [t |-> "list", v |-> xs]

\* Position i of s is inside a JSON string.
Quoted(s, i) == Cardinality({j \in 1..(i - 1) : s[j] = "\""}) % 2 = 1

\* s cut at the positions in C (the cut characters dropped).
Cut(s, C) ==
    LET B == {0} \cup C \cup {Len(s) + 1}
        nth(k) == CHOOSE b \in B : Cardinality({c \in B : c < b}) = k - 1
    IN [k \in 1..(Cardinality(B) - 1) |-> SubSeq(s, nth(k) + 1, nth(k + 1) - 1)]

\* A JSON scalar: null, a run of digits, or a string.
Scalar(s) ==
    IF s = <<"N">> THEN Null
    ELSE IF s # << >> /\ \A i \in 1..Len(s) : s[i] \in {"1", "2"} THEN Int(s)
    ELSE IF /\ Len(s) >= 2 /\ s[1] = "\"" /\ s[Len(s)] = "\""
            /\ \A i \in 2..(Len(s) - 1) : s[i] # "\""
         THEN Str(SubSeq(s, 2, Len(s) - 1))
    ELSE Invalid

Bracketed(s) == Len(s) >= 2 /\ s[1] = "[" /\ s[Len(s)] = "]"

\* The items of a bracketed text, split at its unquoted depth-1 commas.
Items(s) ==
    LET depth(i) == Cardinality({j \in 1..(i - 1) : s[j] = "[" /\ ~Quoted(s, j)})
                    - Cardinality({j \in 1..(i - 1) : s[j] = "]" /\ ~Quoted(s, j)})
    IN IF s = <<"[", "]">> THEN << >>
       ELSE Cut(SubSeq(s, 2, Len(s) - 1),
                {i - 1 : i \in {i \in 2..(Len(s) - 1) :
                                  s[i] = "," /\ ~Quoted(s, i) /\ depth(i) = 1}})

ArrayOf(s, Elem(_)) ==
    LET xs == [k \in DOMAIN Items(s) |-> Elem(Items(s)[k])]
    IN IF \E k \in DOMAIN xs : xs[k] = Invalid THEN Invalid ELSE List(xs)

\* json.loads
JsonLoads(s) ==
    IF Bracketed(s)
    THEN ArrayOf(s, LAMBDA e : IF Bracketed(e) THEN ArrayOf(e, Scalar) ELSE Scalar(e))
    ELSE Scalar(s)

\* str.split(",")
SplitComma(s) ==
    LET parts == Cut(s, {i \in 1..Len(s) : s[i] = ","}) IN
    [k \in DOMAIN parts |-> Str(parts[k])]

\* "for resource_id in x": the items of x, or TypeError (not iterable).
NotIterable == [err |-> TRUE, ids |-> << >>]
PyIter(x) ==
    CASE x.t = "list" -> [err |-> FALSE, ids |-> x.v]
      [] x.t = "str"  -> [err |-> FALSE, ids |-> [i \in 1..Len(x.v) |-> Str(<<x.v[i]>>)]]
      [] OTHER        -> NotIterable

(***************************************************************************)
(* split_resourcedef_literal, together with the iteration of its result:   *)
(* "in" parses JSON and falls back to splitting on commas on a             *)
(* JSONDecodeError; any other operator wraps the parsed scalar in a list,  *)
(* and a JSONDecodeError propagates.                                       *)
(***************************************************************************)
ResourceIds(op, s) ==
    IF op = "in"
    THEN IF JsonLoads(s) # Invalid THEN PyIter(JsonLoads(s))
         ELSE [err |-> FALSE, ids |-> SplitComma(s)]
    ELSE IF JsonLoads(s) # Invalid THEN [err |-> FALSE, ids |-> <<JsonLoads(s)>>]
    ELSE [err |-> TRUE, ids |-> << >>]

-----------------------------------------------------------------------------
(* The grouping loop.                                                      *)
skipped_apps == {"cost-management", "playbook-dispatcher", "approval"}
Apps == {"inventory", "rbac", "approval"}
ResourceTypes == {"groups", "hosts"}
Ops == {"in", "equal"}

\* V1resourcedef: operator, resource_type "app.type" as a pair, literal.
ResourceDef == [op : Ops, type : Apps \X ResourceTypes, lit : Text]
\* V1permission: app, resource, verb and its resource definitions.
V1Permission == [app : Apps, resource : ResourceTypes, verb : {"read", "write"},
                 defs : Seq(ResourceDef)]

\* The V2 resource type "workspace", a one-part type beside "app/resource".
Workspace == <<"workspace">>

RootWs == [t |-> "ws", v |-> <<"root">>]
DefaultWs == [t |-> "ws", v |-> <<"default">>]

is_for_enabled_app(p) == p.app \notin skipped_apps

v1_perm_to_v2_perm(p) ==
    IF p.app = "inventory" /\ p.resource = "groups"
    THEN <<"workspace", p.verb>>
    ELSE <<p.app, p.resource, p.verb>>

ResourceType(p, d) == IF p.app = "inventory" THEN Workspace ELSE d.type

\* Mutant: a null workspace id kept as it is.
BoundNoDefault(ty, id) == [type |-> ty, id |-> id]

\* V2boundresource(type, id), with a null workspace id replaced.
Bound(ty, id) == [type |-> ty, id |-> IF ty = Workspace /\ id = Null THEN DefaultWs ELSE id]

\* Mutant: a list id taken as a resource id.
DefPairsAnyId(p, d) ==
    LET r == ResourceIds(d.op, d.lit) IN
    IF r.err THEN [err |-> TRUE, pairs |-> {}]
    ELSE [err |-> FALSE,
          pairs |-> {<<Bound(ResourceType(p, d), r.ids[k]), v1_perm_to_v2_perm(p)>> :
                       k \in DOMAIN r.ids}]

\* The (bound resource, permission) pairs one resource definition adds, or
\* an error: the literal's own, or an unhashable list as a dict key.
DefPairs(p, d) ==
    LET r == ResourceIds(d.op, d.lit) IN
    IF r.err \/ \E k \in DOMAIN r.ids : r.ids[k].t = "list"
    THEN [err |-> TRUE, pairs |-> {}]
    ELSE [err |-> FALSE,
          pairs |-> {<<Bound(ResourceType(p, d), r.ids[k]), v1_perm_to_v2_perm(p)>> :
                       k \in DOMAIN r.ids}]

\* The roles translated are V1 roles; literals are at most five characters.
ASSUME BinderAssumption ==
    /\ MaxLen \in 0..5
    /\ Inputs \subseteq Seq(V1Permission)

VARIABLES
    role,        \* the V1 role being translated
    i,           \* the permission the loop visits next
    groupings,   \* perm_groupings as (bound resource, v2 permission) pairs
    pc           \* "loop", "done" or "failed" (an exception escaped)

vars == <<role, i, groupings, pc>>

TypeOK ==
    /\ role \in Inputs
    /\ i \in 1..(Len(role) + 1)
    /\ \A x \in groupings : x[1].type \in {Workspace} \cup (Apps \X ResourceTypes)
                            /\ x[1].id.t \in {"int", "str", "null", "ws"}
    /\ pc \in {"loop", "done", "failed"}

Init ==
    /\ role \in Inputs
    /\ i = 1
    /\ groupings = {}
    /\ pc = "loop"

(***************************************************************************)
(* One pass of "for v1_perm in v1_role.permissions": a permission of a     *)
(* skipped app is passed over; one with no resource definitions goes to    *)
(* the root workspace; otherwise each definition's ids, each to its bound  *)
(* resource.  An exception from a literal ends the translation.            *)
(***************************************************************************)
BindPermission ==
    LET p == role[i] IN
    /\ pc = "loop" /\ i <= Len(role)
    /\ i' = i + 1
    /\ IF ~is_for_enabled_app(p) THEN UNCHANGED <<groupings, pc>>
       ELSE IF p.defs = << >>
       THEN /\ groupings' = groupings \cup {<<Bound(Workspace, RootWs), v1_perm_to_v2_perm(p)>>}
            /\ UNCHANGED pc
       ELSE LET rs == [k \in DOMAIN p.defs |-> DefPairs(p, p.defs[k])] IN
            IF \E k \in DOMAIN rs : rs[k].err
            THEN pc' = "failed" /\ UNCHANGED groupings
            ELSE /\ groupings' = groupings \cup UNION {rs[k].pairs : k \in DOMAIN rs}
                 /\ UNCHANGED pc
    /\ UNCHANGED role

\* The loop ends; extract_system_roles takes over.
Finish ==
    /\ pc = "loop" /\ i = Len(role) + 1
    /\ pc' = "done"
    /\ UNCHANGED <<role, i, groupings>>

Next == BindPermission \/ Finish

Spec == Init /\ [][Next]_vars

-----------------------------------------------------------------------------
Elems(sq) == {sq[k] : k \in DOMAIN sq}

\* Spec 4.1's expansion of a literal: "in" parses a JSON array, else splits
\* on commas; any other operator parses one JSON scalar.
SpecIds(d) ==
    IF d.op = "in"
    THEN IF JsonLoads(d.lit).t = "list" THEN Elems(JsonLoads(d.lit).v)
         ELSE Elems(SplitComma(d.lit))
    ELSE {JsonLoads(d.lit)}

\* Spec 4.1's grouping of one permission: nothing for a skipped app, the
\* root workspace for one without resource definitions, else the ids of
\* each definition on the definition's resource type.
SpecGroupingOf(p) ==
    LET perm == IF p.app = "inventory" /\ p.resource = "groups"
                THEN <<"workspace", p.verb>> ELSE <<p.app, p.resource, p.verb>>
        type(d) == IF p.app = "inventory" THEN Workspace ELSE d.type
    IN  IF p.app \in skipped_apps THEN {}
        ELSE IF p.defs = << >> THEN {<<[type |-> Workspace, id |-> RootWs], perm>>}
        ELSE UNION {{<<[type |-> type(d),
                        id |-> IF type(d) = Workspace /\ id = Null THEN DefaultWs ELSE id],
                      perm>> : id \in SpecIds(d)} :
                    d \in Elems(p.defs)}

\* Spec 4.1's grouping of a role: what its permissions are grouped under.
SpecGrouping(r) == UNION {SpecGroupingOf(r[k]) : k \in DOMAIN r}

(***************************************************************************)
(* A translation whose loop completes has grouped exactly what spec 4.1    *)
(* says: skipped apps contribute nothing, a permission without resource    *)
(* definitions is on the root workspace, a null workspace id is the        *)
(* default workspace, and inventory definitions are on workspaces.         *)
(***************************************************************************)
GroupingIsSpecBinding == pc = "done" => groupings = SpecGrouping(role)

(***************************************************************************)
(* Spec 4.1 and 8: an "in" literal expands without failing (a literal that *)
(* is not a JSON array is split on commas), and one written as a JSON      *)
(* array binds the resources of the same ids written comma-separated      *)
(* ("[1,2,3]" and "1,2,3" expand to the same three).                       *)
(***************************************************************************)
InExpandsAsSpec ==
    /\ pc = "failed" => \E d \in Elems(role[i - 1].defs) : d.op # "in"
    /\ pc = "done" =>
        \A k \in DOMAIN role : \A d \in Elems(role[k].defs) :
            role[k].app \notin skipped_apps /\ d.op = "in" /\ Bracketed(d.lit)
            => \A s \in Elems(SplitComma(SubSeq(d.lit, 2, Len(d.lit) - 1))) :
                   <<Bound(ResourceType(role[k], d), s), v1_perm_to_v2_perm(role[k])>> \in groupings

=============================================================================
