------------------------------- MODULE MCBinder -------------------------------
EXTENDS Binder

Lit12 == <<"[", "1", ",", "2", "]">>
LitNull == <<"[", "N", "]">>
LitCsv == <<"1", ",", "a">>
LitEmpty == <<"[", "]">>
LitNested == <<"[", "[", "1", "]", "]">>
LitOne == <<"1">>
LitStr == <<"\"", "a", "\"">>
LitNullScalar == <<"N">>
LitBad == <<"a">>

Def(op, lit) == [op |-> op, type |-> <<"rbac", "groups">>, lit |-> lit]
Perm(a, r, defs) == [app |-> a, resource |-> r, verb |-> "read", defs |-> defs]

\* Permissions over every app and resource with no definition or one of the
\* definitions above; roles of one or two of them.
MCDefs ==
    {Def("in", l) : l \in {Lit12, LitNull, LitCsv, LitEmpty, LitNested, LitOne}}
    \cup {Def("equal", l) : l \in {LitOne, LitStr, LitNullScalar, LitBad}}
MCPerms == {Perm(a, r, ds) : a \in Apps, r \in ResourceTypes,
                             ds \in {<< >>} \cup {<<d>> : d \in MCDefs}}
MCRoles == {<<p>> : p \in MCPerms} \cup {<<p, q>> : p, q \in MCPerms}

\* Roles of one "in" definition: on an array of integers, or on any
\* bracket-free literal.
MCInRoles ==
    {<<Perm("rbac", "hosts", <<Def("in", l)>>)>> :
       l \in {Lit12, <<"[", "1", "]">>}
              \cup {l \in Text : \A k \in DOMAIN l : l[k] \notin {"[", "]"}}}
=============================================================================
