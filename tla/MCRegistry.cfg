SPECIFICATION Spec
CONSTANTS
    p1 = p1
    p2 = p2
    p3 = p3
    t1 = t1
    t2 = t2
    Perms = {p1, p2, p3}
    Resources = {}
    Groups = {}
    Roles = {}
    Threads = {t1, t2}
    SysRoleDefs <- MCSysRoleDefs
    External <- MCExternal
    Inputs <- MCInputs
INVARIANT RegistryFaithful
INVARIANT RegistryInductive
