CONSTANTS
    p1 = p1
    p2 = p2
    p3 = p3
    w1 = w1
    w2 = w2
    g1 = g1
    Perms = {p1, p2, p3}
    Resources = {w1, w2}
    Groups = {g1}
    Roles = {r1, r2}
    Threads = {t1, t2}
    None = None
    MaxToggles = 2
    SysRoleDefs <- MCSysRoleDefs
    States <- MCStates
SPECIFICATION Spec
PROPERTY ReplicatedWriteRepublishes
