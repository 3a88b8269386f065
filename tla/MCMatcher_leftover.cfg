CONSTANTS
    p1 = p1
    p2 = p2
    p3 = p3
    w1 = w1
    w2 = w2
    Perms = {p1, p2, p3}
    Resources = {w1, w2}
    Groups = {}
    Roles = {r1, r2, r3}
    MaxCustom = 4
    SysRoleDefs <- MCSysRoleDefs
    App <- MCApp
    Inputs <- MCInputs
SPECIFICATION Spec
INVARIANT CustomHoldsLeftoversOnly
