SPECIFICATION MCEnabledSpec
CONSTANTS
    u1 = u1
    u2 = u2
    a1 = a1
    t1 = t1
    t2 = t2
    Users = {u1, u2}
    Apps = {a1}
    Threads = {t1, t2}
    MaxVer = 2
    MaxTenantVer = 2
    RedisFaults = FALSE
INVARIANT NoStaleAfterInvalidation

