---------------------------- MODULE MCAccessCache ----------------------------
EXTENDS AccessCache
CONSTANTS u1, u2, a1, t1, t2

\* A deployment with ACCESS_CACHE_ENABLED on: delete_handler always yields.
MCEnabledInit == Init /\ enabled = TRUE
MCEnabledSpec == MCEnabledInit /\ [][Next]_vars /\ Fairness
==============================================================================
