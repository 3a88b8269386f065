CONSTANTS
    Inputs <- MCRoles
    MaxLen = 5
SPECIFICATION Spec
INVARIANTS TypeOK GroupingIsSpecBinding
CHECK_DEADLOCK FALSE
