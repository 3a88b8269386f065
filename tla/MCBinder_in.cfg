CONSTANTS
    Inputs <- MCInRoles
    MaxLen = 5
SPECIFICATION Spec
INVARIANT InExpandsAsSpec
CHECK_DEADLOCK FALSE
