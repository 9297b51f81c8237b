SPECIFICATION Spec
CONSTANTS
    MaxItems = 4
    MayLeave = TRUE
INVARIANT Faithful
INVARIANT Restrained
PROPERTY GeneratorReturns
CHECK_DEADLOCK FALSE
