SPECIFICATION Spec
CONSTANTS
    Root = root
    m1 = m1
    m2 = m2
    again = again
    Mounts <- MCMounts
    Trees <- MCTrees
    AppOf <- MCAppOf
    Modules = 2
    HooksFail = TRUE
    OneCall = FALSE
    MaxMessages = 4
INVARIANT StatusTells
INVARIANT LifetimesNest
PROPERTY EveryMessageAnswered
CHECK_DEADLOCK FALSE
