CONSTANTS
    q1 = q1
    q2 = q2
    Requests <- MCRequests
    Inputs <- MCInputs
SPECIFICATION Spec
SYMMETRY RequestSymmetry
INVARIANT RoleHolderServed
CHECK_DEADLOCK FALSE
