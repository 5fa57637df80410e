\* translate_workflow against the step references of spec section 4.2.
CONSTANTS
    p1 = p1
    p2 = p2
    Projects <- MCProjects
    Trees <- MCTrees
    MaxStarts <- MCMaxStarts
SPECIFICATION Spec
INVARIANT SpecRefsResolve
CHECK_DEADLOCK FALSE
