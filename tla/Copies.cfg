SPECIFICATION Spec
CONSTANTS
    Task = {t1, t2, t3, t4}
    Req = {r1, r2}
    Template <- TwoNodeTemplate
    Ops <- CopyOps
    Serves <- CopyAndMove
    None = None
SYMMETRY TaskSymmetry
VIEW Unlogged
INVARIANT GraphsAcyclic
CHECK_DEADLOCK FALSE
