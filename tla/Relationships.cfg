SPECIFICATION Spec
CONSTANTS
    Task = {t1, t2, t3}
    Req = {r1, r2}
    Template <- TwoNodeTemplate
    Ops <- GraphOps
    Serves <- Edits
    None = None
SYMMETRY BothSymmetry
VIEW UpToEntries
INVARIANTS HierarchyAcyclic DependenciesAcyclic DependencyHistoryReplays
CHECK_DEADLOCK FALSE
