SPECIFICATION Spec
CONSTANTS
    Task = {t1, t2, t3}
    Req = {r1, r2}
    Template <- NoTemplate
    Ops = {"createTask"}
    Serves <- ParentEdits
    None = None
INVARIANTS ParentHistoryReplays
CHECK_DEADLOCK FALSE
