SPECIFICATION Spec
CONSTANTS
    t1 = t1
    t2 = t2
    t3 = t3
    v1 = v1
    v2 = v2
    v3 = v3
    v4 = v4
    Threads = {t1, t2, t3}
    Blocks = {v1, v2, v3, v4}
    None = None
    Heaps <- MCHeaps
INVARIANT EvaluatedOnce
INVARIANT CountsCover
PROPERTY ForcesReturn
CHECK_DEADLOCK FALSE
