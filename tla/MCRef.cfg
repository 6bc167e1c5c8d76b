SPECIFICATION Spec
CONSTANTS
    t1 = t1
    t2 = t2
    t3 = t3
    Threads = {t1, t2, t3}
    Owner = t1
    Blocks = {b1, b2}
    Raws = {zero}
    One = zero
    Guard = Guard
    MaxOps <- MCOps
INVARIANT CountsExact
INVARIANT GuardHeld
PROPERTY Linearizable
PROPERTY OperationsReturn
CHECK_DEADLOCK FALSE
