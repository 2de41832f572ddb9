\* Four addresses: a block in the middle of the list, a foreign block beside
\* it, and a free address to move to.
SPECIFICATION FairSpec
CONSTANT
    Ptr = {p1, p2, p3, p4}
INVARIANTS
    NoBadFree
    ListIsHanded
    NoLeakAtExit
PROPERTIES
    ExitEnds
    ImplementsTrackedHeap
\* The process is gone in the end.
CHECK_DEADLOCK FALSE
