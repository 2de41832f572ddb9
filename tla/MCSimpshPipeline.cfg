\* Any pipe(), fork() or execvp() may fail, or none.
SPECIFICATION FairSpec
CONSTANTS
    N = 3
    Cap = 1
    Items = 2
    Programs <- MCPrograms
    CallsFail = TRUE
INVARIANTS
    OwnEndsOnly
    NothingLeftBehind
PROPERTIES
    ComesBack
    ImplementsFlow
