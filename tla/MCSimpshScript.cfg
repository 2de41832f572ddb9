\* Every script, mode and kind of command; fclose() does not seek.
SPECIFICATION FairSpec
CONSTANTS
    Scripts <- MCScripts
    Modes <- MCModes
    CloseSeeks = FALSE
INVARIANTS
    RanAsWritten
    NothingSkipped
PROPERTY
    FileEnds
