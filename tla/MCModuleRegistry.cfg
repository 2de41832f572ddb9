SPECIFICATION Spec
CONSTANTS
    Word <- MCWord
    Dashed <- MCDashed
    Section <- MCSection
    Argvs <- MCArgvs
INVARIANTS
    RegistryOrdered
    RegistryComplete
    RunsTheOneNamed
    NothingLost
PROPERTY
    LinkNameWins
\* main() returns in the end.
CHECK_DEADLOCK FALSE
