SPECIFICATION Spec
CONSTANTS
    Base <- MCBase
    Mount <- MCMount
    Trees <- MCTrees
    MvCommands <- MCMvCommands
    RmCommands <- MCRmCommands
    MakerCommands <- MCMakerCommands
    MvLines <- MCMvLines
    RmLines <- MCRmLines
    BackupLimit = 2
    CallsFail = TRUE
INVARIANTS
    NothingLost
    MovedWhole
    OnlyNamed
    StatusIsTrue
