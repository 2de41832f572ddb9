\* A built-in command or a pipeline in front of another command.
SPECIFICATION Spec
CONSTANTS
    Scripts <- MCLists
    Modes <- MCTerminal
    CloseSeeks = FALSE
INVARIANT
    ListsToTheEnd
