\* New and existing text files on a disk where any save may fail.
SPECIFICATION Spec
CONSTANTS
    Char = {"a"}
    Tab <- MCTab
    NL = "NL"
    NUL = "NUL"
    Contents <- MCContents
    NewFile = TRUE
    SaveFails = TRUE
    SizeY = 3
    MaxNode = 3
    MaxChars = 2
INVARIANTS
    ListWellFormed
    CursorVisible
    UnmodifiedIsOnDisk
    QuitLosesNothing
PROPERTY
    ImplementsTextBuffer
\* The editor is quit in the end.
CHECK_DEADLOCK FALSE
