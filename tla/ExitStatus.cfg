SPECIFICATION Spec
CONSTANTS
    Trees = {}
    LetterWords <- Letters
    FileWords <- Files
    OtherWords <- Others
    NsPerSecond = 10
    Clocks <- Times
    CommandLines <- Lines
    WrittenTrees <- Written
    ExitStatuses = {0, 256, 9}
CHECK_DEADLOCK FALSE
INVARIANTS
    ExitsAsRoot
