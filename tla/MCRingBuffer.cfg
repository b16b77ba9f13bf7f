CONSTANTS
    Capacity = 3
    Times <- MCTimes
    Windows <- MCWindows
    Values = {v1, v2}
    NoAnswer = NoAnswer
SPECIFICATION Spec
INVARIANTS TypeOK PrefixWhenNotFull
PROPERTY ImplementsWindow
