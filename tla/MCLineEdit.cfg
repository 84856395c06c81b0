CONSTANTS
    CharMax = 4
    HistMax = 2
    Char = {a, sp}
    Space = sp
    NUL = nul
    Null = null
    EnterMax = 1
SPECIFICATION Spec
INVARIANTS TypeOK Echo
PROPERTIES ImplementsEditLine
