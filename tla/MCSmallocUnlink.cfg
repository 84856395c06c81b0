CONSTANTS
    HeapStart = 1
    HeapSize = 18
    Header = 2
    Align = 2
    Requests = {1, 3}
SPECIFICATION ReallocSpec
INVARIANTS OnlyReleased
