CONSTANTS
    HeapStart = 1
    HeapSize = 24
    Header = 2
    Align = 2
    Requests = {1, 2, 3, 5}
SPECIFICATION Spec
INVARIANTS TypeOK LaidOut Accounted
PROPERTIES ImplementsAllocator
