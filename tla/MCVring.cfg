\* Once the device has abandoned every buffer nothing can move any more:
\* that stop is real.
CONSTANTS
    Num = 3
    IdxMod = 6
SPECIFICATION Spec
INVARIANTS TypeOK Conservation SingleOwner
PROPERTIES NoOverrun ImplementsPool
CHECK_DEADLOCK FALSE
