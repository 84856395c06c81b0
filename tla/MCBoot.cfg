CONSTANTS
    Cards = {full, plain, bare, empty}
    NoCard = NoCard
    Kernelless = {empty}
    Plain = {plain, bare}
    Configless = {bare}
SPECIFICATION Spec
INVARIANTS TypeOK
PROPERTIES Handoff Settles
CHECK_DEADLOCK FALSE
