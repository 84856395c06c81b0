CONSTANTS
    Cards = {sdhc, sdsc, emmc}
    NoCard = NoCard
    Sd = {sdhc, sdsc}
    High = {sdhc, emmc}
    Size = 4
    BlockLen = 2
    ChunkMax = 2
    Retries = 3
    StatusTries = 1
    MaxBusy = 2
    MaxFaults = 2
    MaxSwaps = 2
    Lossy = {"goIdle", "goIdleSd", "ifCond", "appCmd", "goIdleMmc", "mmcOpCond",
        "cid", "rca", "csd", "select", "selected", "extCsd",
        "extRead", "power", "mmcWidth", "appWidth", "sdWidth",
        "blockLen", "read", "readDone"}
SPECIFICATION Spec
INVARIANTS TypeOK Works
PROPERTIES ImplementsBlockDevice Ends
