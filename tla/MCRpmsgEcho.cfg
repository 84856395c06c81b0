CONSTANTS
    Num = 2
    IdxMod = 4
    FifoDepth = 2
    MaxMsgs = 3
    Kinds = {"data", "bad"}
SPECIFICATION Spec
INVARIANTS TypeOK InOrder NoFifoOverflow HostWillLook
PROPERTIES RxIsVring TxIsVring
