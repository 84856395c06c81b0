CONSTANTS
    Address = 1
    Ops = {"test", "built", "read", "readMany", "write", "otherOut"}
    Reliable = {"test", "built", "read"}
    Tags = {t1, t2, t3}
    None = None
    MaxEarly = 1
    MaxOthers = 1
SPECIFICATION Spec
INVARIANTS TypeOK
PROPERTIES CommandKept ImplementsBulkOnly Answered
