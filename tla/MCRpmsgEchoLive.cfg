CONSTANTS
    Num = 2
    IdxMod = 4
    FifoDepth = 1
    MaxMsgs = 2
    Kinds = {"data", "empty"}
SPECIFICATION FairSpec
INVARIANTS FirmwareWillLook
PROPERTIES KickAnswered MessageReturned FrameReceived Announcement
