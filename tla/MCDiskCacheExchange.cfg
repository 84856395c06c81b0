CONSTANTS
    Cards = {cardA, cardB}
    NoCard = NoCard
    Hosts = {sdhci0, sdhci2}
    NoHost = NoHost
    Size = 10
    MaxCount = 2
    CacheBytes = 16
    SectorBytes = 2
    ChunkSectors = 2
    ByteBits = 2
SYMMETRY Alike
SPECIFICATION Spec
PROPERTIES ReadsCardFound
