CONSTANTS
    Server = {s1, s2}
    Client = {c1, c2}
    NoData = NoData
    NoEntry = NoEntry
    ChunkSize <- MCChunkSize
    MaxVersion <- MCMaxVersion
    MaxValue <- MCMaxValue
    Delta <- MCDelta
SPECIFICATION Spec
INVARIANT PublishedDataIsWinners
CHECK_DEADLOCK FALSE
