SPECIFICATION AllSpec
CONSTANTS
    Span = 1024
    Chars = {65, 97, 200}
    MaxLen = 4
    MaxN = 5
    ScanChars = {65, 95, 97, 200}
    MaxScan = 4
    MaxCount = 3
    CArgs <- MCCArgs
    TokenBytes = 5
    Separators <- MCSeparators
INVARIANTS
    AccessesInObjects
    CopyExact
    ScanExact
    OrderExact
    ClassesExact
    StreamsIndependent
    TokensIntact
