SPECIFICATION AllSpec
CONSTANTS
    Addresses <- MCAddresses
    Counts <- MCCounts
    Values <- MCValues
    Copied <- MCCopied
    Destinations <- MCDestinations
INVARIANTS
    SetExactly
    CopiedExactly
