\* Every content, range, packet timing and way of cutting the files into
\* chunks.
SPECIFICATION Spec
CONSTANTS
    Contents <- MCContents
    Ranges <- MCRanges
    NoRange = NoRange
    Capacity = 3
    Packet = 2
    Timings <- MCTimings
    NoPts = NoPts
    ReadFaults = TRUE
INVARIANTS
    BodyComplete
    TimesOfWholePackets
    WholeSegmentsParse
PROPERTIES
    ServesRequestedBytes
