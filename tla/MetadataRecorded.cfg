\* One player whose playlist changes and changes back (three scrapes), while the
\* calls record, download, or fetch the times of an older playlist.
SPECIFICATION Spec
CONSTANTS
    Calls = {c1, c2}
    Keys = {k1}
    Metas = {m1, m2}
    NoMeta = NoMeta
    NotScraped = NotScraped
    MovieOf <- MCMovieOf
    MaxScrapes = 3
    MaxFaults = 2
SYMMETRY Symmetry
INVARIANTS
    TypeOK
    NoEntryLost
    LatestRecorded
    FilesMatchMetadata
\* Once the scrapes are used up the system may stop.
CHECK_DEADLOCK FALSE
