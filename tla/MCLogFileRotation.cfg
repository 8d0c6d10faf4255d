\* Writers created and reconfigured with and without compression and age
\* limit.  Writing stops after MaxGen generations.
CONSTANTS
    Paths = {p1}
    MaxBackupsSet <- MCMaxBackupsSet
    MaxLinesSet <- MCMaxLinesSet
    Compress = {FALSE, TRUE}
    MaxGen <- MCMaxGen
    Absent = Absent
    TailBytes = {"a", "b", "CR", "LF"}
    TailMaxLen = 6
    TailMaxN = 3
    TailMaxBuf = 3
SPECIFICATION Spec
CHECK_DEADLOCK FALSE
INVARIANT TypeOK
INVARIANT RotationKeepsNewest
INVARIANT PreviewShowsNewestRecords
