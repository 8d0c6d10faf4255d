\* compressFile and cleanOldFiles, which run without lw.mu, racing the
\* next rotation and UpdateConfig, on one or two log paths.
CONSTANTS
    Paths = {p1, p2}
    MaxBackupsSet <- MCMaxBackupsSet
    MaxLinesSet <- MCMaxLinesSet
    Compress = {FALSE, TRUE}
    MaxGen <- MCMaxGen
    Absent = Absent
    TailBytes = {"a", "b", "CR", "LF"}
    TailMaxLen = 6
    TailMaxN = 3
    TailMaxBuf = 3
SPECIFICATION Spec
CHECK_DEADLOCK FALSE
INVARIANT NoBackgroundLoss
