\* An upload and a reload at once.
CONSTANTS
    XdbData = {x1}
    MmdbData = {m1}
    BadData = {bad}
    Formats <- MCFormats
    CfgFormat <- MCCfgFormat
    Nil = Nil
    Absent = Absent
    CorruptFiles = {}
    Req = {r1, r2}
SPECIFICATION Spec
INVARIANT ConfigMatchesManager
