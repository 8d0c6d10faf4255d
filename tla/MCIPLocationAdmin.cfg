\* One administrator issuing uploads and reloads one after another.
CONSTANTS
    XdbData = {x1}
    MmdbData = {m1}
    BadData = {bad}
    Formats <- MCFormats
    CfgFormat <- MCCfgFormat
    Nil = Nil
    Absent = Absent
    CorruptFiles = {}
    Req = {r1}
SPECIFICATION Spec
INVARIANT ConfigMatchesManager
INVARIANT InstalledFilesValid
PROPERTY ReloadRestoresDisk
INVARIANT RegionLookupsReadTheirLayout
