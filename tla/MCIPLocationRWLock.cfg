CONSTANTS
    XdbData = {x1}
    MmdbData = {m1}
    BadData = {bad}
    Formats <- MCFormats
    Nil = Nil
    Readers = {r1, r2}
    Writers = {w1}
SPECIFICATION Spec
INVARIANT LookupSeesCommittedBackend
PROPERTY WriterCompletes
