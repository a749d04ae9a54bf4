SPECIFICATION Spec
CONSTANTS
    NULL = NULL
    named = named
    path = path
    nested = nested
    spaced = spaced
    Tid = {t1, t2}
    Key = {named, path, nested, spaced}
    Names = {named}
    Saved = {named}
    Prof = {p}
    Content = {c1, c2}
    Job = {j1, j2, j3}
    Syncer = {y1, y2}
    Sanitized <- Hyphenated
    Outer <- FromRoot
    Prefix = FALSE
    Faults = {"external", "stale", "upsert"}
SYMMETRY Symmetry
INVARIANTS
    TypeOK
    SyncAddsNoOther
PROPERTIES
    PushesKeepFiles
    ImplementsRepository
