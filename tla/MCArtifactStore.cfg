SPECIFICATION FairSpec
CONSTANTS
    Backends = {"local", "s3"}
    Places = {t1, bare}
    Bare = bare
    Kinds = {draft, final}
    Writers = {w1, w2, w3}
    PlaceOf <- Place
    KindOf <- Kind
    Earlier = {w3}
    Hinted = {w2}
    Oversized = {}
    Ephemeral = {draft}
    DefaultTier = "job"
    Scanned = {t1}
    MaxFaults = 1
    MaxBackups = 1
    MaxRestores = 1
    t1 = t1
    bare = bare
    draft = draft
    final = final
    w1 = w1
    w2 = w2
    w3 = w3
CHECK_DEADLOCK FALSE
INVARIANTS
    ContentsAreStored
    NoWriteIsSwept
PROPERTIES
    RestoreIsComplete
    ImplementsMap
    EphemeralLeaves
