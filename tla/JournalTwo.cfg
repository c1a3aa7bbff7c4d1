\* Two projects, one catalog; crashes, I/O failures, operators; no user edits.
SPECIFICATION Spec
CONSTANTS
    p1 = p1
    p2 = p2
    o1 = o1
    o2 = o2
    a = a
    m = m
    d = d
    k = k
    o3 = o3
    e = e
    u1 = u1
    u2 = u2
    Path = {a, m, d}
    Key = {k}
    Project = {p1, p2}
    Op = {o1, o2}
    User = {}
    Origin <- OriginTwo
    Publishes <- PublishesTwo
    Creates <- CreatesTwo
    Deletes <- DeletesTwo
    Guarded <- GuardedTwo
    Rows <- RowsTwo
    Strict = {}
    Absent = Absent
    Initial = Initial
    Nobody = Nobody
    Present <- PresentTwo
    MaxCrashes = 1
INVARIANTS
    TypeOK
    CompleteMeansCommitted
    PreimagesHeld
PROPERTIES
    ImplementsAtomicTx
