\* Two operations of one project on the same files, and a user who edits them.
SPECIFICATION Spec
CONSTANTS
    p1 = p1
    p2 = p2
    o1 = o1
    o2 = o2
    a = a
    m = m
    d = d
    k = k
    o3 = o3
    e = e
    u1 = u1
    u2 = u2
    Path = {a, d}
    Key = {k}
    Project = {p1}
    Op = {o1, o3}
    User = {u1}
    Origin <- OriginSame
    Publishes <- PublishesSame
    Creates <- CreatesSame
    Deletes <- DeletesSame
    Guarded <- GuardedSame
    Rows <- RowsSame
    Strict = {o3}
    Absent = Absent
    Initial = Initial
    Nobody = Nobody
    Present <- PresentSame
    MaxCrashes = 1
INVARIANTS
    DiskMatchesRegistry
PROPERTIES
    TrashKept
    IdleEditsSurvive
