\* One operation whose delete target may be absent: does its cleanup ever finish?
SPECIFICATION FairSpec
CONSTANTS
    p1 = p1
    p2 = p2
    o1 = o1
    o2 = o2
    a = a
    m = m
    d = d
    k = k
    o3 = o3
    e = e
    u1 = u1
    u2 = u2
    Path = {a, m, d}
    Key = {k}
    Project = {p1, p2}
    Op = {o1}
    User = {}
    Origin <- OriginOne
    Publishes <- PublishesOne
    Creates <- CreatesOne
    Deletes <- DeletesOne
    Guarded <- GuardedOne
    Rows <- RowsOne
    Strict = {}
    Absent = Absent
    Initial = Initial
    Nobody = Nobody
    Present <- PresentOne
    MaxCrashes = 2
PROPERTY CleanupFinishes
