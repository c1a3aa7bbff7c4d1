SPECIFICATION Spec
CONSTANTS
    a = a
    b = b
    d = d
    e = e
    x = x
    y = y
    j = j
    k = k
    p = p
    q = q
    t = t
    u = u
    v = v
    w = w
    g = g
    Nothing = Nothing
    Canonical = {a}
    Reader = {x, y}
    Body = {u, v, w}
    Oversize = {w}
    Predicate <- Firewalls
    MaxWrites = 3
    Project = {p, q}
    Domain = {d, e}
    MaxPurges = 3
    MaxEnrols = 2
    Opener = {x, y}
    Owner = {p, q}
    Place = {w}
    MaxConnects = 2
    Dreamer = {x, y}
    Justifier = {j, k}
    \* the exit code hangs on it, so that a pass can be refused
    Seeded = {"arc"}
    Worth = {TRUE, FALSE}
    Refire = 1
    MinWindows = 1
    MaxPasses = 2
    MaxStamps = 2
    Writer = {x, y}
    Keep = 3
    MaxRows = 4
    MaxCompactions = 2
    Member = {p}
    Operator = {x, y}
    Group = {g}
    Realm = {"one"}
    FactRealm = "one"
    RealmOf <- Realms
    MaxTime = 1
    MaxGroupOps = 5
    Stem = {a, b}
    Session = {x, y}
    Desc = {d, e}
    Lines = 2
    MaxLocal = 3
    Migrator = {x, y}
    Legacy = {a}
    Wording = {t, u}
    MaxApplies = 2
    MaxEdits = 1
    Native = {a, b}
    Global = {t, u}
    Order <- Enumeration
    Puller = {x, y}
    Price = {1, 2}
    Ceiling = 3
    Cliff = 5
    MaxLines = 2
    NoEvict = Nothing
    MaxPulls = 2
    MaxTouches = 1
INVARIANTS
    TypeOK
    ExitZeroIsLogged
    NoMirrorOutlivesRegistry
    RowsStay
    RevokedStaysRevoked
    OpenedIsWhole
    RemovedHoldsNone
PROPERTIES
    StaysReachable
    EvictionSticks
    CuesFresh
    ServedIsTrue
    WindowCounted
    QuietUntilClock
    RollbackRestores
    EvictPays
CHECK_DEADLOCK FALSE
