\* A session of each of two projects; two commands fail or die; the operator resumes purges.
SPECIFICATION FairSpec
CONSTANTS
    p1 = p1
    p2 = p2
    s1 = s1
    s2 = s2
    d1 = d1
    Domain = {d1, d2}
    d2 = d2
    Project = {p1, p2}
    Session = {s1, s2}
    ProjectOf <- OneEach
    Unknown = Unknown
    NoSession = NoSession
    Commands <- Roles
    Purged = {d1}
    MaxFailures = 2
INVARIANTS
    TypeOK
    OnlyReplaysJoinDeleted
PROPERTIES
    JoinsActive
    LeavesAsSeen
    PurgeEnds
