SPECIFICATION Spec
CONSTANTS
    p1 = p1
    p2 = p2
    a = a
    b = b
    t1 = t1
    t2 = t2
    t3 = t3
    stub = stub
    None = None
    NoFile = NoFile
    Project = {p1}
    Stem = {a, b}
    Text = {t1, t3}
    StubText = stub
    BodyOf <- Bodies
    Retired = {"superseded"}
    Cap = 2
    MaxOps = 4
PROPERTIES LocalEditSurvives
CHECK_DEADLOCK FALSE
