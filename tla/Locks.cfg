\* Rivals that take their steps; and any commands, that may hang, with an unlink.
SPECIFICATION CastSpec
CONSTANTS
    da = da
    db = db
    pa = pa
    global = global
    ops = ops
    schema = schema
    r1 = r1
    r2 = r2
    r3 = r3
    Proc = {r1, r2, r3}
    Domain = {da, db}
    Project = {pa}
    Global = global
    Ops = ops
    Schema = schema
    Place <- PlaceAll
    Command <- AllCommands
    NoCommand = NoCommand
    NoFile = NoFile
    MaxUnlinks = 1
INVARIANTS TypeOK Exclusive NoCircularWait NothingLeaks
PROPERTIES CommandsEnd TriesNeverWait
