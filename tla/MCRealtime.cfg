SPECIFICATION Spec
CONSTANTS
    host = host
    viewer = viewer
    other = other
    h1 = h1
    h2 = h2
    v1 = v1
    o1 = o1
    c1 = c1
    c2 = c2
    away = away
    r1 = r1
    r2 = r2
    p1 = p1
    NoKey = NoKey
    Accounts = {host, viewer, other}
    Sessions = {h1, h2, v1, o1}
    Owner <- OwnerOf
    Durable <- Ends
    Channels = {c1, c2}
    SessionTtl = 2
    PresenceTtl = 1
    MaxChannels = 1
    MaxViewers = 1
    MaxFrames = 2
    MaxBytes = 3
    MaxRevision = 2
    MaxSequence = 3
    SequenceSpace = 4
    MaxTime = 3
    Setups <- AllSetups
INVARIANTS OnlyCurrentLogin IndexesSound
PROPERTIES NoFenceReuse
CHECK_DEADLOCK FALSE
