SPECIFICATION Spec
CONSTANTS
    Device = {d1}
    k0 = k0
    k1 = k1
    k2 = k2
    none = none
    adopted = adopted
    raw = raw
    typed1 = typed1
    typed2 = typed2
    ap = ap
    switch = switch
    full = full
    patch = patch
    Key = {k0, k1, k2}
    DefaultKey = k0
    NoKey = none
    Version = {adopted, raw}
    NoVersion = none
    AdoptVersion = adopted
    Bindable = {}
    Family = {ap}
    NoFamily = none
    Evidence = {ap}
    Request = {}
    Compile <- MCCompile
    Token = {}
    Stored <- StoredKeys
    Operator = {"register", "adopt", "raw", "command"}
    Faults = {"save", "write", "lose", "late", "crash"}
    MaxQueue = 2
SYMMETRY AssignedAlike
INVARIANTS
    TypeOK
    KeyReachable
    RestartRecovers
    NewestQueuedIsPersisted
PROPERTIES
    KeysInCustody
