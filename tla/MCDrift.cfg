SPECIFICATION Spec
CONSTANTS
    Device = {d1}
    k0 = k0
    k1 = k1
    k2 = k2
    none = none
    adopted = adopted
    raw = raw
    typed1 = typed1
    typed2 = typed2
    ap = ap
    switch = switch
    full = full
    patch = patch
    Key = {k0, k1}
    DefaultKey = k0
    NoKey = none
    Version = {adopted, typed1, typed2}
    NoVersion = none
    AdoptVersion = adopted
    Bindable = {typed1}
    Family = {ap}
    NoFamily = none
    Evidence = {ap}
    Request = {full, patch}
    Compile <- MCCompile
    Token = {}
    Stored <- StoredTyped
    Operator = {"apply", "mutate", "import"}
    Faults = {"lose"}
    MaxQueue = 2
INVARIANTS
    DriftReconcilable
