SPECIFICATION Spec
CONSTANTS
    policy = policy
    counter = counter
    i1 = i1
    i2 = i2
    v1 = v1
    v2 = v2
    Collection = {1, 2}
    Identity = {1}
    ID = {i1, i2}
    Field = {policy, counter}
    Managed = {policy}
    Value = {v1}
    NoValue = none
    NoID = none
    Creatable = {1}
    Writable = {1, 2}
    Deletable = {1}
    Direction = {"pull", "push"}
    Edited = {2}
SYMMETRY Interchangeable
INVARIANTS
    PushOverlays
    SyncConverges
    SyncKeepsIdentity
PROPERTY PlansBeforeWriting
