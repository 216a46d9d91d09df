SPECIFICATION Spec
CONSTANTS
    policy = policy
    counter = counter
    i1 = i1
    i2 = i2
    v1 = v1
    v2 = v2
    Collection = {1}
    Identity = {1, 2}
    ID = {i1, i2}
    Field = {policy, counter}
    Managed = {policy}
    Value = {v1, v2}
    NoValue = none
    NoID = none
    Creatable = {1}
    Writable = {1}
    Deletable = {1}
    Direction = {"pull", "push"}
    Edited = {}
SYMMETRY Interchangeable
INVARIANT RemovalIsOptIn
