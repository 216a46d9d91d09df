SPECIFICATION Spec
CONSTANTS
    Name = {1, 2, 3}
    Radio = {1, 2}
    Prefixed = {2}
    VLAN = {1, 2}
    Policy = {"x", "y"}
    Uplink <- OneEthernet
    Report = {{1}, {1, 2}}
    Baseline <- Baselines
    MaxRuns = 3
    Patch <- Patches
INVARIANTS
    ComposedResolves
    SuppliedIsComposed
    BodyIsWhole
PROPERTIES
    OthersUntouched
    ReapplyIsStable
