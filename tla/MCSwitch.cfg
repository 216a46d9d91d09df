SPECIFICATION Spec
CONSTANTS
    Port = {1, 2}
    VLAN = {1, 2, 3}
    Baseline <- Baselines
    Patch <- Patches
    Descriptor <- Descriptors
INVARIANTS
    SuppliedIsComposed
    NativeIsUntagged
PROPERTIES
    OthersUntouched
    VlanRecordsStay
    ReapplyIsStable
