SPECIFICATION Spec
CONSTANTS
    Radio = {"r1", "r2", "r3"}
    BandOf <- Bands
    Name = {"lab", "iot"}
    Channel = {6, 44}
    DBm = {10, 12, 20}
    Report <- Reports
    Baseline <- Baselines
    Request <- Requests
    Change <- Changes
    MaxRuns = 4
INVARIANTS
    ProjectionAgrees
    WLANsHaveRadios
    ReapplyIsStable
PROPERTIES
    OthersUntouched
    ChangesAreEvident
    NetworksKeepRecords
