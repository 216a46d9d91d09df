SPECIFICATION Spec
CONSTANTS
    Device = {"d1", "d2"}
    Radio = {"a", "b", "c"}
    ChannelOf <- Channels
    NameOf <- Names
    CodeOf <- Codes
    Report <- AllReports
    Client = {"c1"}
    Named = {"d2"}
    SaveFails = TRUE
INVARIANTS
    ObservationsAreOwn
    UplinkPortAgrees
    ChangedAsListed
