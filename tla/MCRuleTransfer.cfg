CONSTANTS
    Absent = Absent
    None = None
    NotANumber = NotANumber
    Spaces = {s1, s2}
    Names = {"A", "B"}
    Heads <- MCHeads
    Sent <- MCSent
    Files <- MCFiles
    MaxServed = 5
SPECIFICATION TransferSpec
CHECK_DEADLOCK FALSE
PROPERTIES
    RoundTrip
    ImportsWhole
