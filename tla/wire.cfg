SPECIFICATION WireSpec
CONSTANTS
    h1 = h1
    h2 = h2
    Malformed = Malformed
    Garbage = Garbage
    Hashes <- MCHashes
    MaxU16 = 3
    MaxTU = 1
    Text = {"", "x"}
    Models = {"x", "y"}
    MaxFaults = 2
INVARIANTS  AcceptedCanBeSent  AdvertisedIsAccepted
CHECK_DEADLOCK FALSE
