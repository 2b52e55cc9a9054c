SPECIFICATION Spec
CONSTANTS
    Spots = {s1}
    Messages = {m1}
    PacketTimeout = 1
    Window = 1
    Settings <- UserSettings
    MaxChanges = 2
    MaxCopies = 2
    MaxDrops = 1
INVARIANTS
    RelayListens
