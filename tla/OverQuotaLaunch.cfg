SPECIFICATION FleetSpec
CONSTANTS
    Sessions = {s1, s2}
    Hosts = {h1, h2}
    NoSession = NoSession
    NoSlot = NoSlot
    NoHost = NoHost
    MaxProvisioned = 1
    MaxLoose = 1
SYMMETRY Symmetry
VIEW LiveView
PROPERTY
    SlotBeforeLaunch
CHECK_DEADLOCK FALSE
