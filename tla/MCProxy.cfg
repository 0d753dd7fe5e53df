SPECIFICATION ProxyFairSpec
CONSTANTS
    NoDS = NoDS
    None = None
    Settings = {s1, s2}
    MaxEdits = 3
    MaxMeddling = 2
    MaxFaults = 1
INVARIANT ProxyTypeOK
PROPERTIES
    ProxySettles
    ProxyCollected
\* All is quiet once the resource is deleted and its objects are collected.
CHECK_DEADLOCK FALSE
