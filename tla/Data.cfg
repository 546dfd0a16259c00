SPECIFICATION Spec
CONSTANTS
    Absent = Absent
    ip1 = ip1
    ip2 = ip2
INVARIANTS
    ConfigurationWhole
    RoutingExact
    CacheHonest
    SetsExact
    PacketsReadAlike
