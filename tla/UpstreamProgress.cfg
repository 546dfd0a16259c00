SPECIFICATION Spec
INVARIANTS
    UdpSlotsServed
PROPERTIES
    ExchangesEnd
    RetiredTasksEnd
