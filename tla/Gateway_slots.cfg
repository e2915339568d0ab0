SPECIFICATION LiveSpec
CONSTANTS
    Conns = {c1, c2, c3}
    MaxConnections = 2
INVARIANTS
    TypeOK
    SlotsExact
    RegistryExact
PROPERTIES
    AdmitsAsPromised
    SlotsComeBack
