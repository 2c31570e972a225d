CONSTANTS
    SSRC = {s1, s2}
    NoSSRC = NoSSRC
    a1 = a1
    a2 = a2
    b1 = b1
    hostA = hostA
    hostB = hostB
    Addrs = {a1, a2, b1}
    Hosts = {hostA, hostB}
    HostOf <- MCHostOf
    AcceptOwn = TRUE
    Probation = TRUE
    MaxCSRC = 1
SPECIFICATION Spec
INVARIANTS TypeOK CountsExact OwnEntry
PROPERTIES AddressKept HeardStays
SYMMETRY Symmetry
