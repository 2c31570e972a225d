CONSTANTS
    IPs = {ip1}
    Ports = {1, 2, 3}
    Dests = {d1}
    Groups = {g1}
    MaxQueue = 1
SPECIFICATION Spec
INVARIANTS GroupsAgree FilterAsListed
PROPERTIES FreshAfterCreate
