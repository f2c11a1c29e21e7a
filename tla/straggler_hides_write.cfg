\* One request at a time and no failed call.
SPECIFICATION Spec
CONSTANTS
    Node = {a, b, c}
    Prefs = {a, b, c}
    NoNode = NoNode
    Holder = NoNode
    R = 2
    W = 2
    Put = {p, q}
    Get = {g}
    Delete = {}
    Suspects = {}
    MaxActive = 1
    MaxFaults = 0
SYMMETRY ReplicasAndPuts
INVARIANTS AckedIsVisible
