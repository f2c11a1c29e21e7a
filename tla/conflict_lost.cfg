\* Two puts at the same time, then a get; no failed call.
SPECIFICATION Spec
CONSTANTS
    Node = {a, b, c}
    Prefs = {a, b, c}
    NoNode = NoNode
    Holder = NoNode
    R = 2
    W = 2
    Put = {p, q}
    Get = {g}
    Delete = {}
    Suspects = {}
    MaxActive = 2
    MaxFaults = 0
SYMMETRY ReplicasAndPuts
INVARIANTS ConflictSurfaces
