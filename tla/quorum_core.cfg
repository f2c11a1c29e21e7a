\* The deployment of docker-compose.yml: N = 3, R = 2, W = 2 and no spare node.
\* Two puts and a get, two of them at a time, no failed call.
SPECIFICATION Spec
CONSTANTS
    Node = {a, b, c}
    Prefs = {a, b, c}
    NoNode = NoNode
    Holder = NoNode
    R = 2
    W = 2
    Put = {p, q}
    Get = {g}
    Delete = {}
    Suspects = {}
    MaxActive = 2
    MaxFaults = 0
SYMMETRY ReplicasAndPuts
INVARIANTS Antichains ReadSeesAcked
PROPERTY IsRegister
