\* Two puts for a replica presumed down, no failed call.
SPECIFICATION HSpec
CONSTANTS
    Node = {a, b, h}
    Prefs = {a, b}
    NoNode = NoNode
    Holder = h
    R = 1
    W = 1
    Put = {p, q}
    Get = {}
    Delete = {}
    Suspects = {b}
    MaxActive = 2
    MaxFaults = 0
    NoVersion = NoVersion
SYMMETRY PutsAlike
INVARIANTS HintedIsNotLost
