\* Two replicas and a holder, R = 2, W = 1: two puts, one after the other, whose calls
\* still overlap, and one failed call; b may be presumed down, rightly or not.
SPECIFICATION HFairSpec
CONSTANTS
    Node = {a, b, h}
    Prefs = {a, b}
    NoNode = NoNode
    Holder = h
    R = 2
    W = 1
    Put = {p, q}
    Get = {}
    Delete = {}
    Suspects = {b}
    MaxActive = 1
    MaxFaults = 1
    NoVersion = NoVersion
INVARIANTS HintsConserved
PROPERTIES HandoffForgetsNothing HintsDrain HintsArrive RequestAnswered
