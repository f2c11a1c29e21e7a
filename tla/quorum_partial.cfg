\* Two replicas and a spare node that takes hints, R = 1, W = 2: two puts and a delete,
\* two at a time, two failed calls; both fan-outs can come up short.
SPECIFICATION Spec
CONSTANTS
    Node = {a, b, h}
    Prefs = {a, b}
    NoNode = NoNode
    Holder = h
    R = 1
    W = 2
    Put = {p, q}
    Get = {}
    Delete = {d}
    Suspects = {}
    MaxActive = 2
    MaxFaults = 2
SYMMETRY ReplicasAndPuts
INVARIANTS WritesAwaitCalls DurableQuorum ClockIsHistory ClockCountsWrites
PROPERTIES OnlyDeletesForget
