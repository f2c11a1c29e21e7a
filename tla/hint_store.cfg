\* Two replicas, two keys, three versions of every clock, three adds by two threads, one stop.
SPECIFICATION Spec
CONSTANTS
    Node = {a, b}
    Target = {s, t}
    Key = {k1, k2}
    Version = {v1, v2, v3}
    v1 = v1
    v2 = v2
    v3 = v3
    k1 = k1
    k2 = k2
    KeyOf <- VersionKey
    Adder = {x, y}
    Flusher = Flusher
    Nobody = Nobody
    MaxCounter = 1
    MaxAdds = 3
    MaxCrashes = 1
INVARIANTS RowMeansPending OrderIndependent FirstOfEqualClocks MergeIsFold
PROPERTIES IsMailbox
