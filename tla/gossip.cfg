\* Two nodes, two rounds in each life, one failed call or one crash and restart.
SPECIFICATION Spec
CONSTANTS
    Node = {a, b}
    Nobody = Nobody
    MaxBeat = 2
    MaxFaults = 1
    MaxCrashes = 1
    MaxMishaps = 1
INVARIANTS NoInventedBeat PeerKnowsBeat
PROPERTIES OnlyNewsLiftsSuspicion
