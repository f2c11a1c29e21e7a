\* Two replicas, quorums of one or two, one handler thread and one worker per node.
SPECIFICATION Spec
CONSTANTS
    Node = {a, b}
    Nobody = Nobody
    Put = {p}
    Single = {g, h}
    Threads = 1
    Workers = 1
    MaxHung = 1
INVARIANTS WaitsOnlyOnFullNodes
PROPERTIES EveryoneIsAnswered ExecutorsDrain
