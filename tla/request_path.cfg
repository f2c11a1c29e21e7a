\* Two requests of any kind, a deque of one entry, one entry that cannot be written, one stop.
SPECIFICATION Spec
CONSTANTS
    Request = {x, y}
    Client = {c}
    Namespace = {n1, n2}
    c = c
    n1 = n1
    n2 = n2
    Grants <- TwoGrants
    Nobody = Nobody
    MaxOps = 1
    MaxFaults = 1
    MaxCrashes = 1
INVARIANTS AllTracesOrNone AuditTellsWho NoEffectWithoutGrant
PROPERTIES PollsSucceed RequestsEnd
