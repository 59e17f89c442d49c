CONSTANTS
    n1 = n1
    n2 = n2
    n3 = n3
    Node = {n1, n2, n3}
    Foreign = {}
    Command = {c1}
    Nil = Nil
    Noop = Noop
    StoreFaults = {"vote", "term", "noop", "log", "commit", "apply"}
    Duplicates = {FALSE}
    MaxBody = 9
    MaxTerm = 2
    MaxLog = 2
    MaxInFlight = 1
    MaxFailures = 1
SYMMETRY NodeSymmetry
SPECIFICATION Spec
INVARIANTS TypeOK ElectionSafety WaiterOwnsEntry AcknowledgedSurvives  NextIndexInLog
PROPERTIES VoteStands ImplementsReplicatedLog
