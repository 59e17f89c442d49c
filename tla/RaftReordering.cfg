CONSTANTS
    n1 = n1
    n2 = n2
    n3 = n3
    Node = {n1, n2, n3}
    Foreign = {n3}
    Command = {c1}
    Nil = Nil
    Noop = Noop
    StoreFaults = {"vote", "commit", "apply"}
    Duplicates = {FALSE, TRUE}
    MaxBody = 9
    MaxTerm = 2
    MaxLog = 2
    MaxInFlight = 2
    MaxFailures = 1
SYMMETRY HomeSymmetry
SPECIFICATION Spec
INVARIANTS CountedVotesWereCast ClustersKeptApart
PROPERTY CommittedNeverTruncated
