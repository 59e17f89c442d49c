CONSTANTS
    n1 = n1
    n2 = n2
    n3 = n3
    Node = {n1, n2, n3}
    Foreign = {}
    Command = {c1}
    Nil = Nil
    Noop = Noop
    StoreFaults = {"log"}
    Duplicates = {FALSE}
    MaxBody = 3
    MaxTerm = 4
    MaxLog = 3
    MaxInFlight = 2
    MaxFailures = 1
SPECIFICATION FairSpec
PROPERTY FollowersCatchUp
