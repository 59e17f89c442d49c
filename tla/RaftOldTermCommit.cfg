CONSTANTS
    n1 = n1
    n2 = n2
    n3 = n3
    Node = {n1, n2, n3}
    Foreign = {}
    Command = {}
    Nil = Nil
    Noop = Noop
    StoreFaults = {"noop"}
    Duplicates = {FALSE}
    MaxBody = 9
    MaxTerm = 4
    MaxLog = 0
    MaxInFlight = 1
    MaxFailures = 1
SYMMETRY NodeSymmetry
SPECIFICATION DivergedSpec
INVARIANTS LogMatching StateMachineSafety LeaderCompleteness
