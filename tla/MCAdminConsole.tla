--------------------------- MODULE MCAdminConsole ---------------------------
(* AdminConsole on small instances.                                        *)
EXTENDS AdminConsole, TLC

Symmetry == Permutations(Tab) \cup Permutations(Script)

\* The policy was created earlier, so that two requests may both edit it.
InitWithPolicy ==
    /\ session = 0
    /\ sessions = 0
    /\ flash = 0
    /\ screen = [u \in User |-> away("login")]
    /\ forms = <<>>
    /\ policy = [version |-> 1, active |-> TRUE]
    /\ clients = [i \in 0 .. MaxForms |-> "absent"]
    /\ charged = FALSE

EarlierSpec == (Init \/ InitWithPolicy) /\ [][Next]_vars
=============================================================================
