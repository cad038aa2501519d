SPECIFICATION Spec
CONSTANTS
    s1 = s1
    s2 = s2
    p = p
    q = q
    Servers = {s1, s2}
    Programs <- MCPrograms
    Addr <- MCAddr
    Deployments <- MCDeployments
    c1 = c1
    c2 = c2
    c3 = c3
    Calls = {c1, c2, c3}
    On <- MCOn
SYMMETRY MCSymmetry
INVARIANTS
    PublishedWhileServing
    CleanReturn
    LookupAgrees
CHECK_DEADLOCK FALSE
