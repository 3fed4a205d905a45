CONSTANTS
    w = w
    d = d
    p1 = p1
    p2 = p2
    bad = bad
    s1 = s1
    s2 = s2
    s3 = s3
    s4 = s4
    s5 = s5
    s6 = s6
    s7 = s7
    Labels = {w, d}
    Stmts = {s1, s3, s7}
    Patterns = {p1, p2, bad}
    Valid = {p1, p2}
    Hostnames <- MCHostnames
    Matches <- MCMatches
    Fqdns <- MCFqdns
SPECIFICATION Spec
INVARIANT NodesDisjoint
CHECK_DEADLOCK FALSE
