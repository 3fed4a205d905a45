CONSTANTS
    c1 = c1
    c2 = c2
    r1 = r1
    a = a
    b = b
    c = c
    fm = fm
    fa = fa
    fb = fb
    ff = ff
    fv = fv
    ft = ft
    s1 = s1
    NoFile = NoFile
    Ruby = Ruby
    NoProc = NoProc
    Compilations = {c1, c2}
    Repls = {r1}
    Names = {a, b}
    Files = {fm, fv, fa, fb, ff, ft}
    Sources = {s1}
    Defs <- MCDefs
    Fault <- MCFaultStale
    Resolve <- MCResolve
    Manifests <- MCManifests
    Describe <- MCDescribe
    Lookups <- MCLookups
    w = w
    d = d
    p1 = p1
    p2 = p2
    bad = bad
    n1 = n1
    n2 = n2
    n3 = n3
    n4 = n4
    n5 = n5
    Labels = {w, d}
    Stmts = {n1, n2, n3, n4, n5}
    Patterns = {p1, p2, bad}
    Valid = {p1, p2}
    Hostnames <- MCHostnames
    Matches <- MCMatches
    Fqdns <- MCFqdns


SPECIFICATION Spec

\* A name defined by the file it resolves to is never reported undefined.
INVARIANT NotFoundOnlyIfUndefined
