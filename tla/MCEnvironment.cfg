CONSTANTS
    c1 = c1
    c2 = c2
    r1 = r1
    a = a
    b = b
    c = c
    fm = fm
    fa = fa
    fb = fb
    ff = ff
    fv = fv
    ft = ft
    s1 = s1
    NoFile = NoFile
    Ruby = Ruby
    NoProc = NoProc
    Compilations = {c1}
    Repls = {r1}
    Names = {a, b, c}
    Files = {fm, fv, fa, fb, ff, ft}
    Sources = {s1}
    Defs <- MCDefsNodes
    Fault <- MCFault
    Resolve <- MCResolve
    Manifests <- MCManifestsOk
    Describe <- MCDescribe
    Lookups <- MCLookupsHost
    w = w
    d = d
    p1 = p1
    p2 = p2
    bad = bad
    n1 = n1
    n2 = n2
    n3 = n3
    n4 = n4
    n5 = n5
    Labels = {w, d}
    Stmts = {n1, n2, n3, n4, n5}
    Patterns = {p1, p2, bad}
    Valid = {p1, p2}
    Hostnames <- MCHostnames
    Matches <- MCMatches
    Fqdns <- MCFqdns


\* One compilation, restarted after each run, and the REPL.
SPECIFICATION FairSpec

INVARIANT TypeOK
INVARIANT NodesDisjoint
INVARIANT LookupFaithful
PROPERTY RegistryContract
PROPERTY MutexReleased
 
