CONSTANTS
    d1 = d1
    d2 = d2
    d3 = d3
    p1 = p1
    c1 = c1
    o1 = o1
    o2 = o2
    x = x
    sTop = sTop
    sA = sA
    sB = sB
    cMain = cMain
    cA = cA
    cB = cB
    Res = {d1, d2, d3, p1}
    DefinedRes = {d1, d2, d3}
    Collectors = {c1}
    Overrides = {o1, o2}
    Query <- MCQuery
    Target <- MCTarget
    Rels <- MCRels
    MaxIterations = 2
    Attrs = {x}
    DeclAttrs <- MCDeclAttrs
    Sets <- MCSets
    Scopes = {sTop, sA, sB}
    Parent <- MCParent
    ScopeRes <- MCScopeRes
    Container <- MCContainer
    Scope <- MCScope
    Classes = {cMain, cA, cB}

SPECIFICATION Spec

INVARIANT TypeOK
INVARIANT DefinedTypesEvaluatedOnce
INVARIANT CollectedAreRealized
INVARIANT OverridesAppliedOnce
INVARIANT AttributesNotClobbered

\* A compilation ends, successfully or with an error.
CHECK_DEADLOCK FALSE
