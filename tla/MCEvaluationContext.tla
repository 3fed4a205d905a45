------------------------- MODULE MCEvaluationContext -------------------------
(* Three defined-type instances and one plain resource; one collector      *)
(* that matches an instance and the plain resource; two overrides of the  *)
(* plain resource; a relationship between the plain resource and an       *)
(* instance.  The plain resource is declared in class A, with or without  *)
(* attribute x; o1 sets x from A's own scope, o2 from the scope of class B,*)
(* which inherits A; the defined types are contained by Class[main].       *)
EXTENDS EvaluationContext, TLC

CONSTANTS d1, d2, d3, p1, c1, o1, o2, x, sTop, sA, sB, cMain, cA, cB

MCQuery == [c \in {c1} |-> {d2, p1}]
MCTarget == [o \in {o1, o2} |-> p1]
MCRels == {<<p1, d1>>}
MCDeclAttrs == [r \in {d1, d2, d3, p1} |-> IF r = p1 THEN {{}, {x}} ELSE {{}}]
MCSets == [o \in {o1, o2} |-> {x}]
MCParent == (sTop :> NoScope) @@ (sA :> sTop) @@ (sB :> sA)
MCScopeRes == (sTop :> cMain) @@ (sA :> cA) @@ (sB :> cB)
MCContainer == [r \in {d1, d2, d3, p1} |-> IF r = p1 THEN cA ELSE cMain]
MCScope == (o1 :> sA) @@ (o2 :> sB)
====
