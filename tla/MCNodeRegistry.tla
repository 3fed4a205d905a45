--------------------------- MODULE MCNodeRegistry ---------------------------
(***************************************************************************)
(* Node statements for model checking.  Labels w and d; p1 stands for a    *)
(* pattern like /d/ (it searches to a match in every name with a label d), *)
(* p2 for /^w$/, and bad for a pattern that does not compile.              *)
(*   s1: node 'w.d'            s2: node /d/                               *)
(*   s3: node 'w', default     s4: node default                          *)
(*   s5: node 'd', /bad/       s6: node /^w$/, /d/                         *)
(*   s7: node 'W'   (only in the case run)                                *)
(***************************************************************************)
EXTENDS NodeRegistry

CONSTANTS w, d, p1, p2, bad, s1, s2, s3, s4, s5, s6, s7

Lit(ls) == Literal(Text(ls, FALSE))

MCHostnames ==
    (s1 :> << Lit(<<w, d>>) >>) @@
    (s2 :> << Regex(p1) >>) @@
    (s3 :> << Lit(<<w>>), Default >>) @@
    (s4 :> << Default >>) @@
    (s5 :> << Lit(<<d>>), Regex(bad) >>) @@
    (s6 :> << Regex(p2), Regex(p1) >>) @@
    (s7 :> << Literal(Text(<<w>>, TRUE)) >>)

MCMatches ==
    (p1 :> {<<w, d>>, <<d>>, <<d, w>>, <<w, d, w>>}) @@
    (p2 :> {<<w>>}) @@
    (bad :> {})

MCFqdns == {<<w>>, <<w, d>>, <<d>>, <<d, w>>, <<w, w>>, <<w, d, w>>}
====
