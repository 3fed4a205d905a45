----------------------------- MODULE MCEnvironment -----------------------------
(* Compilations and a REPL share an environment.  Names a and b.         *)
(* The initial manifests are fm, which defines class b, and fv, which     *)
(* defines class a and fails validation.  Module a's init.pp (fa) defines *)
(* class a and a defined type b; module b's (fb) defines class b; ff       *)
(* (functions/a.pp) holds function a and fails to parse; ft (types/a.pp)  *)
(* holds type alias a.  The REPL input s1 defines class b and then        *)
(* function b, which is a Ruby function the host describes (MCDescribe),  *)
(* so its scan must reject the function.                                   *)
(* Node statements (labels w and d; p1 stands for /d/, p2 for /^w$/, bad  *)
(* does not compile), in the files of the main run:                       *)
(*   fm: node 'w.d' (n1), node default (n5), before class b               *)
(*   fb: node /d/ (n2)      fa: node 'd', /bad/ (n4)                       *)
(*   s1: node 'w', default (n3), before class b                           *)
(* n5 and n3 share the default clause: whichever of the compilation's     *)
(* initial import and the REPL input scans second fails.                  *)
EXTENDS Environment, NodeHostnames

CONSTANTS c1, c2, r1, a, b, c, fm, fv, fa, fb, ff, ft, s1
CONSTANTS w, d, p1, p2, bad, n1, n2, n3, n4, n5

K(kind, n) == <<kind, n>>
N(s) == <<"node", s>>

MCDefs ==
    [f \in Files \cup Sources |->
        CASE f = fm -> << K("class", b) >>
          [] f = fv -> << K("class", a) >>
          [] f = fa -> << K("class", a), K("defined", b) >>
          [] f = fb -> << K("class", b) >>
          [] f = ff -> << K("function", a) >>
          [] f = ft -> << K("alias", a) >>
          [] f = s1 -> << K("class", b) >>]

MCDefsNodes ==
    [MCDefs EXCEPT ![fm] = << N(n1), N(n5) >> \o @,
                   ![fb] = @ \o << N(n2) >>,
                   ![fa] = @ \o << N(n4) >>,
                   ![s1] = << N(n3) >> \o @ \o << K("function", b) >>]

Lit(ls) == Literal(Text(ls, FALSE))

MCHostnames ==
    (n1 :> << Lit(<<w, d>>) >>) @@
    (n2 :> << Regex(p1) >>) @@
    (n3 :> << Lit(<<w>>), Default >>) @@
    (n4 :> << Lit(<<d>>), Regex(bad) >>) @@
    (n5 :> << Default >>)

MCMatches ==
    (p1 :> {<<w, d>>, <<d>>, <<d, w>>, <<w, d, w>>}) @@
    (p2 :> {<<w>>}) @@
    (bad :> {})

MCFqdns == {<<w>>, <<w, d>>, <<d>>, <<d, w>>, <<w, w>>, <<w, d, w>>}

(* ft defines type alias b instead, which shares its name with defined type b. *)
MCDefsAlias == [MCDefs EXCEPT ![ft] = << K("alias", b) >>]

MCFault ==
    [f \in Files \cup Sources |->
        CASE f = ff -> "parse"
          [] f = fv -> "validate"
          [] OTHER -> "none"]

(* fa also fails validation.                                             *)
MCFaultStale == [MCFault EXCEPT ![fa] = "validate"]

(* resolve_name: a -> modules/a/manifests/init.pp, b -> modules/b/...;    *)
(* functions and type aliases are looked up in functions/ and types/.    *)
MCResolve ==
    [k \in FileKinds \X Names |->
        CASE k \in {K("class", a), K("defined", a)} -> fa
          [] k \in {K("class", b), K("defined", b)} -> fb
          [] k = K("function", a) -> ff
          [] k \in {K("alias", a), K("alias", b)} -> ft
          [] OTHER -> NoFile]

MCManifests == << fm, fv >>

(* The initial manifests without the faulty one.                        *)
MCManifestsOk == << fm >>

(* A manifest directory with no files.                                    *)
MCManifestsNone == << >>

MCLookups ==
    { K("class", a), K("class", b), K("defined", b), K("function", a),
      K("function", b), K("alias", a) }

(* The Ruby host: it describes function b; asked for function c it fails  *)
(* (an exception or a failed status); asked for resource type c it        *)
(* answers with type b.  Asked for anything else, it has nothing.          *)
MCDescribe ==
    [k \in RemoteKinds \X Names |->
        CASE k = K("function", b) -> b
          [] k = K("function", c) -> "error"
          [] k = K("type", c) -> b
          [] OTHER -> "notfound"]

(* The lookups of the main run: also function c and resource types.      *)
MCLookupsHost == (MCLookups \ { K("class", b) }) \cup { K("function", c), K("type", c) }

MCLookupsAlias == { K("class", a), K("defined", b), K("alias", b) }
====
