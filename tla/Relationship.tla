---------------------------- MODULE Relationship ----------------------------
(***************************************************************************)
(* A relationship expression (a -> b and the other arrows) as finalize     *)
(* evaluates it: resource_relationship::evaluate                           *)
(* (compiler/evaluation/context.cc) walks the target operand and then the  *)
(* source operand with value::each_resource (runtime/values/value.cc),     *)
(* which names the resources an operand stands for: a resource string, a  *)
(* fully qualified Resource type, a Class type with a name, a Runtime type *)
(* wrapping a collector (the resources it collected), or an array of       *)
(* those, element by element.  Its callbacks throw on a resource missing   *)
(* from the catalog or virtual and on a resource related to itself, its    *)
(* error callback on anything else; the first throw ends the evaluation.   *)
(*                                                                         *)
(* A catalog is a function from the resources it holds to "realized" or   *)
(* "virtual".  A collector is named by a model value; Collected maps it to *)
(* the resources it collected.                                            *)
(***************************************************************************)
EXTENDS Match

\* A resource reference, types::resource.
Ref(type, title) == [type |-> type, title |-> title]

\* The types each_resource looks into.
ResourceT(type, title) == [kind |-> "Resource", rtype |-> type, title |-> title]
ClassT(name) == [kind |-> "Class", name |-> name]
RuntimeT(object) == [kind |-> "Runtime", object |-> object]   \* << >> or << c >>

Fail(cause) == [error |-> cause]
IsFail(r) == "error" \in DOMAIN r

\* resource::parse (not in this repository): "Type[title]", a string of
\* the tokens Type, "[", title and "]".
ParseRef(text) ==
    IF Len(text) = 4 /\ text[2] = "[" /\ text[4] = "]" THEN << Ref(text[1], text[3]) >> ELSE << >>

\* resource::fully_qualified (not in this repository): a type and a title.
FullyQualified(t) == t.rtype # "" /\ t.title # ""

\* klass::fully_qualified, and the class resource it names.
ClassNamed(t) == t.name # ""

\* runtime::object and collector::resources.
CollectorResources(t, Collected) == Collected[t.object[1]]

\* each_resource: the resources it passes to the callback, in order, up to
\* the element that makes it call the error callback, and that error ("" if
\* none).
RECURSIVE Walk(_, _)
Walk(v, Collected) ==
    LET ok(rs) == [refs |-> rs, error |-> ""]
        step(acc, x) ==
            IF acc.error # "" THEN acc
            ELSE LET r == Walk(x, Collected)
                 IN [refs |-> acc.refs \o r.refs, error |-> r.error]
    IN CASE v.kind = "String" ->
              IF ParseRef(v.text) = << >> THEN [refs |-> << >>, error |-> "string"]
              ELSE ok(ParseRef(v.text))
         [] v.kind = "Type" /\ v.type.kind = "Resource" /\ FullyQualified(v.type) ->
              ok(<< Ref(v.type.rtype, v.type.title) >>)
         [] v.kind = "Type" /\ v.type.kind = "Class" /\ ClassNamed(v.type) ->
              ok(<< Ref("Class", v.type.name) >>)
         [] v.kind = "Type" /\ v.type.kind = "Runtime" /\ v.type.object # << >> ->
              ok(CollectorResources(v.type, Collected))
         [] v.kind = "Array" -> FoldLeft(step, ok(<< >>), v.items)
         [] OTHER -> [refs |-> << >>, error |-> "operand"]

\* catalog.find and the virtualized check.  The check without the virtual
\* case.
MutLive(r, cat) == r \in DOMAIN cat

Live(r, cat) == r \in DOMAIN cat /\ cat[r] = "realized"

\* resource_relationship::evaluate: every target found and realized, then
\* each source found and realized and different from every target, each
\* in the order each_resource gives them; the error callback's throw comes
\* after the resources before the offending element.  Without a throw,
\* catalog.relate joins each source to each target.
Evaluate(source, target, cat, Collected) ==
    LET t == Walk(target, Collected)
        s == Walk(source, Collected)
        targets == Range(t.refs)
        missing == SelectInSeq(t.refs, LAMBDA r : ~Live(r, cat))
        bad == SelectInSeq(s.refs, LAMBDA r : ~Live(r, cat) \/ r \in targets)
    IN CASE missing # 0 -> Fail("missing")
         [] t.error # "" -> Fail(t.error)
         [] bad # 0 -> Fail(IF Live(s.refs[bad], cat) THEN "self" ELSE "missing")
         [] s.error # "" -> Fail(s.error)
         [] OTHER -> [edges |-> Range(s.refs) \X targets]

-----------------------------------------------------------------------------
(* What an operand names, element by element, and what is wrong with it.  *)
RECURSIVE Elements(_)
Elements(v) ==
    IF v.kind = "Array" THEN UNION {Elements(v.items[i]) : i \in DOMAIN v.items} ELSE {v}

Named(e, Collected) ==
    CASE e.kind = "String" /\ ParseRef(e.text) # << >> -> Range(ParseRef(e.text))
      [] e.kind = "Type" /\ e.type.kind = "Resource" /\ FullyQualified(e.type) ->
           {Ref(e.type.rtype, e.type.title)}
      [] e.kind = "Type" /\ e.type.kind = "Class" /\ e.type.name # "" -> {Ref("Class", e.type.name)}
      [] e.kind = "Type" /\ e.type.kind = "Runtime" /\ e.type.object # << >> ->
           Range(Collected[e.type.object[1]])
      [] OTHER -> {}

Names(v, Collected) == UNION {Named(e, Collected) : e \in Elements(v)}

OperandDefects(v, cat, Collected) ==
    {IF e.kind = "String" THEN "string" ELSE "operand" :
        e \in {x \in Elements(v) : Named(x, Collected) = {}
                                    /\ ~(x.kind = "Type" /\ x.type.kind = "Runtime" /\ x.type.object # << >>)}}
    \cup {"missing" : r \in Names(v, Collected) \ {n \in DOMAIN cat : cat[n] = "realized"}}

(* A relationship joins every resource its source names to every resource  *)
(* its target names, and fails when an operand holds something that names *)
(* no resource, names a resource the catalog lacks or holds virtual, or   *)
(* when a resource would be related to itself; it then fails for such a  *)
(* defect, and for one of the target's when the target has one, since the *)
(* target is walked first.                                                *)
RelationshipDiagnosed(Operands, Catalogs, Collected) ==
    \A source, target \in Operands, cat \in Catalogs :
        LET r == Evaluate(source, target, cat, Collected)
            td == OperandDefects(target, cat, Collected)
            sd == OperandDefects(source, cat, Collected)
                  \cup (IF Names(source, Collected) \cap Names(target, Collected) # {}
                        THEN {"self"} ELSE {})
        IN IF td \cup sd = {}
           THEN r = [edges |-> Names(source, Collected) \X Names(target, Collected)]
           ELSE IsFail(r) /\ r.error \in (IF td # {} THEN td ELSE sd)
====
