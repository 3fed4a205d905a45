--------------------------- MODULE VariableLookup ---------------------------
(***************************************************************************)
(* The lookup of a variable by name (compiler/evaluation/context.cc):      *)
(* context::lookup(ast::variable const&, bool warn) splits a qualified     *)
(* name at its last "::", normalizes the namespace (registry::normalize)   *)
(* and finds the scope of that name (context::find_scope), the scopes     *)
(* being named by context::add_scope after their class resource's title;  *)
(* an unqualified name is looked up in the current scope.  When no scope  *)
(* has the name, a warning says whether the class is not defined or not  *)
(* declared.                                                              *)
(*                                                                         *)
(* A name is a sequence of characters; positions in the code are 0-based *)
(* and so are those of the operators below.  SizeMax stands for the       *)
(* size_t modulus.  The catalog is present (a compilation's context); the *)
(* caller asks for warnings.  scope::get is not in this repository: the  *)
(* result is the scope looked in and the name looked up.                  *)
(***************************************************************************)
EXTENDS Integers, Sequences, SequencesExt

SizeMax == 1000
NoPos == -1                                      \* string::npos

\* string::rfind("::").
RFind(s) ==
    LET at == {p \in 0..(Len(s) - 2) : s[p + 1] = ":" /\ s[p + 2] = ":"}
    IN IF at = {} THEN NoPos ELSE Max(at)

\* string::substr(start, len): at most len characters from start.
Substr(s, start, len) == SubSeq(s, start + 1, IF start + len < Len(s) THEN start + len ELSE Len(s))

Lower(c) == IF c = "B" THEN "b" ELSE c

\* registry::normalize: a leading "::" removed, then lowercased.
Normalize(s) ==
    LET t == IF Len(s) >= 2 /\ s[1] = ":" /\ s[2] = ":" THEN SubSeq(s, 3, Len(s)) ELSE s
    IN [i \in DOMAIN t |-> Lower(t[i])]

\* context::add_scope: the scope is named by its resource's title;
\* emplace keeps a name already taken.
AddScope(named, title, s) == IF title \in DOMAIN named THEN named ELSE named @@ (title :> s)

\* context::find_scope: the top scope for the empty name.
FindScope(ns, named) ==
    CASE ns = << >> -> "top"
      [] ns \in DOMAIN named -> named[ns]
      [] OTHER -> "none"

\* The namespace's length for a global name, computed in size_t without
\* the guard: "::x" wraps round.
MutNsLength(pos, global) == IF global THEN (pos - 2) % SizeMax ELSE pos

\* The namespace's length: from after the leading "::" of a global name to
\* the last "::".
NsLength(pos, global) == IF global THEN (IF pos > 2 THEN pos - 2 ELSE 0) ELSE pos

\* context::lookup(variable): the scope looked in, the name looked up and
\* the warning logged.
Lookup(name, current, named, classes, declared) ==
    LET pos == RFind(name)
        global == Len(name) >= 2 /\ name[1] = ":" /\ name[2] = ":"
        ns == Normalize(Substr(name, IF global THEN 2 ELSE 0, NsLength(pos, global)))
        var == Substr(name, pos + 2, SizeMax)
        scope == FindScope(ns, named)
        warning == CASE ns \notin classes -> "undefined"
                     [] ns \notin declared -> "undeclared"
                     [] OTHER -> "none"
    IN CASE pos = NoPos -> [scope |-> current, var |-> name, warning |-> "none"]
         [] scope # "none" -> [scope |-> scope, var |-> var, warning |-> "none"]
         [] OTHER -> [scope |-> "none", var |-> var, warning |-> warning]

-----------------------------------------------------------------------------
(* A variable name as the lexer's variable token gives it (without '$'):   *)
(* an optional leading "::" and word segments joined by "::".             *)
Joined(segs) ==
    IF segs = << >> THEN << >>
    ELSE FoldLeft(LAMBDA acc, g : acc \o << ":", ":" >> \o g, segs[1], Tail(segs))

VarName(global, segs) == (IF global THEN << ":", ":" >> ELSE << >>) \o Joined(segs)

(* A qualified variable $ns::x is x in the scope of the class ns, the     *)
(* namespace compared lowercased and without a leading "::" (spec 4.3's   *)
(* normalization), $::x is x in the top scope, and an unqualified $x is  *)
(* x in the current scope; the scope a class name takes is that of the    *)
(* first scope added under it.  When the class has no scope, nothing is   *)
(* found and the warning says whether it is undefined or only undeclared.*)
LookupFaithful(Names, Adds, Classes, Declared) ==
    \A n \in Names, adds \in Adds :
        LET segs == n.segs
            named == FoldLeft(LAMBDA m, a : AddScope(m, a[1], a[2]), << >>, adds)
            ns == [i \in DOMAIN Joined(Front(segs)) |-> Lower(Joined(Front(segs))[i])]
            first(t) == adds[Min({i \in DOMAIN adds : adds[i][1] = t})][2]
            r == Lookup(VarName(n.global, segs), "current", named, Classes, Declared)
        IN CASE ~n.global /\ Len(segs) = 1 -> r = [scope |-> "current", var |-> Last(segs), warning |-> "none"]
             [] ns = << >> -> r = [scope |-> "top", var |-> Last(segs), warning |-> "none"]
             [] \E i \in DOMAIN adds : adds[i][1] = ns ->
                  r = [scope |-> first(ns), var |-> Last(segs), warning |-> "none"]
             [] OTHER ->
                  r = [scope |-> "none", var |-> Last(segs),
                       warning |-> IF ns \in Classes THEN (IF ns \in Declared THEN "none" ELSE "undeclared")
                                   ELSE "undefined"]
====
