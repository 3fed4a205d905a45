--------------------------- MODULE DefinitionRegistry ---------------------------
(***************************************************************************)
(* What the registry of an environment promises (spec 3 and 4.3): a set   *)
(* of definitions, each a key <<kind, name>> with the file or input it    *)
(* came from, that only grows, and in which no two definitions clash: a   *)
(* name is defined at most once per kind, a class and a defined type, or  *)
(* a defined type and a type alias, never share a name.                   *)
(***************************************************************************)
CONSTANTS Kinds, Names, Origins

VARIABLE defs

Keys == Kinds \X Names

(* The pairs of kinds whose definitions share a namespace.               *)
ClashingKinds ==
    {{k} : k \in Kinds} \cup {{"class", "defined"}, {"alias", "defined"}}

Clash(k1, k2) == k1[2] = k2[2] /\ {k1[1], k2[1]} \in ClashingKinds

Init == defs = {}

Bind(k, o) ==
    /\ defs' = defs \cup {<<k, o>>}
    /\ <<k, o>> \notin defs
    /\ ~\E d \in defs : Clash(d[1], k)

Next == \E k \in Keys, o \in Origins : Bind(k, o)

Spec == Init /\ [][Next]_defs
====
