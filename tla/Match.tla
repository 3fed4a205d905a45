------------------------------- MODULE Match -------------------------------
(***************************************************************************)
(* value::match (runtime/values/value.cc), the test of a case option or a  *)
(* selector against a value: default matches anything; a regex matches a  *)
(* string it searches to a match, and sets the match variables; an array *)
(* matches an array of its size element by element, stopping at the first *)
(* element that fails; a hash matches a hash that has each of its keys    *)
(* with a matching value; a type matches its instances; anything else     *)
(* matches an equal value.                                                *)
(*                                                                         *)
(* regex::match (regex.hpp) sets the match variables, through              *)
(* context::set, when the regex matches.  Its search is the argument rm:  *)
(* rm[p][s] is whether pattern p matches text s and the captures it then  *)
(* sets.  The outcome of a match is whether it matched and the captures   *)
(* each context::set it made was given, in order.                         *)
(***************************************************************************)
EXTENDS Inference

\* A Type value.
TypeV(t) == [kind |-> "Type", type |-> t]

Outcome(ok, sets) == [ok |-> ok, sets |-> sets]

\* hash::get: the value of the pair whose key is k.
HashGet(ps, k) == LET at == SelectInSeq(ps, LAMBDA q : q[1] = k)
                  IN IF at = 0 THEN << >> ELSE << ps[at][2] >>

RECURSIVE ValueMatch(_, _, _)

\* The element loop of the array and hash cases: each pattern element
\* against its counterpart (none when the hash lacks the key), stopping at
\* the first that fails; the captures set so far stay set.
RECURSIVE MatchAll(_, _, _, _)
MatchAll(ps, vs, rm, sets) ==
    IF ps = << >> THEN Outcome(TRUE, sets)
    ELSE IF vs[1] = << >> THEN Outcome(FALSE, sets)
    ELSE LET r == ValueMatch(ps[1], vs[1][1], rm)
         IN IF r.ok THEN MatchAll(Tail(ps), Tail(vs), rm, sets \o r.sets)
            ELSE Outcome(FALSE, sets \o r.sets)

ValueMatch(p, v, rm) ==
    CASE p.kind = "Default" -> Outcome(TRUE, << >>)
      [] p.kind = "Regexp" ->
           IF v.kind = "String" /\ rm[p.pattern][v.text].matched
           THEN Outcome(TRUE, << rm[p.pattern][v.text].caps >>)
           ELSE Outcome(FALSE, << >>)
      [] p.kind = "Array" ->
           IF v.kind = "Array" /\ Len(p.items) = Len(v.items)
           THEN MatchAll(p.items, [i \in DOMAIN v.items |-> << v.items[i] >>], rm, << >>)
           ELSE Outcome(FALSE, << >>)
      [] p.kind = "Hash" ->
           IF v.kind = "Hash"
           THEN MatchAll([i \in DOMAIN p.items |-> p.items[i][2]],
                         [i \in DOMAIN p.items |-> HashGet(v.items, p.items[i][1])], rm, << >>)
           ELSE Outcome(FALSE, << >>)
      [] p.kind = "Type" -> Outcome(Instance(v, p.type), << >>)
      [] OTHER -> Outcome(p = v, << >>)
====
