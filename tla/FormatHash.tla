----------------------------- MODULE FormatHash -----------------------------
(***************************************************************************)
(* format::format(values::hash) (runtime/utility/format.cc): a format      *)
(* given as a hash of the attributes format, separator, separator2 and    *)
(* string_formats, the last built into a format_map with allow_hash false *)
(* (runtime/utility/format_map.cc).  The attribute names are strings of   *)
(* one token here; a format string is a string of characters (Format).    *)
(* The format_map sorts the entries it keeps with its comparator; for the *)
(* map sizes modelled, libstdc++'s std::sort is its insertion sort (the   *)
(* introsort loop leaves ranges of at most 16 elements to it).            *)
(***************************************************************************)
EXTENDS Match, Format

Attr(name) == Str(<< name >>)
Attributes == {"format", "separator", "separator2", "string_formats"}

\* The format the hash describes, and its other attributes; the members'
\* defaults when an attribute is absent.
Described(f, sep, sep2, formats) ==
    [format |-> f, separator |-> sep, separator2 |-> sep2, formats |-> formats]


IsErr(x) == "error" \in DOMAIN x

\* lookup<T>(hash, attribute): none, the value when it has the kind, or the
\* "expected ..." error.
Lookup(h, name, kind) ==
    LET v == HashGet(h.items, Attr(name))
    IN CASE v = << >> -> [some |-> FALSE]
         [] v[1].kind = kind -> [some |-> TRUE, value |-> v[1]]
         [] OTHER -> Err(name)

\* get_type_rank: from the most specific kind to the most general.
TypeRank(t) ==
    LET rank == ("Struct" :> 1) @@ ("Hash" :> 2) @@ ("Tuple" :> 3) @@ ("Array" :> 4)
                @@ ("Pattern" :> 5) @@ ("Enum" :> 6) @@ ("String" :> 7)
    IN IF t.kind \in DOMAIN rank THEN rank[t.kind] ELSE 1000

\* The comparator with its two early returns swapped.
MutSortsBefore(l, r) ==
    LET by(la, ra) == IF la /\ ~ra THEN TRUE ELSE IF ~la /\ ra THEN FALSE ELSE TypeRank(l) < TypeRank(r)
    IN by(Assignable(l, r), Assignable(r, l))

\* The sort's comparator: the type the other is assignable to goes after
\* it; equal or disjoint types go by rank.
SortsBefore(l, r) ==
    LET by(la, ra) == IF la /\ ~ra THEN FALSE ELSE IF ~la /\ ra THEN TRUE ELSE TypeRank(l) < TypeRank(r)
    IN by(Assignable(l, r), Assignable(r, l))

\* __insertion_sort: an entry that sorts before the first goes to the front;
\* otherwise __unguarded_linear_insert moves it back past every entry it
\* sorts before, stopping at the first (from the end) it does not.
Insert(s, e) ==
    IF SortsBefore(e[1], s[1][1]) THEN << e >> \o s
    ELSE LET j == Max({i \in DOMAIN s : ~SortsBefore(e[1], s[i][1])})
         IN SubSeq(s, 1, j) \o << e >> \o SubSeq(s, j + 1, Len(s))

InsertionSort(es) == FoldLeft(LAMBDA s, e : IF s = << >> THEN << e >> ELSE Insert(s, e), << >>, es)

\* find_format: the first entry whose type the value is an instance of.
FindFormat(es, v) ==
    LET at == SelectInSeq(es, LAMBDA e : Instance(v, e[1]))
    IN IF at = 0 THEN << >> ELSE << es[at][2] >>

\* format_map(hash, false): every key must be a Type, every value a
\* String, parsed as a format; the first entry that fails throws.
EntryError(p) ==
    CASE p[1].kind # "Type" -> Err("map key")
      [] p[2].kind # "String" -> Err("map value")
      [] OTHER -> ParseSpecification(p[2].text)

Validated(ps) ==
    LET first(errs) ==
            LET at == SelectInSeq(errs, IsErr)
            IN IF at # 0 THEN errs[at] ELSE [map |-> [i \in DOMAIN ps |-> << ps[i][1].type, errs[i] >>]]
    IN first([i \in DOMAIN ps |-> EntryError(ps[i])])

\* ... and the entries kept are sorted.
FormatMap(ps) ==
    LET sorted(m) == IF IsErr(m) THEN m ELSE [map |-> InsertionSort(m.map)]
    IN sorted(Validated(ps))

\* The first key of a hash that is not a String, or not an attribute.
\* Dropping the check that a key is a String.
MutStrayKey(h) ==
    IF SelectInSeq(h.items, LAMBDA q : q[1] \notin {Attr(a) : a \in Attributes}) = 0
    THEN [some |-> FALSE] ELSE Err("unsupported")

StrayKey(h) ==
    LET at == SelectInSeq(h.items, LAMBDA q : q[1] \notin {Attr(a) : a \in Attributes})
    IN CASE at = 0 -> [some |-> FALSE]
         [] h.items[at][1].kind # "String" -> Err("key")
         [] OTHER -> Err("unsupported")

\* The constructor: the four lookups in order, the format parsed and the
\* string formats built as they are found; then, when fewer attributes
\* were found than the hash has keys, the first stray key throws.
FromHash(h) ==
    LET fv == Lookup(h, "format", "String")
        s1 == Lookup(h, "separator", "String")
        s2 == Lookup(h, "separator2", "String")
        mv == Lookup(h, "string_formats", "Hash")
        found == Len(SelectSeq(<< fv, s1, s2, mv >>, LAMBDA x : x.some))
        text(x) == IF x.some THEN x.value.text ELSE << >>
        \* f: the format parsed; m: the string formats built.
        built(f, m) ==
            CASE IsErr(fv) -> fv
              [] IsErr(f) -> f
              [] IsErr(s1) -> s1
              [] IsErr(s2) -> s2
              [] IsErr(mv) -> mv
              [] IsErr(m) -> m
              [] found # Len(h.items) /\ IsErr(StrayKey(h)) -> StrayKey(h)
              [] OTHER -> Described(f, text(s1), text(s2), m.map)
    IN built(IF fv.some THEN ParseSpecification(fv.value.text) ELSE NoFlags,
             IF mv.some THEN FormatMap(mv.value.items) ELSE [map |-> << >>])

-----------------------------------------------------------------------------
(* A format hash is accepted exactly when every key is one of the four    *)
(* attribute names, format a valid format string, the separators strings *)
(* and string_formats a hash of types to valid format strings; then the   *)
(* format is that string's, the separators are the given ones (empty when *)
(* absent) and the string formats are the given pairs, in some order.  A  *)
(* hash that is refused is refused for a defect it has: the attribute,    *)
(* key or entry the error names is wrong in it.                           *)
Entry(h, name) == HashGet(h.items, Attr(name))

GoodMap(v) ==
    /\ v.kind = "Hash"
    /\ \A i \in DOMAIN v.items :
          /\ v.items[i][1].kind = "Type" /\ v.items[i][2].kind = "String"
          /\ ~IsErr(ParseSpecification(v.items[i][2].text))

Defects(h) ==
    LET e(n) == Entry(h, n)
        bad(n, ok(_)) == e(n) # << >> /\ ~ok(e(n)[1])
        keys == {h.items[i][1] : i \in DOMAIN h.items}
        mapDefects(v) ==
            {IF v.items[i][1].kind # "Type" THEN "map key"
             ELSE IF v.items[i][2].kind # "String" THEN "map value"
             ELSE ParseSpecification(v.items[i][2].text).error :
               i \in {j \in DOMAIN v.items : ~GoodMap(Hsh(<< v.items[j] >>))}}
    IN   {n \in {"separator", "separator2"} : bad(n, LAMBDA x : x.kind = "String")}
       \cup (IF bad("format", LAMBDA x : x.kind = "String") THEN {"format"}
             ELSE IF e("format") = << >> THEN {}
             ELSE LET parsed(f) == IF IsErr(f) THEN {f.error} ELSE {}
                  IN parsed(ParseSpecification(e("format")[1].text)))
       \cup (IF e("string_formats") = << >> THEN {}
             ELSE IF e("string_formats")[1].kind # "Hash" THEN {"string_formats"}
             ELSE mapDefects(e("string_formats")[1]))
       \cup {IF k.kind # "String" THEN "key" ELSE "unsupported" :
               k \in {x \in keys : x \notin {Attr(a) : a \in Attributes}}}

FormatHashDiagnosed(Hashes) ==
    \A h \in Hashes :
        LET given(n) == IF Entry(h, n) = << >> THEN << >> ELSE Entry(h, n)[1].text
            map == IF Entry(h, "string_formats") = << >> THEN << >>
                   ELSE LET ps == Entry(h, "string_formats")[1].items
                        IN [i \in DOMAIN ps |-> << ps[i][1].type, ParseSpecification(ps[i][2].text) >>]
            verdict(r, defects) ==
              IF defects = {}
              THEN /\ r.format = IF given("format") = << >> THEN NoFlags
                               ELSE ParseSpecification(given("format"))
                   /\ r.separator = given("separator") /\ r.separator2 = given("separator2")
                   /\ Len(r.formats) = Len(map) /\ Range(r.formats) = Range(map)
              ELSE IsErr(r) /\ r.error \in defects
        IN verdict(FromHash(h), Defects(h))

-----------------------------------------------------------------------------
(* A map's types are sorted by a strict weak ordering when the comparator *)
(* is transitive and so is the relation of two types neither of which    *)
(* sorts before the other.                                                *)
Incomparable(a, b) == ~SortsBefore(a, b) /\ ~SortsBefore(b, a)

StrictWeak(ts) ==
    /\ \A a \in ts : ~SortsBefore(a, a)
    /\ \A a, b, c \in ts : SortsBefore(a, b) /\ SortsBefore(b, c) => SortsBefore(a, c)
    /\ \A a, b, c \in ts : Incomparable(a, b) /\ Incomparable(b, c) => Incomparable(a, c)

(* The formats a value should get (spec 5, "sorted from most specific to  *)
(* least specific"): those of the entries it is an instance of whose type *)
(* has no strictly narrower type among the entries it matches.            *)
MostSpecific(es, v) ==
    LET matching == {es[i] : i \in {j \in DOMAIN es : Instance(v, es[j][1])}}
    IN {e[2] : e \in {m \in matching :
                         ~\E n \in matching : Assignable(m[1], n[1]) /\ ~Assignable(n[1], m[1])}}

(* format_map's constructor sorts the entries with its comparator and     *)
(* find_format takes the first the value is an instance of: whenever the  *)
(* comparator is a strict weak ordering of the map's types, that is a     *)
(* most specific matching format, and there is one exactly when some     *)
(* entry matches.                                                         *)
FindsMostSpecific(Maps, Values) ==
    \A es \in Maps :
        StrictWeak(Range([i \in DOMAIN es |-> es[i][1]])) =>
            LET sorted == InsertionSort(es)
            IN \A v \in Values :
                  LET r == FindFormat(sorted, v)
                  IN /\ (r = << >>) = (MostSpecific(es, v) = {})
                     /\ r # << >> => r[1] \in MostSpecific(es, v)
====
