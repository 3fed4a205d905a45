----------------------------- MODULE Inference -----------------------------
(***************************************************************************)
(* value::infer_type (runtime/values/value.cc): the type_inference_visitor *)
(* over a value, in its plain and its detailed form, and                   *)
(* infer_common_type, which the plain form folds over the elements of an  *)
(* array and the keys and values of a hash.                                *)
(*                                                                         *)
(* A value is a record: its kind and its payload (a number, a string as   *)
(* the sequence of its graphemes, a regex's pattern, the elements of an   *)
(* array, the key/value pairs of a hash in insertion order).  Floats are  *)
(* stood for by integers: only their order matters here.  Type values,    *)
(* iterators and variables are not modelled.                              *)
(*                                                                         *)
(* The types (runtime/types, not in this repository) are records too.     *)
(* Their assignability and instance tests are modelled from Puppet's type *)
(* system (spec 4.4): ranges compare bounds, Numeric holds Integer and    *)
(* Float, Scalar the numbers, String, Boolean and Regexp, Data the        *)
(* scalars, Undef and arrays and hashes of Data; an Array or Hash without *)
(* an element type reads as one of Any.                                    *)
(***************************************************************************)
EXTENDS Integers, Sequences, SequencesExt, FiniteSetsExt

\* A null element, key or value type (a nullptr unique_ptr<type>), and the
\* pattern of an unparameterized Regexp.
NoType == [kind |-> "Unset"]
NoPattern == ""

\* numeric_limits<int64_t>::max(), the default upper bound of a size.
Unbounded == 1000

Plain(kind) == [kind |-> kind]                       \* Undef, Default, Boolean
Num(kind, n) == [kind |-> kind, num |-> n]           \* Integer, Float
Str(s) == [kind |-> "String", text |-> s]
Re(p) == [kind |-> "Regexp", pattern |-> p]
Arr(vs) == [kind |-> "Array", items |-> vs]
Hsh(ps) == [kind |-> "Hash", items |-> ps]
UndefV == Plain("Undef")
DefaultV == Plain("Default")

\* A string's grapheme count, a container's size.
Size(v) == IF v.kind = "String" THEN Len(v.text) ELSE Len(v.items)

T(kind) == [kind |-> kind]
Ranged(kind, lo, hi) == [kind |-> kind, from |-> lo, to |-> hi]
ArrayT(e, lo, hi) == [kind |-> "Array", elem |-> e, from |-> lo, to |-> hi]
HashT(k, v, lo, hi) == [kind |-> "Hash", key |-> k, value |-> v, from |-> lo, to |-> hi]
RegexpT(p) == [kind |-> "Regexp", pattern |-> p]
TupleT(ts, lo, hi) == [kind |-> "Tuple", types |-> ts, from |-> lo, to |-> hi]
StructT(schema) == [kind |-> "Struct", schema |-> schema]
EnumT(strings) == [kind |-> "Enum", strings |-> strings]
VariantT(ts) == [kind |-> "Variant", types |-> ts]

\* variant::unwrap: a variant of one type is that type.
Unwrap(ts) == IF Len(ts) = 1 THEN ts[1] ELSE VariantT(ts)

Keys(h) == [i \in DOMAIN h |-> h[i][1]]
Vals(h) == [i \in DOMAIN h |-> h[i][2]]

-----------------------------------------------------------------------------
(* The type system, from Puppet's (not in this repository).               *)
ScalarKinds == {"Scalar", "Numeric", "Integer", "Float", "String", "Boolean", "Regexp"}

ElemOf(t) == IF t.elem = NoType THEN T("Any") ELSE t.elem
KeyOf(t) == IF t.key = NoType THEN T("Any") ELSE t.key
ValueOf(t) == IF t.value = NoType THEN T("Any") ELSE t.value

Within(t, u) == t.from <= u.from /\ u.to <= t.to

\* t.is_assignable(u), for the types the plain inference produces.
RECURSIVE Assignable(_, _)
Assignable(t, u) ==
    CASE t.kind = "Any" -> TRUE
      [] t.kind = "Data" ->
           \/ u.kind \in ScalarKinds \cup {"Undef", "Data"}
           \/ u.kind = "Array" /\ Assignable(t, ElemOf(u))
           \/ u.kind = "Hash" /\ Assignable(T("Scalar"), KeyOf(u)) /\ Assignable(t, ValueOf(u))
      [] t.kind = "Scalar" -> u.kind \in ScalarKinds
      [] t.kind = "Numeric" -> u.kind \in {"Numeric", "Integer", "Float"}
      [] t.kind \in {"Integer", "Float", "String"} -> u.kind = t.kind /\ Within(t, u)
      [] t.kind = "Regexp" -> u.kind = "Regexp" /\ t.pattern \in {NoPattern, u.pattern}
      [] t.kind = "Array" ->
           u.kind = "Array" /\ Within(t, u) /\ Assignable(ElemOf(t), ElemOf(u))
      [] t.kind = "Hash" ->
           /\ u.kind = "Hash" /\ Within(t, u)
           /\ Assignable(KeyOf(t), KeyOf(u)) /\ Assignable(ValueOf(t), ValueOf(u))
      [] OTHER -> u.kind = t.kind

\* t.is_instance(v).
RECURSIVE Instance(_, _)
Instance(v, t) ==
    LET n == Size(v)
        inRange == v.num \in t.from..t.to
        sized == n \in t.from..t.to
    IN CASE t.kind = "Any" -> TRUE
         [] t.kind = "Data" ->
              \/ v.kind \in ScalarKinds \cup {"Undef"}
              \/ v.kind = "Array" /\ \A i \in 1..n : Instance(v.items[i], t)
              \/ v.kind = "Hash" /\ \A i \in 1..n : Instance(v.items[i][1], T("Scalar"))
                                                   /\ Instance(v.items[i][2], t)
         [] t.kind = "Scalar" -> v.kind \in ScalarKinds
         [] t.kind = "Numeric" -> v.kind \in {"Integer", "Float"}
         [] t.kind \in {"Integer", "Float"} -> v.kind = t.kind /\ inRange
         [] t.kind = "String" -> v.kind = "String" /\ sized
         [] t.kind = "Enum" -> v.kind = "String" /\ v.text \in t.strings
         [] t.kind = "Regexp" -> v.kind = "Regexp" /\ t.pattern \in {NoPattern, v.pattern}
         [] t.kind = "Array" ->
              v.kind = "Array" /\ sized /\ \A i \in 1..n : Instance(v.items[i], ElemOf(t))
         [] t.kind = "Tuple" ->
              /\ v.kind = "Array" /\ sized
              /\ \A i \in 1..n : Instance(v.items[i], t.types[Min({i, Len(t.types)})])
         [] t.kind = "Hash" ->
              /\ v.kind = "Hash" /\ sized
              /\ \A i \in 1..n : Instance(v.items[i][1], KeyOf(t)) /\ Instance(v.items[i][2], ValueOf(t))
         [] t.kind = "Struct" ->
              /\ v.kind = "Hash" /\ n = Len(t.schema)
              /\ \A i \in 1..n : \E j \in 1..n :
                    Instance(v.items[i][1], t.schema[j][1]) /\ Instance(v.items[i][2], t.schema[j][2])
         [] t.kind = "Variant" -> \E i \in DOMAIN t.types : Instance(v, t.types[i])
         [] OTHER -> v.kind = t.kind

-----------------------------------------------------------------------------
(* value.cc.  infer_common_type(left, right): either one if it accepts the *)
(* other, left first; then the joins of two types of one kind (arrays and *)
(* hashes by their element types, with the default sizes; numeric and    *)
(* string ranges by the outer bounds; two different Regexps as Regexp);   *)
(* then Numeric, Scalar and Data if both are of it; Any otherwise.  The    *)
(* branches for Class, Resource, Pattern, Enum, Variant, Type, Callable   *)
(* and Runtime are left out: the plain inference of the modelled values    *)
(* produces none of those types.                                          *)
\* The range join with the bounds crossed: std::max of the lower bounds.
MutSpan(l, r) == [from |-> Max({l.from, r.from}), to |-> Max({l.to, r.to})]

Span(l, r) == [from |-> Min({l.from, r.from}), to |-> Max({l.to, r.to})]

RECURSIVE InferCommonType(_, _)
InferCommonType(l, r) ==
    IF Assignable(l, r) THEN l
    ELSE IF Assignable(r, l) THEN r
    ELSE IF l.kind = "Array" /\ r.kind = "Array"
         THEN ArrayT(InferCommonType(ElemOf(l), ElemOf(r)), 0, Unbounded)
    ELSE IF l.kind = "Hash" /\ r.kind = "Hash"
         THEN HashT(InferCommonType(KeyOf(l), KeyOf(r)),
                    InferCommonType(ValueOf(l), ValueOf(r)), 0, Unbounded)
    ELSE IF l.kind = r.kind /\ l.kind \in {"Integer", "Float", "String"}
         THEN Ranged(l.kind, Span(l, r).from, Span(l, r).to)
    ELSE IF l.kind = "Regexp" /\ r.kind = "Regexp" THEN RegexpT(NoPattern)
    ELSE LET both(k) == Assignable(T(k), l) /\ Assignable(T(k), r)
             at == SelectInSeq(<< "Numeric", "Scalar", "Data" >>, both)
         IN IF at # 0 THEN T(<< "Numeric", "Scalar", "Data" >>[at]) ELSE T("Any")

\* The plain visitor's loops: the first element's type, then each next
\* element's type joined with the running one (the new type on the left).
RECURSIVE InferType(_, _)
CommonOf(vs) ==
    FoldLeft(LAMBDA acc, v : InferCommonType(InferType(v, FALSE), acc),
             InferType(Head(vs), FALSE), Tail(vs))

\* infer_detailed_hash: a Struct of singleton Enum keys when every key is
\* a String, else a Hash of the variants of the key and the value types.
DetailedHash(h) ==
    LET n == Len(h)
    IN IF \A i \in 1..n : h[i][1].kind = "String"
       THEN StructT([i \in 1..n |-> << EnumT({h[i][1].text}), InferType(h[i][2], TRUE) >>])
       ELSE HashT(Unwrap([i \in 1..n |-> InferType(h[i][1], TRUE)]),
                  Unwrap([i \in 1..n |-> InferType(h[i][2], TRUE)]), n, n)

\* type_inference_visitor, plain or detailed.
InferType(v, detailed) ==
    LET n == Size(v)
        plain == IF v.kind = "Array" THEN ArrayT(CommonOf(v.items), n, n)
                 ELSE HashT(CommonOf(Keys(v.items)), CommonOf(Vals(v.items)), n, n)
        deep == IF v.kind = "Array"
                THEN TupleT([i \in 1..n |-> InferType(v.items[i], TRUE)], n, n)
                ELSE DetailedHash(v.items)
    IN CASE v.kind \in {"Integer", "Float"} -> Ranged(v.kind, v.num, v.num)
         [] v.kind = "String" -> Ranged("String", n, n)
         [] v.kind = "Regexp" -> RegexpT(v.pattern)
         [] v.kind = "Array" /\ n = 0 -> ArrayT(NoType, 0, 0)
         [] v.kind = "Hash" /\ n = 0 -> HashT(NoType, NoType, 0, 0)
         [] v.kind \in {"Array", "Hash"} /\ n > 0 -> IF detailed THEN deep ELSE plain
         [] OTHER -> T(v.kind)

-----------------------------------------------------------------------------
(* value::infer_type is sound: every value is an instance of the type it   *)
(* infers, plain or detailed.  For arrays and hashes of mixed elements    *)
(* this rests on infer_common_type returning a type that accepts both of  *)
(* its arguments, through the assignability shortcuts, the range joins,   *)
(* the element-wise joins of nested arrays and hashes and the Numeric,    *)
(* Scalar, Data and Any fallbacks, in the order value.cc tries them.      *)
InferenceSound(Values) ==
    \A v \in Values : Instance(v, InferType(v, FALSE)) /\ Instance(v, InferType(v, TRUE))
====
