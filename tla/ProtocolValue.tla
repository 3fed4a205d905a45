--------------------------- MODULE ProtocolValue ---------------------------
(***************************************************************************)
(* The conversion of values to and from the Ruby host's Value message      *)
(* (runtime/values/value.cc): protocol_visitor, which writes a value into  *)
(* a message for the arguments of an Invoke call and the result of a       *)
(* continuation, and value::value(Protocols::Value const&), which reads   *)
(* the result of an Invoke call and the arguments of a yield.             *)
(*                                                                         *)
(* A message is a record of its set case and that case's field.  A type  *)
(* is written as its printed form, which is stood for by the type itself. *)
(* Iterators are not modelled.  A hash is read through hash::set, which   *)
(* is not in this repository: from the spec (3), a hash is an insertion-  *)
(* ordered map with unique keys, and setting a present key replaces its   *)
(* value in place.                                                        *)
(***************************************************************************)
EXTENDS Match

BoolV(b) == [kind |-> "Boolean", bool |-> b]

\* A values::variable: a named reference, written as the value it names.
VarV(v) == [kind |-> "Variable", value |-> v]

\* The value a conversion cannot produce: a runtime_error thrown.
Thrown == [kind |-> "Thrown"]

\* A message with case c set to x.
Msg(c, x) == [case |-> c, field |-> x]

\* A hash message's element.
Kvp(k, v) == [key |-> k, value |-> v]

-----------------------------------------------------------------------------
(* protocol_visitor.                                                      *)
RECURSIVE ToProtocol(_)
ToProtocol(v) ==
    CASE v.kind = "Undef" -> Msg("symbol", "UNDEF")
      [] v.kind = "Default" -> Msg("symbol", "DEFAULT")
      [] v.kind \in {"Integer", "Float"} -> Msg(v.kind, v.num)
      [] v.kind = "Boolean" -> Msg("Boolean", v.bool)
      [] v.kind = "String" -> Msg("String", v.text)
      [] v.kind = "Regexp" -> Msg("Regexp", v.pattern)
      [] v.kind = "Type" -> Msg("Type", v.type)
      [] v.kind = "Variable" -> ToProtocol(v.value)
      [] v.kind = "Array" -> Msg("Array", [i \in DOMAIN v.items |-> ToProtocol(v.items[i])])
      [] v.kind = "Hash" ->
           Msg("Hash", [i \in DOMAIN v.items |->
                          Kvp(ToProtocol(v.items[i][1]), ToProtocol(v.items[i][2]))])

-----------------------------------------------------------------------------
(* value::value(Protocols::Value const&).                                 *)

\* hash::set: a present key's value is replaced where it stands, a new key
\* is appended.
HashSet(ps, k, v) ==
    LET at == SelectInSeq(ps, LAMBDA q : q[1] = k)
    IN IF at = 0 THEN Append(ps, << k, v >>) ELSE [ps EXCEPT ![at][2] = v]

\* The symbol case with DEFAULT read as undef.
MutFromSymbol(s) ==
    IF s = "UNDEF" THEN UndefV ELSE IF s = "DEFAULT" THEN UndefV ELSE Thrown

\* The kSymbol case: undef, default, or "unexpected symbolic enumeration".
FromSymbol(s) ==
    IF s = "UNDEF" THEN UndefV ELSE IF s = "DEFAULT" THEN DefaultV ELSE Thrown

\* Each case assigns the value it reads; the kType case only breaks, so the
\* value keeps the undef it was constructed with.  An element that throws
\* makes the whole conversion throw.
RECURSIVE FromProtocol(_)
FromProtocol(m) ==
    LET elems == [i \in DOMAIN m.field |-> FromProtocol(m.field[i])]
        keys == [i \in DOMAIN m.field |-> FromProtocol(m.field[i].key)]
        vals == [i \in DOMAIN m.field |-> FromProtocol(m.field[i].value)]
        failed(s) == \E i \in DOMAIN s : s[i] = Thrown
    IN CASE m.case = "symbol" -> FromSymbol(m.field)
         [] m.case \in {"Integer", "Float"} -> Num(m.case, m.field)
         [] m.case = "Boolean" -> BoolV(m.field)
         [] m.case = "String" -> Str(m.field)
         [] m.case = "Regexp" -> Re(m.field)
         [] m.case = "Type" -> UndefV
         [] m.case = "Array" -> IF failed(elems) THEN Thrown ELSE Arr(elems)
         [] m.case = "Hash" ->
              IF failed(keys) \/ failed(vals) THEN Thrown
              ELSE Hsh(FoldLeft(LAMBDA ps, i : HashSet(ps, keys[i], vals[i]),
                                << >>, [i \in DOMAIN m.field |-> i]))
         [] OTHER -> Thrown

-----------------------------------------------------------------------------
(* A value as the language sees it: a variable reads as the value it names. *)
RECURSIVE Resolved(_)
Resolved(v) ==
    CASE v.kind = "Variable" -> Resolved(v.value)
      [] v.kind = "Array" -> Arr([i \in DOMAIN v.items |-> Resolved(v.items[i])])
      [] v.kind = "Hash" ->
           Hsh([i \in DOMAIN v.items |-> << Resolved(v.items[i][1]), Resolved(v.items[i][2]) >>])
      [] OTHER -> v

(* A value written for the Ruby host and read back by the same rules is    *)
(* the value it stands for: the UNDEF and DEFAULT symbols stay apart,     *)
(* numbers, booleans, strings and regexes keep their payloads, variables  *)
(* are written as their values, and arrays and hashes keep their          *)
(* elements, keys and order through the recursion and hash::set.  Types  *)
(* are left out: the reading side does not parse them.                    *)
RoundTrips(Values) == \A v \in Values : FromProtocol(ToProtocol(v)) = Resolved(v)
====
