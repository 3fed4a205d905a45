------------------------------ MODULE Multiply ------------------------------
(***************************************************************************)
(* The arithmetic multiplication operator (runtime/operators/multiply.cc): *)
(* multiply_visitor over the two operand values.  Two Integers are checked *)
(* for overflow before they are multiplied, with C++'s truncating division *)
(* of the int64_t limits by the right operand; an operand that is not     *)
(* numeric is an error at the first such operand's position.               *)
(*                                                                         *)
(* int64_t is an integer of Width bits here (Width stands for 64), so the  *)
(* limits and every boundary case fall among a few values.  Floats (the    *)
(* long double overloads, whose checks are the FPU's exception flags) are  *)
(* not modelled.                                                          *)
(***************************************************************************)
EXTENDS Integers

CONSTANT Width

ASSUME Width \in Nat \ {0, 1}

\* numeric_limits<int64_t>::max() and min().
MaxInt == 2^(Width - 1) - 1
MinInt == -(2^(Width - 1))
Int64 == MinInt..MaxInt

\* An operand value: an Integer, or a value of a type that is not numeric.
IntVal(n) == [type |-> "Integer", int |-> n]
NotNumeric == [type |-> "String", int |-> 0]
Operands == {IntVal(n) : n \in Int64} \cup {NotNumeric}

\* An outcome: the value, or the error and the operand it is reported at.
Outcome(kind, at, v) == [kind |-> kind, at |-> at, value |-> v]
Outcomes ==
    {Outcome(k, "left", 0) : k \in {"overflow", "underflow"}}
    \cup {Outcome("type", p, 0) : p \in {"left", "right"}}
    \cup {Outcome("value", "none", v) : v \in Int64}

AbsVal(x) == IF x < 0 THEN -x ELSE x

\* C++ division of int64_t truncates toward zero.
Quot(a, b) == IF (a < 0) = (b < 0) THEN AbsVal(a) \div AbsVal(b)
              ELSE -(AbsVal(a) \div AbsVal(b))

\* left * right in two's complement: the product modulo 2^Width.
Wrap(x) == ((x - MinInt) % 2^Width) + MinInt

\* The overflow checks with the right == -1 case left out.
MutIntOverflow(l, r) ==
    CASE r > 0 /\ l > Quot(MaxInt, r) -> "overflow"
      [] r > 0 /\ l < Quot(MinInt, r) -> "underflow"
      [] r < -1 /\ l > Quot(MinInt, r) -> "underflow"
      [] r < -1 /\ l < Quot(MaxInt, r) -> "overflow"
      [] OTHER -> "none"

\* operator()(int64_t, int64_t): the branches on the sign of the right
\* operand, each comparing the left one with a limit divided by it.
IntOverflow(l, r) ==
    CASE r > 0 /\ l > Quot(MaxInt, r) -> "overflow"
      [] r > 0 /\ l < Quot(MinInt, r) -> "underflow"
      [] r < -1 /\ l > Quot(MinInt, r) -> "underflow"
      [] r < -1 /\ l < Quot(MaxInt, r) -> "overflow"
      [] r = -1 /\ l = MinInt -> "overflow"
      [] OTHER -> "none"

MultiplyInt(l, r) ==
    IF IntOverflow(l, r) = "none" THEN Outcome("value", "none", Wrap(l * r))
    ELSE Outcome(IntOverflow(l, r), "left", 0)

\* multiply::operator(): the visitor's overloads, a non-numeric left
\* operand first, then a non-numeric right one.
Multiply(l, r) ==
    CASE l.type # "Integer" -> Outcome("type", "left", 0)
      [] r.type # "Integer" -> Outcome("type", "right", 0)
      [] OTHER -> MultiplyInt(l.int, r.int)

(* What the operator means: the exact product of two Integers when it is  *)
(* an int64_t, "arithmetic overflow" above the range and "arithmetic       *)
(* underflow" below it, both reported at the left operand; an error at the *)
(* first operand that is not numeric.                                       *)
RefMultiply(l, r) ==
    CASE l.type # "Integer" -> Outcome("type", "left", 0)
      [] r.type # "Integer" -> Outcome("type", "right", 0)
      [] l.int * r.int > MaxInt -> Outcome("overflow", "left", 0)
      [] l.int * r.int < MinInt -> Outcome("underflow", "left", 0)
      [] OTHER -> Outcome("value", "none", l.int * r.int)
====
