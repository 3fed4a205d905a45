------------------------------ MODULE Dispatch ------------------------------
(***************************************************************************)
(* A function's dispatch table and descriptor::dispatch(call_context&)    *)
(* (functions/descriptor.cc): the first dispatch whose signature accepts  *)
(* the call is taken; when none does, the reason is found by              *)
(* check_argument_count, check_block_parameters and check_parameter_types *)
(* in that order, and the generic "cannot be dispatched" error is the    *)
(* last resort.  A function the Ruby host described gets its dispatches  *)
(* from the Describe response (the descriptor constructor), a maximum    *)
(* below zero meaning no maximum.                                         *)
(*                                                                         *)
(* types::callable (can_dispatch, find_mismatch, parameter_type, block)   *)
(* is not in this repository; it is modelled from Puppet's Callable type *)
(* (spec 3): an argument matches a parameter type when the type is Any or *)
(* names the argument's type, the last parameter type repeats up to the  *)
(* maximum, and the block is its presence and its parameter count.  An    *)
(* error is modelled by which check raised it and the number or the set   *)
(* of types its message shows, not by its wording.                        *)
(***************************************************************************)
EXTENDS Integers, Sequences, SequencesExt, FiniteSetsExt

CONSTANT Unlimited   \* numeric_limits<int64_t>::max(): above any argument count

ArgTypes == {"Integer", "String"}
ParamTypes == {"Integer", "String", "Any"}
None == "none"

\* A block signature: whether the dispatch takes a block, whether it must
\* be passed, and the block's parameter counts.  A call's block: whether
\* one is passed and its parameter count.
BlockSig(has, required, lo, hi) == [has |-> has, required |-> required, min |-> lo, max |-> hi]
NoBlockSig == BlockSig(FALSE, FALSE, 0, 0)
CallBlock(passed, params) == [passed |-> passed, params |-> params]

\* A call: the argument types and the block.
Call(args, block) == [args |-> args, block |-> block]

\* An outcome: the dispatch taken, or the check that raised and the count,
\* argument position or expected types its message gives.
Diag(kind, n, expected) == [kind |-> kind, n |-> n, expected |-> expected]

\* The descriptor constructor: `dispatch.max() < 0 ? max : dispatch.max()`.
Signature(d) == [d EXCEPT !.max = IF @ < 0 THEN Unlimited ELSE @]

-----------------------------------------------------------------------------
(* types::callable, from Puppet's Callable (not in this repository).     *)

\* parameter_type(i), i 0-based: the declared type, the last one for the
\* positions up to the maximum, nothing otherwise (i = -1 included).
ParameterType(s, i) ==
    CASE i >= 0 /\ i < Len(s.types) -> s.types[i + 1]
      [] i >= Len(s.types) /\ i < s.max /\ s.types # << >> -> Last(s.types)
      [] OTHER -> None

Instance(t, p) == p = "Any" \/ p = t

\* find_mismatch: the first argument its parameter type does not accept,
\* or -1.
FindMismatch(s, args) ==
    LET bad == {i \in 0..(Len(args) - 1) : ~Instance(args[i + 1], ParameterType(s, i))}
    IN IF bad = {} THEN -1 ELSE Min(bad)

\* block(): a call without a block fits a dispatch whose block is optional
\* or absent; a passed block needs a block parameter of its count.
BlockFits(s, c) ==
    IF c.block.passed THEN s.block.has /\ c.block.params \in s.block.min..s.block.max
    ELSE ~(s.block.has /\ s.block.required)

CanDispatch(s, c) ==
    /\ Len(c.args) \in s.min..s.max
    /\ BlockFits(s, c)
    /\ FindMismatch(s, c.args) = -1

-----------------------------------------------------------------------------
(* descriptor.cc.  The folds start at -1 and replace the running value    *)
(* when it is below zero, as the loops do.                                 *)
Lower(m, x) == IF m < 0 \/ m > x THEN x ELSE m

\* The maximum kept as the loop's `max_arguments > max()`.
MutUpper(m, x) == IF m < 0 \/ m > x THEN x ELSE m

Upper(m, x) == IF m < 0 \/ m < x THEN x ELSE m

\* The running minimum and maximum of the loops, -1 when there is none.
LeastOf(xs) == FoldLeft(Lower, -1, xs)
GreatestOf(xs) == FoldLeft(Upper, -1, xs)

FitsCount(s, c) == Len(c.args) \in s.min..s.max

\* check_argument_count's filter: the count fits and the block is neither
\* passed to a dispatch without one nor missing for one that requires it.
Invocable(os, c) ==
    SelectSeq(os, LAMBDA s :
        /\ FitsCount(s, c)
        /\ ~((~s.block.has /\ c.block.passed)
             \/ (s.block.has /\ s.block.required /\ ~c.block.passed)))

Pass == Diag("pass", 0, {})

CheckArgumentCount(os, c) ==
    LET n == Len(c.args)
        lo == LeastOf([i \in DOMAIN os |-> os[i].min])
        hi == GreatestOf([i \in DOMAIN os |-> os[i].max])
    IN CASE n # lo /\ lo = hi -> Diag("exactly", lo, {})
         [] n < lo -> Diag("atLeast", lo, {})
         [] n > hi -> Diag("atMost", hi, {})
         [] OTHER -> Pass

CheckBlockParameters(inv, c) ==
    LET k == c.block.params
        withBlock == SelectSeq(inv, LAMBDA s : s.block.has)
        lo == LeastOf([i \in DOMAIN withBlock |-> withBlock[i].block.min])
        hi == GreatestOf([i \in DOMAIN withBlock |-> withBlock[i].block.max])
    IN CASE inv = << >> /\ c.block.passed -> Diag("noBlock", 0, {})
         [] inv = << >> -> Diag("needsBlock", 0, {})
         [] ~c.block.passed -> Pass
         [] k # lo /\ lo = hi -> Diag("blockExactly", lo, {})
         [] k < lo -> Diag("blockAtLeast", lo, {})
         [] k > hi -> Diag("blockAtLeast", hi, {})
         [] OTHER -> Pass

\* The mismatch position is folded over the invocable dispatches; the
\* expected set is their parameter types there.
CheckParameterTypes(inv, c) ==
    LET m == LeastOf([i \in DOMAIN inv |-> FindMismatch(inv[i], c.args)])
        set == {ParameterType(inv[i], m) : i \in DOMAIN inv} \ {None}
    IN IF set = {} THEN Pass ELSE Diag("types", m, set)

\* dispatch(call_context&) for a function with dispatches os.
Dispatch(os, c) ==
    LET first == SelectInSeq(os, LAMBDA s : CanDispatch(s, c))
        inv == Invocable(os, c)
        checks == << CheckArgumentCount(os, c), CheckBlockParameters(inv, c),
                     CheckParameterTypes(inv, c) >>
        raised == SelectInSeq(checks, LAMBDA d : d # Pass)
    IN IF first # 0 THEN Diag("dispatched", first, {})
       ELSE IF raised # 0 THEN checks[raised]
       ELSE Diag("generic", 0, {})

-----------------------------------------------------------------------------
(* The two shapes of call whose message is false of the dispatches: a    *)
(* count within the least minimum and the greatest maximum that no       *)
(* dispatch accepts leaves the invocable set empty, and the block check   *)
(* then blames the block; a block with more parameters than any dispatch *)
(* takes is reported by the third block check as "expects at least" the  *)
(* greatest maximum.                                                       *)
Misdiagnosed(os, c, d) ==
    \/ d.kind \in {"noBlock", "needsBlock"} /\ \A i \in DOMAIN os : ~FitsCount(os[i], c)
    \/ d.kind = "blockAtLeast" /\ c.block.params > d.n

(* What each error claims of the function's dispatches, as its message    *)
(* says it: a count the call misses and that all of them share, bound or  *)
(* exceed; a block that none accepting the count takes, or that all of    *)
(* them require, some dispatch accepting the count; a block parameter     *)
(* count outside what all of them that take a block accept; an argument  *)
(* that a dispatch accepting the count rejects, the expected types being *)
(* theirs at its position.  The generic error comes only of a block: one *)
(* is passed, and a dispatch that takes the count and a block accepts    *)
(* every argument's type but not the block's parameter count.  A         *)
(* dispatch is the first that accepts the call.                            *)
DiagnosisSound(os, c, d) ==
    LET n == Len(c.args)
        k == c.block.params
        S == ToSet(os)
        fit == {s \in S : FitsCount(s, c)}
        withBlock == {s \in fit : s.block.has}
        present == {s \in fit : IF c.block.passed THEN s.block.has
                                 ELSE ~(s.block.has /\ s.block.required)}
    IN /\ d.kind # "dispatched" => \A s \in S : ~CanDispatch(s, c)
       /\ CASE d.kind = "dispatched" ->
                 CanDispatch(os[d.n], c) /\ \A i \in 1..(d.n - 1) : ~CanDispatch(os[i], c)
            [] d.kind = "exactly" -> n # d.n /\ \A s \in S : s.min = d.n /\ s.max = d.n
            [] d.kind = "atLeast" -> n < d.n /\ \A s \in S : s.min >= d.n
            [] d.kind = "atMost" -> n > d.n /\ \A s \in S : s.max <= d.n
            [] d.kind = "noBlock" ->
                 c.block.passed /\ fit # {} /\ \A s \in fit : ~s.block.has
            [] d.kind = "needsBlock" ->
                 ~c.block.passed /\ fit # {} /\ \A s \in fit : s.block.has /\ s.block.required
            [] d.kind = "blockExactly" ->
                 c.block.passed /\ k # d.n
                 /\ \A s \in withBlock : s.block.min = d.n /\ s.block.max = d.n
            [] d.kind = "blockAtLeast" ->
                 c.block.passed /\ k < d.n /\ \A s \in withBlock : s.block.min >= d.n
            [] d.kind = "types" ->
                 /\ d.n \in 0..(n - 1)
                 /\ \E s \in fit : FindMismatch(s, c.args) = d.n
                 /\ \A e \in d.expected : \E s \in fit : ParameterType(s, d.n) = e
            [] d.kind = "generic" ->
                 /\ c.block.passed
                 /\ \E s \in present : FindMismatch(s, c.args) = -1 /\ k \notin s.block.min..s.block.max
====
