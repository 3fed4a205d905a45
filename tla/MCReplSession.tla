---------------------------- MODULE MCReplSession ----------------------------
(* A REPL session over four classes and three type aliases.               *)
(*   a: include b, then Type x  -- nests a frame for b and one for x       *)
(*   b: Type z                  -- z names y, which is not a real type    *)
(*   r: include r               -- a class that includes itself           *)
(*   u: not defined                                                        *)
(*   x names x (a cyclic alias), y is not real, z names y.                 *)
(* With MAX_STACK_DEPTH 2 the '<repl>' frame and two nested frames fit:   *)
(* `include a` reaches the depth check and fails there, and `include b`   *)
(* fails when z's type expression resolves y.                             *)
(* Functions the Ruby host described: g passes a block that calls g      *)
(* again, so yields nest streams until the block's frame no longer fits;  *)
(* h passes a block that includes b (whose body fails the first time);  *)
(* k and e are called without a block.  The dispatches the host          *)
(* describes, the block's parameter counts after the bar:                 *)
(*   g: (Integer), no block; (String, Integer | 1..2) required;            *)
(*      (Any | 0..1) required                                              *)
(*   h: (Integer, Integer | 0..0) required; (Any..., no maximum | 1..1)    *)
(*      optional; (Integer | 2..2) required                                *)
(*   k: (String), no block; (Any, Any, Any | 0..0) required               *)
(*   e: (Integer | 1..1) required                                          *)
(* g's block takes two parameters and h's none.  With up to three         *)
(* arguments every check of descriptor::dispatch raises for some call:    *)
(* e the exact count, k the least, g the most, g a block where none is    *)
(* taken and too many block parameters, k a missing block, h too few     *)
(* block parameters (exactly one, or at least one), g an argument type,   *)
(* and h, with two arguments, the generic error.  k with two arguments   *)
(* falls in the gap between its counts.                                   *)
EXTENDS ReplSession, TLC

MCClasses == {"a", "b", "r", "u", "m"}
MCDefined == {"a", "b", "r", "m"}
MCBody == [c \in MCClasses |->
             CASE c = "a" -> << IncludeStmt("b"), TypeStmt("x") >>
               [] c = "b" -> << TypeStmt("z") >>
               [] c = "r" -> << IncludeStmt("r") >>
               [] c = "m" -> << MatchStmt("cv") >>
               [] OTHER -> << >>]
MCStages == {"main", "other"}
MCAliases == {"x", "y", "z"}
MCAliasRef == [a \in MCAliases |-> CASE a = "x" -> "x" [] a = "z" -> "y" [] OTHER -> NoAlias]
MCAliasKind == [a \in MCAliases |-> IF a = "y" THEN "unreal" ELSE "real"]

MCFunctions == {"g", "h", "k", "e"}
MCBlock == [f \in MCFunctions |->
              CASE f = "g" -> << CallStmt("g") >>
                [] f = "h" -> << IncludeStmt("b") >>
                [] OTHER -> << >>]
HostDispatch(types, lo, hi, block) == [types |-> types, min |-> lo, max |-> hi, block |-> block]
MCDispatches ==
    ("g" :> << HostDispatch(<< "Integer" >>, 1, 1, NoBlockSig),
               HostDispatch(<< "String", "Integer" >>, 2, 2, BlockSig(TRUE, TRUE, 1, 2)),
               HostDispatch(<< "Any" >>, 0, 0, BlockSig(TRUE, TRUE, 0, 1)) >>)
    @@ ("h" :> << HostDispatch(<< "Integer", "Integer" >>, 2, 2, BlockSig(TRUE, TRUE, 0, 0)),
                  HostDispatch(<< "Any" >>, 0, -1, BlockSig(TRUE, FALSE, 1, 1)),
                  HostDispatch(<< "Integer" >>, 1, 1, BlockSig(TRUE, TRUE, 2, 2)) >>)
    @@ ("k" :> << HostDispatch(<< "String" >>, 1, 1, NoBlockSig),
                  HostDispatch(<< "Any", "Any", "Any" >>, 3, 3, BlockSig(TRUE, TRUE, 0, 0)) >>)
    @@ ("e" :> << HostDispatch(<< "Integer" >>, 1, 1, BlockSig(TRUE, TRUE, 1, 1)) >>)
MCBlockShape ==
    ("g" :> CallBlock(TRUE, 2)) @@ ("h" :> CallBlock(TRUE, 0))
    @@ ("k" :> CallBlock(FALSE, 0)) @@ ("e" :> CallBlock(FALSE, 0))

(* Two regexes: r1, standing for /(a)b?/, and r2 for /b/, over the texts *)
(* "ab", "a" and "".  Match cr tests r1 against "ab", setting $0 "ab" and *)
(* $1 "a"; ca tests [r2, 1] against ["ab", 2]: r2 matches and sets its    *)
(* captures, then 1 and 2 differ and the match fails; cv, in class m's    *)
(* body, tests r1 against $1, which in a frame with no captures of its   *)
(* own is the caller's.                                                    *)
Text(t) == VM!Str(t)
AB == << "a", "b" >>
MCSearch ==
    [p \in {"r1", "r2"} |->
       [t \in {AB, << "a" >>, << >>} |->
          CASE p = "r1" /\ t # << >> -> [matched |-> TRUE, caps |-> << Text(t), Text(<< "a" >>) >>]
            [] p = "r2" /\ t = AB -> [matched |-> TRUE, caps |-> << Text(<< "b" >>) >>]
            [] OTHER -> [matched |-> FALSE, caps |-> << >>]]]
MCCases == {"cr", "ca", "cv"}
MCCaseOf ==
    ("cr" :> [pattern |-> VM!Re("r1"), subject |-> Text(AB)])
    @@ ("ca" :> [pattern |-> VM!Arr(<< VM!Re("r2"), VM!Num("Integer", 1) >>),
                 subject |-> VM!Arr(<< Text(AB), VM!Num("Integer", 2) >>)])
    @@ ("cv" :> [pattern |-> VM!Re("r1"), subject |-> VarRef(1)])

StmtLine(s) == Line("stmt", s)
MCLines ==
    { Line("open", FailStmt), Line("close", FailStmt), Line("bad", FailStmt),
      StmtLine(IncludeStmt("a")), StmtLine(IncludeStmt("r")),
      StmtLine(IncludeStmt("u")), StmtLine(DeclareStmt("b", "other")),
      StmtLine(TypeStmt("x")), StmtLine(TypeStmt("z")), StmtLine(FailStmt),
      StmtLine(CallStmt("g")), StmtLine(CallStmt("h")), StmtLine(CallStmt("k")),
      StmtLine(CallStmt("e")),
      StmtLine(MulStmt), StmtLine(MatchStmt("cr")), StmtLine(MatchStmt("ca")),
      StmtLine(IncludeStmt("m")) }
====
