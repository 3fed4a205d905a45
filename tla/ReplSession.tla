----------------------------- MODULE ReplSession -----------------------------
(***************************************************************************)
(* A REPL session (repl.cc) over one evaluation context: the input buffer, *)
(* the prompt's count and line, and the parts of context.cc that persist   *)
(* from one input to the next: the call stack and the match stack          *)
(* (scoped_stack_frame, match_scope), the declared classes and the class  *)
(* resources of the catalog (declare_class) and the resolved type aliases  *)
(* (resolve).  A statement may call a function the Ruby host described:  *)
(* the evaluator then talks to the host over an Invoke stream             *)
(* (RemoteInvoke) and runs the call's block for each yield; a call made   *)
(* in a block opens a stream of its own, so open streams form a stack.    *)
(*                                                                         *)
(* An input line is a record: an ordinary statement, a line that opens or *)
(* closes a block, or a line with a syntax error.  The parse of the       *)
(* buffer (import_source) is abstracted to the block depth of its lines:  *)
(* an unclosed block is a parse error at the end of the buffer.  The      *)
(* evaluator and class_evaluator are not in this repository: a statement  *)
(* is evaluated in the frame on top of the call stack, and a class body  *)
(* runs in a frame of its own, as spec 4.5 states.                         *)
(* A statement may also multiply two values computed at run time          *)
(* (Multiply); an overflow is an evaluation error like any other.         *)
(***************************************************************************)
EXTENDS Naturals, Sequences, SequencesExt, FiniteSets, RemoteInvoke, Multiply, Dispatch

CONSTANTS
    Classes,         \* class names the statements use
    Defined,         \* the classes find_class finds
    Body,            \* Body[c]: the statements of class c's body
    Stages,          \* stage names a resource-like class declaration gives
    Aliases,         \* type aliases
    AliasRef,        \* AliasRef[a]: the alias a's type names, or NoAlias
    AliasKind,       \* AliasKind[a]: "real", "unreal" or "invalid"
    NoAlias,
    Functions,       \* functions described by the Ruby host
    Dispatches,      \* Dispatches[f]: the dispatches the host described for f
    Block,           \* Block[f]: the statements of the block a call of f passes
    BlockShape,      \* BlockShape[f]: whether the call passes it, its parameters
    MaxArgs,         \* bound on the arguments of a call
    Cases,           \* the match expressions (case options, selectors, =~)
    CaseOf,          \* CaseOf[m]: the pattern and the subject of match m
    Search,          \* Search[p][s]: whether regex p matches text s, its captures
    Lines,           \* the input lines
    MaxStackDepth,   \* MAX_STACK_DEPTH
    MaxCount,        \* bound on the prompt's count
    MaxLine          \* bound on the prompt's line

ASSUME /\ Defined \subseteq Classes
       /\ NoAlias \notin Aliases
       /\ \A f \in Functions : Dispatches[f] # << >>
       /\ MaxArgs \in Nat
       /\ \A a \in Aliases : AliasKind[a] \in {"real", "unreal", "invalid"}
       /\ MaxStackDepth \in Nat /\ MaxCount \in Nat /\ MaxLine \in Nat

\* Statements: `include c`, `class { c: stage => s }`, a use of type alias
\* a, any statement that raises an evaluation error, the end of an
\* alias's type expression, and a match expression m.  NoStage: an include sets no stage attribute.
Stmt(op, name, stage) == [op |-> op, name |-> name, stage |-> stage]
NoStage == "none"
IncludeStmt(c) == Stmt("include", c, NoStage)
DeclareStmt(c, s) == Stmt("declare", c, s)
TypeStmt(a) == Stmt("type", a, NoStage)
FailStmt == Stmt("fail", "none", NoStage)
SettleStmt(a) == Stmt("settle", a, NoStage)
CallStmt(f) == Stmt("call", f, NoStage)
MulStmt == Stmt("mul", "none", NoStage)
MatchStmt(m) == Stmt("match", m, NoStage)

Line(kind, stmt) == [kind |-> kind, stmt |-> stmt]
Newline == Line("nl", FailStmt)

\* Stage[main] is created with the context (node::create_context).
MainStage == "main"

Frame(owner, rest) == [owner |-> owner, rest |-> rest]
ReplFrame == "<repl>"
BlockFrame == "<block>"

VM == INSTANCE Match

\* A match subject that is the match variable $n.
VarRef(n) == [kind |-> "VarRef", index |-> n]

VARIABLES
    buffer,       \* _buffer: the lines of the pending input
    count,        \* _count
    line,         \* _line
    pc,           \* "idle" between inputs, "eval" while one is evaluated
    callStack,    \* _call_stack: frames, each with its statements to run
    matchStack,   \* _match_stack: per scope, no captures or the captures set
    catalog,      \* the classes with a Class resource in the catalog
    contained,    \* the classes contained in a stage
    classes,      \* _classes: the declared classes
    resolved,     \* _resolved_type_aliases: alias -> "any", "real", "unreal"
    evaluated,    \* evaluated[n]: class bodies / alias types evaluated
    streams,      \* the open Invoke streams, the innermost last
    dispatched,   \* ghost: << >>, or the function, call and outcome of the
                  \* input's last function call
    product       \* ghost: << >>, or the operands and outcome of the
                  \* input's last multiplication

vars == <<buffer, count, line, pc, callStack, matchStack, catalog,
          contained, classes, resolved, evaluated, streams, dispatched, product>>


-----------------------------------------------------------------------------
(* import_source on the buffer: a line that closes no open block or has a *)
(* syntax error fails inside the buffer; an unclosed block fails at its   *)
(* end; otherwise the statements are those of its statement lines.        *)
Depth(buf) == FoldLeft(LAMBDA d, l : d + (CASE l.kind = "open" -> 1
                                           [] l.kind = "close" -> -1
                                           [] OTHER -> 0), 0, buf)

ParseFailsInside(buf) ==
    \/ \E i \in 1..Len(buf) : buf[i].kind = "bad"
    \/ \E i \in 1..Len(buf) : Depth(SubSeq(buf, 1, i)) < 0

ParseIncomplete(buf) == ~ParseFailsInside(buf) /\ Depth(buf) > 0

Statements(buf) ==
    LET isStmt(l) == l.kind = "stmt"
    IN [i \in 1..Len(SelectSeq(buf, isStmt)) |-> SelectSeq(buf, isStmt)[i].stmt]

\* repl::complete: a multiline input keeps the buffer and adds a newline;
\* otherwise the buffer is cleared and the count advances.
MutComplete(buf, multiline) ==    \* the buffer not cleared
    IF multiline
    THEN /\ buffer' = buf \o << Newline >>
         /\ line' = line + 1
         /\ UNCHANGED count
    ELSE /\ buffer' = buf
         /\ line' = 1
         /\ count' = count + 1

Complete(buf, multiline) ==
    IF multiline
    THEN /\ buffer' = buf \o << Newline >>
         /\ line' = line + 1
         /\ UNCHANGED count
    ELSE /\ buffer' = << >>
         /\ line' = 1
         /\ count' = count + 1

Top == callStack[Len(callStack)]
Current == Head(Top.rest)

\* The statement on top is consumed (the frame's rest advanced).
Consume == [callStack EXCEPT ![Len(callStack)].rest = Tail(@)]

-----------------------------------------------------------------------------
(* The match stack.  A scope holds no captures (a null pointer) or the    *)
(* captures context::set gave it; frame, a ghost, is the size of the call  *)
(* stack when they were set, the frame whose match set them.              *)
NoCaptures == [null |-> TRUE, caps |-> << >>, frame |-> 0]
Captures(c, f) == [null |-> FALSE, caps |-> c, frame |-> f]

MatchDepth == Len(matchStack)

\* The stack after an unwind to d scopes: those above d are destroyed.
Resize(ms, d) == [i \in 1..d |-> IF i <= Len(ms) THEN ms[i] ELSE NoCaptures]

-----------------------------------------------------------------------------
(* An exception thrown while the stack is `stack`, the match stack has    *)
(* `depth` scopes and the streams `open` are running their blocks.  The   *)
(* innermost one catches it (the catch around context.yield): as it       *)
(* unwinds, the scoped_stack_frame destructors of the frames pushed since *)
(* the yield pop each its call frame and its match scope, back to the     *)
(* stream's base, and the continuation with the exception is written;     *)
(* when that write fails, dispatch throws "connection lost" on to the     *)
(* next one out.  With no block running, repl::evaluate catches it, every *)
(* frame above '<repl>' destroyed.                                         *)
RECURSIVE Catch(_, _, _)

\* The catch without its continuation: the exception is swallowed and the
\* host is never answered.
MutCatch(stack, depth, open) ==
    IF open = << >>
    THEN [stack |-> << Frame(ReplFrame, << >>) >>, depth |-> depth - (Len(stack) - 1),
          open |-> << >>, caught |-> FALSE]
    ELSE LET s == Last(open)
             d == depth - (Len(stack) - s.base)
         IN IF s.live
            THEN [stack |-> SubSeq(stack, 1, s.base), depth |-> d, open |-> open, caught |-> TRUE]
            ELSE Catch(SubSeq(stack, 1, s.base), d, Front(open))

Catch(stack, depth, open) ==
    IF open = << >>
    THEN [stack |-> << Frame(ReplFrame, << >>) >>, depth |-> depth - (Len(stack) - 1),
          open |-> << >>, caught |-> FALSE]
    ELSE LET s == Last(open)
             d == depth - (Len(stack) - s.base)
         IN IF s.live
            THEN [stack |-> SubSeq(stack, 1, s.base), depth |-> d,
                  open |-> Front(open) \o << Continued(s) >>, caught |-> TRUE]
            ELSE Catch(SubSeq(stack, 1, s.base), d, Front(open))

\* The state after the catch; repl::evaluate completes the input.
Raised(r) ==
    /\ callStack' = r.stack
    /\ matchStack' = Resize(matchStack, r.depth)
    /\ streams' = r.open
    /\ IF r.caught THEN UNCHANGED <<buffer, count, line, pc>>
       ELSE pc' = "idle" /\ Complete(buffer, FALSE)

Unwind(depth) == Raised(Catch(callStack, depth, streams))

\* The match stack when scoped_stack_frame's depth check throws: the base
\* match_scope has pushed a scope, and its destructor pops it as the
\* exception leaves the derived constructor.
MutMatchDepthOnThrow == MatchDepth + 1

MatchDepthOnThrow == (MatchDepth + 1) - 1

\* scoped_stack_frame for `owner` over statements `body`, the caller's
\* frames being `stack`: a match scope, then the depth check on the size
\* before the push (FrameFits; otherwise the constructor throws), then the
\* push.
FrameFits == Len(callStack) <= MaxStackDepth

PushFrame(stack, owner, body) ==
    /\ callStack' = Append(stack, Frame(owner, body))
    /\ matchStack' = Append(matchStack, NoCaptures)

-----------------------------------------------------------------------------
(* context::declare_class(c), with the stage attribute `stage` a          *)
(* resource-like declaration sets: find_class; the Class resource found or *)
(* added; a class already in _classes is returned as is; otherwise it is  *)
(* inserted, the stage validated, the class contained in the stage and its *)
(* body evaluated in a new frame.                                          *)
DeclareSteps(c, stage, declared) ==
    LET st == IF stage = NoStage THEN MainStage ELSE stage
    IN CASE c \notin Defined ->
              /\ Unwind(MatchDepth)
              /\ UNCHANGED <<catalog, contained, classes, resolved, evaluated>>
         [] c \in declared ->
              /\ catalog' = catalog \cup {c}
              /\ callStack' = Consume
              /\ UNCHANGED <<buffer, count, line, pc, streams, matchStack, contained,
                             classes, resolved, evaluated>>
         [] st \notin {MainStage} ->
              /\ catalog' = catalog \cup {c}
              /\ classes' = classes \cup {c}
              /\ Unwind(MatchDepth)
              /\ UNCHANGED <<contained, resolved, evaluated>>
         [] ~FrameFits ->
              /\ catalog' = catalog \cup {c}
              /\ classes' = classes \cup {c}
              /\ contained' = contained \cup {c}
              /\ Unwind(MatchDepthOnThrow)
              /\ UNCHANGED <<resolved, evaluated>>
         [] OTHER ->
              /\ catalog' = catalog \cup {c}
              /\ classes' = classes \cup {c}
              /\ contained' = contained \cup {c}
              /\ PushFrame(Consume, c, Body[c])
              /\ evaluated' = [evaluated EXCEPT ![c] = @ + 1]
              /\ UNCHANGED <<buffer, count, line, pc, streams, resolved>>

\* A declaration without the _classes check.
MutDeclareClass(c, stage) == DeclareSteps(c, stage, {})

DeclareClass(c, stage) == DeclareSteps(c, stage, classes)

(* context::resolve(a): a cached alias is returned; otherwise a frame is  *)
(* pushed, the alias cached as Any, and its type expression created,       *)
(* which resolves the alias it names.  Settle is the rest of resolve      *)
(* after type::create: an invalid expression throws, leaving Any cached;  *)
(* otherwise the type replaces Any, and a type that is not real throws.   *)
Resolve(a) ==
    CASE a \in DOMAIN resolved ->
           /\ callStack' = Consume
           /\ UNCHANGED <<buffer, count, line, pc, streams, matchStack, catalog,
                          contained, classes, resolved, evaluated>>
      [] ~FrameFits ->
           /\ Unwind(MatchDepthOnThrow)
           /\ UNCHANGED <<catalog, contained, classes, resolved, evaluated>>
      [] OTHER ->
           /\ PushFrame(Consume, a,
                 (IF AliasRef[a] = NoAlias THEN << >> ELSE << TypeStmt(AliasRef[a]) >>)
                 \o << SettleStmt(a) >>)
           /\ resolved' = resolved @@ (a :> "any")
           /\ evaluated' = [evaluated EXCEPT ![a] = @ + 1]
           /\ UNCHANGED <<buffer, count, line, pc, streams, catalog, contained, classes>>

SettleAlias(a) ==
    CASE AliasKind[a] = "invalid" ->
           /\ Unwind(MatchDepth)
           /\ UNCHANGED <<catalog, contained, classes, resolved, evaluated>>
      [] AliasKind[a] = "unreal" ->
           /\ resolved' = [resolved EXCEPT ![a] = "unreal"]
           /\ Unwind(MatchDepth)
           /\ UNCHANGED <<catalog, contained, classes, evaluated>>
      [] OTHER ->
           /\ resolved' = [resolved EXCEPT ![a] = "real"]
           /\ callStack' = Consume
           /\ UNCHANGED <<buffer, count, line, pc, streams, matchStack, catalog,
                          contained, classes, evaluated>>
-----------------------------------------------------------------------------
Init ==
    /\ buffer = << >>
    /\ count = 1
    /\ line = 1
    /\ pc = "idle"
    /\ callStack = << Frame(ReplFrame, << >>) >>   \* the '<repl>' frame
    /\ matchStack = << NoCaptures >>
    /\ catalog = {}
    /\ contained = {}
    /\ classes = {}
    /\ resolved = << >>
    /\ evaluated = [n \in Classes \cup Aliases |-> 0]
    /\ streams = << >>
    /\ dispatched = << >>
    /\ product = << >>

\* repl::evaluate on an empty line: multiline when the buffer is not empty.
ReplEmpty ==
    /\ pc = "idle"
    /\ count < MaxCount /\ line < MaxLine
    /\ Complete(buffer, buffer # << >>)
    /\ UNCHANGED <<pc, streams, callStack, matchStack, catalog, contained, classes,
                   resolved, evaluated>>

\* repl::evaluate(l): the line is appended and the buffer parsed; a parse
\* error at the end of the buffer asks for more lines, one inside it is
\* the input's result, and a parsed buffer is evaluated statement by
\* statement in the '<repl>' frame.
ReplInput(l) ==
    /\ pc = "idle"
    /\ count < MaxCount /\ line < MaxLine
    /\ LET buf == buffer \o << l >>
       IN IF ParseFailsInside(buf) \/ ParseIncomplete(buf)
          THEN /\ Complete(buf, ParseIncomplete(buf))
               /\ UNCHANGED <<pc, callStack>>
          ELSE /\ buffer' = buf
               /\ pc' = "eval"
               /\ callStack' = << Frame(ReplFrame, Statements(buf)) >>
               /\ UNCHANGED <<count, line>>
    /\ product' = << >> /\ dispatched' = << >>
    /\ UNCHANGED <<streams, matchStack, catalog, contained, classes, resolved, evaluated>>

\* The evaluator runs statements unless it waits in the Read of a stream.
MutClientFree == streams = << >>

ClientFree == IF streams = << >> THEN TRUE ELSE Last(streams).phase = "block"

Evaluating(op) == pc = "eval" /\ ClientFree /\ Top.rest # << >> /\ Current.op = op

\* The frame on top is the block of the innermost stream.
AtBlockEnd ==
    /\ streams # << >> /\ Last(streams).phase = "block"
    /\ Len(callStack) = Last(streams).base + 1

Include == Evaluating("include") /\ DeclareClass(Current.name, NoStage)

ResourceLikeClass == Evaluating("declare") /\ DeclareClass(Current.name, Current.stage)

UseTypeAlias == Evaluating("type") /\ Resolve(Current.name)

EndTypeExpression == Evaluating("settle") /\ SettleAlias(Current.name)

Raise ==
    /\ Evaluating("fail")
    /\ Unwind(MatchDepth)
    /\ UNCHANGED <<catalog, contained, classes, resolved, evaluated>>

MutReturn ==   \* the frame popped without the check that one is above '<repl>'
    /\ pc = "eval" /\ Top.rest = << >>
    /\ callStack' = Front(callStack)
    /\ matchStack' = Front(matchStack)
    /\ UNCHANGED <<buffer, count, line, pc, streams, catalog, contained, classes,
                   resolved, evaluated>>

\* A class body or an alias resolution ends: ~scoped_stack_frame pops the
\* call frame, then ~match_scope the match scope.
Return ==
    /\ pc = "eval" /\ Len(callStack) > 1 /\ Top.rest = << >> /\ ~AtBlockEnd
    /\ callStack' = Front(callStack)
    /\ matchStack' = Front(matchStack)
    /\ UNCHANGED <<buffer, count, line, pc, streams, catalog, contained, classes,
                   resolved, evaluated>>

-----------------------------------------------------------------------------
(* descriptor::dispatch on a call of f: the first dispatch whose signature *)
(* accepts the arguments is taken, or the reason none does is thrown      *)
(* (check_argument_count, check_block_parameters, check_parameter_types,  *)
(* the generic error); a described function omits its frame.  The stream *)
(* is opened and the call written; a failed write throws.  The arguments  *)
(* are any values of up to MaxArgs, of the types ArgTypes.                 *)
HostSignatures(f) == [i \in DOMAIN Dispatches[f] |-> Signature(Dispatches[f][i])]

\* Every call a statement may make, with dispatch's outcome.
Calls ==
    {[fn |-> f, call |-> Call(args, BlockShape[f]),
      outcome |-> Dispatch(HostSignatures(f), Call(args, BlockShape[f]))] :
        f \in Functions, args \in BoundedSeq(ArgTypes, MaxArgs)}

CallFunction ==
    /\ Evaluating("call")
    /\ \E m \in Calls :
         LET f == Current.name
             d == m.outcome
         IN /\ m.fn = f
            /\ dispatched' = << m >>
            /\ \/ /\ d.kind = "dispatched"
                  /\ streams' = Append(streams, OpenStream(f))
                  /\ UNCHANGED <<buffer, count, line, pc, callStack, matchStack, catalog,
                                 contained, classes, resolved, evaluated>>
               \/ /\ Unwind(MatchDepth)
                  /\ UNCHANGED <<catalog, contained, classes, resolved, evaluated>>

(* A yield: context.yield runs the block in a frame of its own (spec 4.5: *)
(* each call pushes a frame), whose depth                                  *)
(* check may throw before the block runs; that exception is caught by the *)
(* yield like any other from the block.                                    *)
YieldBlock(s) ==
    LET y == Yielded(s, Len(callStack))
    IN IF FrameFits
       THEN /\ PushFrame(callStack, BlockFrame, Block[s.fn])
            /\ streams' = Front(streams) \o << y >>
            /\ UNCHANGED <<buffer, count, line, pc, catalog, contained, classes,
                           resolved, evaluated>>
       ELSE /\ Raised(Catch(callStack, MatchDepthOnThrow, Front(streams) \o << y >>))
            /\ UNCHANGED <<catalog, contained, classes, resolved, evaluated>>

(* One pass of dispatch's Read loop on the innermost stream: a result     *)
(* with a good Finish is the call's value and the statement is done; a    *)
(* yield runs the block; everything else throws, and the stream is gone.  *)
Respond ==
    /\ pc = "eval" /\ streams # << >> /\ Last(streams).phase = "wait"
    /\ LET s == Last(streams)
       IN \E reply \in Replies(s), ok \in Statuses(s) :
            CASE ReadOutcome(reply, ok) = "value" ->
                   /\ streams' = Front(streams)
                   /\ callStack' = Consume
                   /\ UNCHANGED <<buffer, count, line, pc, matchStack, catalog,
                                  contained, classes, resolved, evaluated>>
              [] ReadOutcome(reply, ok) = "throw" ->
                   /\ Raised(Catch(callStack, MatchDepth, Front(streams)))
                   /\ UNCHANGED <<catalog, contained, classes, resolved, evaluated>>
              [] OTHER -> YieldBlock(s)

(* The block has run: its frame is destroyed as context.yield returns,    *)
(* and the continuation with its value is written; a failed write throws  *)
(* "connection lost" to the next catch out.                              *)
BlockReturn ==
    /\ pc = "eval" /\ AtBlockEnd /\ Top.rest = << >>
    /\ LET s == Last(streams)
       IN IF s.live
          THEN /\ callStack' = Front(callStack)
               /\ matchStack' = Front(matchStack)
               /\ streams' = Front(streams) \o << Continued(s) >>
               /\ UNCHANGED <<buffer, count, line, pc, catalog, contained, classes,
                              resolved, evaluated>>
          ELSE /\ Raised(Catch(Front(callStack), MatchDepth - 1, Front(streams)))
               /\ UNCHANGED <<catalog, contained, classes, resolved, evaluated>>

(* binary_expression `l * r` with operand values l and r: multiply's      *)
(* result is the statement's value; its evaluation_exception unwinds.     *)
Multiplication ==
    /\ Evaluating("mul")
    /\ \E l, r \in Operands :
         LET o == Multiply(l, r)
         IN /\ product' = << [l |-> l, r |-> r, outcome |-> o] >>
            /\ IF o.kind = "value"
               THEN /\ callStack' = Consume
                    /\ UNCHANGED <<buffer, count, line, pc, streams, matchStack,
                                   catalog, contained, classes, resolved, evaluated>>
               ELSE /\ Unwind(MatchDepth)
                    /\ UNCHANGED <<catalog, contained, classes, resolved, evaluated>>

-----------------------------------------------------------------------------
(* context::set(captures): with no match scope nothing is set; the top    *)
(* scope, given a new vector when it has none (or when a closure shares   *)
(* it: closures are not modelled, so a vector is never shared), is        *)
(* cleared and takes the captures.                                         *)
\* set writing the scope that lookup reads: the topmost with captures.
MutSet(ms, caps) ==
    LET set == {i \in DOMAIN ms : ~ms[i].null}
        at == IF set = {} THEN Len(ms) ELSE Max(set)
    IN IF ms = << >> THEN ms ELSE [ms EXCEPT ![at] = Captures(caps, Len(callStack))]

Set(ms, caps) ==
    IF ms = << >> THEN ms ELSE [ms EXCEPT ![Len(ms)] = Captures(caps, Len(callStack))]

(* context::lookup(index): the captures of the topmost scope that has     *)
(* any; past their end, or with none on the stack, nothing (undef).       *)
Lookup(ms, n) ==
    LET set == {i \in DOMAIN ms : ~ms[i].null}
    IN IF set = {} THEN VM!UndefV
       ELSE LET c == ms[Max(set)].caps IN IF n >= Len(c) THEN VM!UndefV ELSE c[n + 1]

Subject(x) == IF x.kind = "VarRef" THEN Lookup(matchStack, x.index) ELSE x

(* A match expression: value::match of its pattern against its subject,   *)
(* every regex that matches on the way calling set, in order; a failed    *)
(* match keeps what the regexes before the failure set.                   *)
MatchExpr ==
    /\ Evaluating("match")
    /\ LET c == CaseOf[Current.name]
           r == VM!ValueMatch(c.pattern, Subject(c.subject), Search)
       IN matchStack' = FoldLeft(Set, matchStack, r.sets)
    /\ callStack' = Consume
    /\ UNCHANGED <<buffer, count, line, pc, streams, catalog, contained, classes,
                   resolved, evaluated>>

\* The connection of an open stream is lost.
LoseConnection ==
    /\ pc = "eval"
    /\ \E i \in 1..Len(streams) :
         /\ streams[i].live
         /\ streams' = [streams EXCEPT ![i] = Cut(@)]
    /\ UNCHANGED <<buffer, count, line, pc, callStack, matchStack, catalog,
                   contained, classes, resolved, evaluated>>

\* The last statement of the input has been evaluated: the result is
\* returned and the helper completes the input.
Finish ==
    /\ pc = "eval" /\ Len(callStack) = 1 /\ Top.rest = << >>
    /\ pc' = "idle"
    /\ Complete(buffer, FALSE)
    /\ UNCHANGED <<streams, callStack, matchStack, catalog, contained, classes,
                   resolved, evaluated>>

\* The steps of one evaluation: repl::evaluate runs them on one thread,
\* and the host answers every Read (a Read has no deadline).
Evaluate ==
    \/ /\ \/ Include \/ ResourceLikeClass \/ UseTypeAlias \/ EndTypeExpression
          \/ Raise \/ Return \/ Finish \/ Respond \/ BlockReturn \/ MatchExpr
       /\ UNCHANGED <<dispatched, product>>
    \/ CallFunction /\ UNCHANGED product
    \/ Multiplication /\ UNCHANGED dispatched

Next ==
    \/ (ReplEmpty \/ LoseConnection) /\ UNCHANGED <<dispatched, product>>
    \/ \E l \in Lines : ReplInput(l)
    \/ Evaluate

Spec == Init /\ [][Next]_vars

FairSpec == Spec /\ WF_vars(Evaluate)
-----------------------------------------------------------------------------
CaptureSets == UNION {{Search[p][t].caps : t \in DOMAIN Search[p]} : p \in DOMAIN Search}

TypeOK ==
    /\ buffer \in Seq(Lines \cup {Newline})
    /\ count \in 1..MaxCount /\ line \in 1..MaxLine
    /\ pc \in {"idle", "eval"}
    /\ callStack # << >>
    /\ \A i \in 1..Len(callStack) : callStack[i].owner \in {ReplFrame, BlockFrame} \cup Classes \cup Aliases
    /\ \A i \in DOMAIN matchStack :
          matchStack[i] = NoCaptures \/ matchStack[i] \in [null : {FALSE}, caps : CaptureSets, frame : Nat]
    /\ catalog \subseteq Classes /\ contained \subseteq Classes /\ classes \subseteq Classes
    /\ DOMAIN resolved \subseteq Aliases
    /\ \A a \in DOMAIN resolved : resolved[a] \in {"any", "real", "unreal"}
    /\ evaluated \in [Classes \cup Aliases -> Nat]
    /\ streams \in Seq(Streams(Functions, MaxStackDepth + 1))
    /\ ToSet(dispatched) \subseteq Calls /\ Len(dispatched) <= 1
    /\ product \in {<< >>} \cup {<< m >> : m \in [l : Operands, r : Operands, outcome : Outcomes]}

(* Spec 4.5, "error paths always unwind frames": the match stack and the  *)
(* call stack grow and shrink together, one match scope per frame, also   *)
(* when scoped_stack_frame's depth check throws after match_scope has     *)
(* pushed, when a class body or a type expression throws several frames   *)
(* deep, and from one REPL input to the next.                              *)
MatchScopesBalanced == MatchDepth = Len(callStack)

(* Spec 4.5, match-group scopes: the captures on the match stack were set *)
(* by a match of the frame each scope belongs to.  A match in a class     *)
(* body, a type expression or a block never changes its callers'         *)
(* captures, even when it reads them as $n; a frame's captures go with it *)
(* when it returns or unwinds, so no frame sees those of one that has     *)
(* returned, through failed inputs and nested calls.                      *)
CapturesOwned ==
    \A i \in DOMAIN matchStack : ~matchStack[i].null => matchStack[i].frame = i

(* Spec 4.5, "declaring a class is idempotent", and the alias cache: in   *)
(* the whole session each class body and each alias's type expression is  *)
(* evaluated at most once, through recursive includes, cyclic aliases and *)
(* inputs that failed halfway.                                             *)
BodiesEvaluatedOnce == \A n \in Classes \cup Aliases : evaluated[n] <= 1

(* repl.cc: the prompt's line is one more than the newlines in the buffer, *)
(* and between inputs the buffer holds only an input still waiting for    *)
(* its end, so no input is evaluated twice by a later parse of the buffer. *)
ReplBufferConsistent ==
    /\ line = 1 + Cardinality({i \in 1..Len(buffer) : buffer[i] = Newline})
    /\ pc = "idle" => buffer = << >> \/ ParseIncomplete(buffer)

(* Spec 8: every declared class has its Class resource in the catalog and *)
(* is contained by a stage, after every REPL input.                       *)
DeclaredClassesContained ==
    pc = "idle" => classes \subseteq catalog \cap contained
(* descriptor::dispatch and the catch around context.yield: the open    *)
(* Invoke streams and the call stack agree.  Every stream but the         *)
(* innermost is running its block; the block frames on the call stack are *)
(* exactly those just above the base of a stream running a block, also   *)
(* after catches that unwind nested calls and blocks;                   *)
(* the host has had a continuation for every yield but the one whose      *)
(* block is running; and no stream is left open once the input is done,   *)
(* through blocks that throw, nested calls and lost connections.          *)
InvokeStreamsNested ==
    /\ pc = "idle" => streams = << >>
    /\ \A i \in 1..Len(streams) :
         /\ i < Len(streams) => streams[i].phase = "block"
         /\ streams[i].yields = streams[i].conts + (IF streams[i].phase = "block" THEN 1 ELSE 0)
    /\ {k \in 1..Len(callStack) : callStack[k].owner = BlockFrame}
         = {streams[i].base + 1 : i \in {j \in 1..Len(streams) : streams[j].phase = "block"}}

(* Every REPL input that is evaluated ends, with its value or an error:   *)
(* the evaluator never waits forever on a frame, a block or a stream,     *)
(* given that the Ruby host answers every Read.                           *)
InputsEnd == pc = "eval" ~> pc = "idle"

(* multiply.cc: the product of two Integers is the exact product whenever *)
(* that is an int64_t, and otherwise the evaluation fails with "arithmetic *)
(* overflow" above the range and "arithmetic underflow" below it, at every *)
(* boundary of the checks that divide the limits by the right operand     *)
(* (truncating toward zero, negative operands, -1 and MIN).               *)
MultiplyChecked ==
    \A m \in ToSet(product) : m.outcome = RefMultiply(m.l, m.r)

(* descriptor.cc dispatch: a call of a described function goes to the     *)
(* first dispatch that accepts its arguments and block, and an error only *)
(* when none does; the error's claim (the argument count, the block, the  *)
(* block's parameter count, or an argument's type, checked in that order) *)
(* holds of the dispatches the host described, whose maxima below zero    *)
(* mean no maximum, except for the two shapes of call check_block_        *)
(* parameters misreports (Misdiagnosed).                                   *)
DispatchDiagnosed ==
    \A m \in ToSet(dispatched) :
        LET os == HostSignatures(m.fn)
        IN ~Misdiagnosed(os, m.call, m.outcome) => DiagnosisSound(os, m.call, m.outcome)
====
