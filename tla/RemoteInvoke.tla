---------------------------- MODULE RemoteInvoke ----------------------------
(***************************************************************************)
(* The Invoke stream of a function the Ruby host described                 *)
(* (descriptor::dispatch(service, environment, id, context)), as the       *)
(* evaluator's side of it sees it: the call is written, then the loop      *)
(* reads one host message at a time.  A result ends the loop; an exception *)
(* is thrown at once; a yield runs the call's block and writes a           *)
(* continuation with its value, or with the evaluation exception it threw; *)
(* any other message or the end of the stream ends the loop.  After the    *)
(* loop, WritesDone and Finish: a failed status or no result is thrown.    *)
(*                                                                         *)
(* The host is not in this repository.  What it may send is spec 6: any    *)
(* of yield, result or exception after the call or after a continuation;   *)
(* the connection may be lost at any point, after which writes fail and    *)
(* reads end.  MaxYields bounds the yields of one call.                   *)
(*                                                                         *)
(* A stream is a record: the function called, the call stack size when    *)
(* context.yield is called for the block (base: the frames the block and  *)
(* what it calls push lie above it, and their scoped_stack_frame           *)
(* destructors pop them as an exception unwinds to the catch around the    *)
(* yield; stack_depth, read at the yield, holds the same number and only   *)
(* sizes the backtrace sent to the host, which is not modelled), whether   *)
(* the evaluator waits in Read or runs the block (phase), whether the      *)
(* connection still carries writes                                         *)
(* (live), and the yields the host sent and the continuations it got.      *)
(***************************************************************************)
EXTENDS Naturals

CONSTANT MaxYields

ASSUME MaxYields \in Nat

Stream(f, base, phase, live, yields, conts) ==
    [fn |-> f, base |-> base, phase |-> phase, live |-> live,
     yields |-> yields, conts |-> conts]

\* The request is built and written on a new stream; the loop then waits
\* in Read.
OpenStream(f) == Stream(f, 0, "wait", TRUE, 0, 0)

\* The host's next message: nothing but the end of the stream once the
\* connection is lost.  "empty" is a response with none of the three set.
Replies(s) ==
    IF s.live
    THEN {"result", "exception", "empty", "eos"}
           \cup (IF s.yields < MaxYields THEN {"yield"} ELSE {})
    ELSE {"eos"}

\* The status of stream->Finish(): a lost connection is UNAVAILABLE.
Statuses(s) == IF s.live THEN {TRUE, FALSE} ELSE {FALSE}

\* What dispatch does with a message: a result breaks the loop, and the
\* value is returned when Finish succeeds; an exception is thrown before
\* Finish; a yield is answered; an empty response or the end of the stream
\* breaks the loop with no result, which is thrown after Finish.
ReadOutcome(reply, ok) ==
    CASE reply = "yield" -> "yield"
      [] reply = "result" /\ ok -> "value"
      [] OTHER -> "throw"

\* A yield: the block is called with the call stack of size base.
Yielded(s, base) ==
    [s EXCEPT !.phase = "block", !.base = base, !.yields = @ + 1]

\* The continuation is written and the loop continues; on a lost
\* connection the write fails and dispatch throws.
Continued(s) == [s EXCEPT !.phase = "wait", !.conts = @ + 1]

\* The connection is lost.
Cut(s) == [s EXCEPT !.live = FALSE]

Streams(Fns, MaxDepth) ==
    [fn : Fns, base : 0..MaxDepth, phase : {"wait", "block"},
     live : BOOLEAN, yields : 0..MaxYields, conts : 0..MaxYields]
====
