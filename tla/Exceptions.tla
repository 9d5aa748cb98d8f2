------------------------------ MODULE Exceptions ------------------------------
(***************************************************************************)
(* Exceptions on one thread: fpp_raise, fpp_reraise and the handler chain   *)
(* (runtime/fpprt-lang.c:531-561, runtime/fpprt-lang.h:275-326) under the   *)
(* code the compiler emits for try/with (src/Fpp.Compiler/Backend/CEmit.fs, *)
(* ETry), with the frames that the collector finds its roots in             *)
(* (runtime/fpprt.h:95-112).                                                *)
(*                                                                          *)
(* The C stack is a sequence of activations.  A pointer into it is an index *)
(* here: it dangles when the activation is gone, or is another one.         *)
(***************************************************************************)
EXTENDS Integers, Sequences

CONSTANTS
  Payloads,        \* what is raised
  MaxDepth,        \* bound: activations on the stack
  MaxMoves         \* bound: collections in a behaviour

Nothing == "nothing"
Garbage == "garbage"   \* what an address that was left behind refers to
NoAddress == 0

VARIABLES
  stack,           \* the activations: a call with its frame, the body of a try
                   \* with its handler, the clauses of a try that caught
                   \* something, before or after one of them has matched
  top,             \* fpprt_top_frame
  handlerTop,      \* fpp_handler_top_
  exn,             \* fpp_exn_: the object it was set to, and its address then
  address,         \* where the collector has put the exceptions
  ended            \* the program is over: "exit" or "abort", or "no"

excVars == <<stack, top, handlerTop, exn, address, ended>>

\* prev: a frame's or a handler's prev; frames: a handler's frame_top; ex: the
\* slot with the exception that was caught, which the collector keeps current;
\* sent: history, what was raised to get there
Activation(k, p, f, e, s) == [kind |-> k, prev |-> p, frames |-> f, ex |-> e, sent |-> s]

Depth == Len(stack)
Here == stack[Depth]
Running == ended = "no"
\* the program's own code runs anywhere but in a try whose clauses all failed
CanPush == Running /\ Depth < MaxDepth

ExcInit ==
  /\ stack = <<Activation("call", 0, 0, Nothing, Nothing)>>
  /\ top = 1
  /\ handlerTop = 0
  /\ exn = [obj |-> Nothing, at |-> NoAddress]
  /\ address = 1
  /\ ended = "no"

-------------------------------------------------------------------------------
\* FPPRT_FRAME
Call ==
  /\ CanPush
  /\ stack' = Append(stack, Activation("call", top, 0, Nothing, Nothing))
  /\ top' = Depth + 1
  /\ UNCHANGED <<handlerTop, exn, address, ended>>

\* FPPRT_LEAVE
Leave ==
  /\ Running /\ Here.kind = "call" /\ Depth > 1
  /\ top' = Here.prev
  /\ stack' = SubSeq(stack, 1, Depth - 1)
  /\ UNCHANGED <<handlerTop, exn, address, ended>>

\* fpp_handler_push_ and the first return of setjmp
Try ==
  /\ CanPush
  /\ stack' = Append(stack, Activation("body", handlerTop, top, Nothing, Nothing))
  /\ handlerTop' = Depth + 1
  /\ UNCHANGED <<top, exn, address, ended>>

\* the body is over: fpp_try_pop2, which looks whether it pops its own
EndBody ==
  /\ Running /\ Here.kind = "body"
  /\ IF handlerTop = Depth
     THEN /\ handlerTop' = Here.prev
          /\ stack' = SubSeq(stack, 1, Depth - 1)
          /\ UNCHANGED ended
     ELSE /\ ended' = "abort"
          /\ UNCHANGED <<stack, handlerTop>>
  /\ UNCHANGED <<top, exn, address>>

\* the object an address refers to
At(e) == IF e.at = address THEN e.obj ELSE Garbage

\* mutant: the frames of the calls that are left stay on the shadow stack
LandDeep(h, p, meant) ==
  /\ exn' = p
  /\ handlerTop' = stack[h].prev
  /\ top' = top
  /\ stack' = Append(SubSeq(stack, 1, h - 1),
                     Activation("guards", 0, 0, At(p), meant))

\* longjmp to the handler at h, which takes what fpp_exn_ refers to
Land(h, p, meant) ==
  /\ exn' = p
  /\ handlerTop' = stack[h].prev
  /\ top' = stack[h].frames
  /\ stack' = Append(SubSeq(stack, 1, h - 1),
                     Activation("guards", 0, 0, At(p), meant))

\* fpp_raise; meant, history: the exception that the program's text raises
RaiseTo(p, meant) ==
  /\ IF handlerTop = 0
     THEN ended' = "exit" /\ UNCHANGED <<stack, top, handlerTop, exn>>
     ELSE Land(handlerTop, p, meant) /\ UNCHANGED ended
  /\ UNCHANGED address

Raise(x) == Running /\ RaiseTo([obj |-> x, at |-> address], x)

\* a clause matches: its pattern, and its guard if it has one, which ran to
\* its end
Match ==
  /\ Running /\ Here.kind = "guards"
  /\ stack' = [stack EXCEPT ![Depth].kind = "handling"]
  /\ UNCHANGED <<top, handlerTop, exn, address, ended>>

\* no clause does: fpp_reraise
NoMatch ==
  /\ Running /\ Here.kind = "guards"
  /\ RaiseTo(exn, Here.ex)

\* the clause that matched is over
EndClause ==
  /\ Running /\ Here.kind = "handling"
  /\ stack' = SubSeq(stack, 1, Depth - 1)
  /\ UNCHANGED <<top, handlerTop, exn, address, ended>>

\* a collection, at an allocation or a poll of any of this: the exceptions
\* move, and the slots of frames with them; fpp_exn_ is not one of its roots
Collect ==
  /\ Running /\ address <= MaxMoves
  /\ address' = address + 1
  /\ UNCHANGED <<stack, top, handlerTop, exn, ended>>

ExcNext ==
  \/ Call \/ Leave \/ Try \/ EndBody
  \/ (\E x \in Payloads : Raise(x))
  \/ Match \/ NoMatch \/ EndClause \/ Collect

ExcSpec == ExcInit /\ [][ExcNext]_excVars

-------------------------------------------------------------------------------
(* Properties *)

\* the activations of kind k that a pointer at position i should see below it
Below(k, i) == {j \in 1 .. i - 1 : stack[j].kind = k}
Innermost(S) == IF S = {} THEN 0 ELSE CHOOSE j \in S : \A l \in S : l <= j

\* However calls, tries, raises, guards and handlers nest: the shadow stack is
\* the frames of the calls that are still active, innermost first, the handler
\* chain the tries whose bodies are, and no body ends on another's handler.
\* The collector would else read the slots of frames that are gone, and the
\* next raise would jump into one.
UnwoundToLive ==
  /\ top = Innermost(Below("call", Depth + 1))
  /\ handlerTop = Innermost(Below("body", Depth + 1))
  /\ \A i \in DOMAIN stack :
       /\ stack[i].kind = "call" => stack[i].prev = Innermost(Below("call", i))
       /\ stack[i].kind = "body" =>
            /\ stack[i].prev = Innermost(Below("body", i))
            /\ stack[i].frames = Innermost(Below("call", i))
  /\ ended # "abort"

\* A handler gets the exception that was raised; one whose clauses did not
\* match it goes on to the next handler.
CaughtIsRaised ==
  \A i \in DOMAIN stack :
    stack[i].kind \in {"guards", "handling"} => stack[i].ex = stack[i].sent
===============================================================================
