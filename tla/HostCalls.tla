------------------------------ MODULE HostCalls ------------------------------
(***************************************************************************)
(* Context::call_function (src/lib.rs, src/bindings.rs) and the way back   *)
(* into Rust: a script that the host called calls a callback, through      *)
(* exec_callback and the closure of create_callback.  Each converts its    *)
(* arguments and its result with Marshal.  Promises are in EventLoop.      *)
(***************************************************************************)
EXTENDS Marshal

CONSTANTS
  MaxCalls,     \* how many calls the host makes
  MaxArgs,      \* how many arguments a call has at most
  MaxCallbackCalls, \* how many callbacks a script calls
  Arity         \* how many arguments the callback takes

ASSUME HostCallsAssumption ==
  MaxCalls \in Nat /\ MaxArgs \in Nat /\ MaxCallbackCalls \in Nat /\ Arity \in Nat

VARIABLES
  calls,     \* how many calls of each kind were made
  returned,  \* the last result of call_function
  thrown     \* how the last callback ended, for the script

hostVars == <<calls, returned, thrown>>
allVars == <<marshalVars, hostVars>>

(***************************************************************************)
(* A "host" frame is an activation of call_function: 'args' are the        *)
(* arguments still to serialize, 'qargs' the serialized ones, 'raw' the    *)
(* value that the function returned, 'key' its position among the          *)
(* arguments if it is one of them, and 'node' all arguments as an array.   *)
(* A "callback" frame is one of exec_callback: 'qargs' are the arguments   *)
(* still to read and 'args' those that were read.                          *)
(***************************************************************************)
Func == <<"func", 0>>
Idle == Reply("idle")
Script == Reply("script")
NoResult == [tag |-> "none", node |-> Leaf("null", ""), want |-> Leaf("null", ""),
             echo |-> FALSE]

HostInit ==
  /\ rt = [heap |-> ScriptHeap, owned |-> EmptyBag, exception |-> FALSE,
           crash |-> "none"]
  /\ stack = <<>>
  /\ ctl = Idle
  /\ missed = {}
  /\ calls = [host |-> 0, callback |-> 0]
  /\ returned = NoResult
  /\ thrown = "none"

\* Dropping a Vec<OwnedValueRef>.
DropAll(M, cells) == FoldLeft(free_value, M, cells)

-----------------------------------------------------------------------------
(* Context::call_function                                                  *)

CallFunction ==
  /\ ctl = Idle /\ calls.host < MaxCalls
  /\ \E args \in BoundedSeq(RustValues, MaxArgs) :
       Moves(rt, <<[Frame("host", 0, Container("array", args), {}) EXCEPT
                     !.args = args]>>, Loop)
  /\ calls' = [calls EXCEPT !.host = @ + 1]
  /\ UNCHANGED <<returned, thrown>>

At(fn, phase) == In(fn) /\ Top.phase = phase

SerializeArgument ==
  /\ At("host", "args") /\ ctl.op = "loop" /\ Top.args # <<>>
  /\ Moves(rt, Changed([Top EXCEPT !.args = Tail(@)]), Serialize(Head(Top.args)))
  /\ UNCHANGED hostVars

ArgumentReady ==
  /\ At("host", "args") /\ ctl.op = "ref"
  /\ Moves(rt, Changed([Top EXCEPT !.qargs = Append(@, ctl.cell)]), Loop)
  /\ UNCHANGED hostVars

CallEnds(M, tag, v) ==
  /\ Moves(M, Popped, Idle)
  /\ returned' = [tag |-> tag, node |-> v,
                  want |-> IF Top.key = 0 THEN Leaf("null", "") ELSE Top.node.items[Top.key],
                  echo |-> Top.key # 0]
  /\ thrown' = "none"
  /\ UNCHANGED calls

\* An argument has no JavaScript value, or its conversion panics: '?' and
\* unwinding drop the arguments made so far.
ArgumentFails ==
  /\ At("host", "args") /\ ctl.op \in {"error", "panic"}
  /\ CallEnds(DropAll(rt, Top.qargs), "error", Leaf("null", ""))

\* The global object and its property.  No property, a getter that throws, or
\* a property that is no object ends the call.
LookUp ==
  /\ At("host", "args") /\ ctl.op = "loop" /\ Top.args = <<>>
  /\ \/ /\ Moves(Take(Take(rt, Global), Func), Changed([Top EXCEPT !.phase = "call"]),
                Script)
        /\ UNCHANGED hostVars
     \/ \E M \in {rt, Throws(rt)} :
          CallEnds(DropAll(M, Top.qargs), "error", Leaf("null", ""))

InScript == At("host", "call") /\ ctl.op = "script"

\* The function returns an argument or a value of its own.  The arguments and
\* the function are freed when ContextWrapper::call_function returns.
ScriptReturns ==
  /\ InScript /\ thrown # "exception"
  /\ \/ \E i \in DOMAIN Top.qargs :
          LET c == Top.qargs[i]
          IN  Moves(Release(DropAll(Dup(rt, c), Top.qargs), Func),
                   Changed([Top EXCEPT !.phase = "result", !.raw = c, !.key = i]),
                   Deserialize(c))
     \/ \E c \in ScriptValues :
          Moves(Release(DropAll(Dup(rt, c), Top.qargs), Func),
               Changed([Top EXCEPT !.phase = "result", !.raw = c]), Deserialize(c))
  /\ UNCHANGED hostVars

\* JS_EXCEPTION: get_exception takes the exception and turns it into a string.
ScriptThrows ==
  /\ InScript
  /\ CallEnds(Release(Release(DropAll([rt EXCEPT !.exception = FALSE], Top.qargs), Func),
                      Global), "exception", Leaf("null", ""))

\* to_value, then the result and the global object are dropped.
CallReturns ==
  /\ At("host", "result") /\ ctl.op \in {"value", "error", "panic"}
  /\ CallEnds(Release(free_value(rt, Top.raw), Global),
              IF ctl.op = "value" THEN "ok" ELSE "error", ctl.node)

-----------------------------------------------------------------------------
(* exec_callback and the closure of create_callback                        *)

\* The script passes the values it has: they stay the engine's.
ScriptCallsBack ==
  /\ InScript /\ thrown # "exception" /\ calls.callback < MaxCallbackCalls
  /\ \E n \in 0..MaxArgs :
       \E cells \in [1..n -> ScriptValues \cup ToSet(Top.qargs)] :
         Calls(rt, [Frame("callback", 0, Leaf("null", ""), {}) EXCEPT !.qargs = cells])
  /\ calls' = [calls EXCEPT !.callback = @ + 1]
  /\ thrown' = "none"
  /\ UNCHANGED returned

DeserializeArgument ==
  /\ At("callback", "args") /\ ctl.op = "loop" /\ Top.qargs # <<>>
  /\ Moves(rt, Changed([Top EXCEPT !.qargs = Tail(@)]), Deserialize(Head(Top.qargs)))
  /\ UNCHANGED hostVars

ArgumentRead ==
  /\ At("callback", "args") /\ ctl.op = "value"
  /\ Moves(rt, Changed([Top EXCEPT !.args = Append(@, ctl.node)]), Loop)
  /\ UNCHANGED hostVars

\* Every way to fail ends in a string that is serialized to be thrown.
Reports == Moves(rt, Changed([Top EXCEPT !.phase = "throw"]),
                Serialize(Leaf("string", "plain")))

\* Arguments that cannot be read, a result that cannot be made, and panics of
\* either, which catch_unwind catches.
CallbackFails ==
  /\ At("callback", "args") \/ At("callback", "result")
  /\ ctl.op \in {"error", "panic"}
  /\ Reports
  /\ UNCHANGED hostVars

\* Callback::call: the wrong number of arguments, an argument of the wrong type,
\* an Err or a panic of the closure are reported; else the result is converted.
RunCallback ==
  /\ At("callback", "args") /\ ctl.op = "loop" /\ Top.qargs = <<>>
  /\ \/ /\ Len(Top.args) = Arity
        /\ \E v \in RustValues :
             Moves(rt, Changed([Top EXCEPT !.phase = "result"]), Serialize(v))
     \/ Reports
  /\ UNCHANGED hostVars

\* The engine gets the reference.
CallbackReturns ==
  /\ At("callback", "result") /\ ctl.op = "ref"
  /\ Moves(free_value(rt, ctl.cell), Popped, Script)
  /\ thrown' = IF rt.heap[ctl.cell].kind = "exception" THEN "exception" ELSE "returned"
  /\ UNCHANGED <<calls, returned>>

\* JS_Throw takes the reference, and the closure returns JS_EXCEPTION.
CallbackThrows ==
  /\ At("callback", "throw") /\ ctl.op = "ref"
  /\ Moves(Throws(free_value(rt, ctl.cell)), Popped, Script)
  /\ thrown' = "exception"
  /\ UNCHANGED <<calls, returned>>

\* unwrap panics where nothing catches it: the frames below are C.
CallbackAborts ==
  /\ At("callback", "throw") /\ ctl.op = "error"
  /\ Stays([rt EXCEPT !.crash = "abort"], Dead)
  /\ UNCHANGED hostVars

\* try ... catch in the script takes the exception.
ScriptCatches ==
  /\ InScript /\ thrown = "exception"
  /\ Stays([rt EXCEPT !.exception = FALSE], Script)
  /\ thrown' = "none"
  /\ UNCHANGED <<calls, returned>>

HostNext ==
  \/ Convert /\ UNCHANGED hostVars
  \/ CallFunction \/ SerializeArgument \/ ArgumentReady \/ ArgumentFails
  \/ LookUp \/ ScriptReturns \/ ScriptThrows \/ CallReturns
  \/ ScriptCallsBack \/ DeserializeArgument \/ ArgumentRead \/ RunCallback
  \/ CallbackFails \/ CallbackReturns \/ CallbackThrows \/ CallbackAborts
  \/ ScriptCatches

HostSpec == HostInit /\ [][HostNext]_allVars

\* Conversions run by themselves, and so do scripts, which end.
HostFairSpec == HostSpec /\ WF_allVars(HostNext)

-----------------------------------------------------------------------------
(* Properties                                                              *)

\* Control, frames and the engine's state have their types.
HostTypeOK ==
  /\ rt.exception \in BOOLEAN
  /\ rt.crash \in {"none", "double_free", "abort", "stack_overflow"}
  /\ IsABag(rt.owned)
  /\ Len(stack) <= MaxDepth
  /\ \A i \in DOMAIN stack :
       LET f == stack[i]
       IN  /\ f.fn \in {"host", "callback", "elements", "properties"} \cup Containers
           /\ f.fn = "host" => i = Len(stack)
           /\ f.fn = "callback" => i = Len(stack) - 1
           /\ f.raw \in 0..Len(rt.heap) /\ f.cell \in 0..Len(rt.heap)
           /\ f.phase = "result" /\ f.fn = "callback" => Len(f.args) = Arity
  /\ ctl.op \in {"idle", "script", "loop", "serialize", "deserialize", "ref", "value",
                 "error", "panic", "dead"}
  /\ ctl = Idle => stack = <<>>
  /\ missed \subseteq Unsupported
  /\ thrown \in {"none", "returned", "exception"}

Refs(cells) == LET counted == SelectSeq(cells, LAMBDA c : c # 0 /\ Counted(rt, c))
               IN  [i \in DOMAIN counted |-> Value(counted[i])]

\* The references that an activation frees when it ends.
HeldBy(f) ==
  CASE f.fn \in Containers -> Refs(<<f.cell>>)
    [] f.fn = "elements" -> Refs(<<f.raw>>)
    [] f.fn = "properties" -> Refs(<<f.raw>>) \o <<Names(f.cell)>>
    [] f.fn = "callback" -> <<>>
    [] f.fn = "host" /\ f.phase = "args" -> Refs(f.qargs)
    [] f.fn = "host" /\ f.phase = "call" -> Refs(f.qargs) \o <<Global, Func>>
    [] f.fn = "host" /\ f.phase = "result" -> Refs(<<f.raw>>) \o <<Global>>

(***************************************************************************)
(* Every reference that Rust code owns is owned by one activation, or by   *)
(* the value on its way between two, and none is owned twice: whichever    *)
(* calls of the engine fail, nothing leaks and nothing is freed twice.     *)
(* Excepted are the failures that leave a function too early.              *)
(***************************************************************************)
OwnershipExact ==
  missed \cap {"zero_key", "no_utf8", "builtin", "far_date"} = {} /\ ctl # Dead =>
    rt.owned = ToBag(FlattenSeq([i \in DOMAIN stack |-> HeldBy(stack[i])])
                       \o (IF ctl.op = "ref" THEN Refs(<<ctl.cell>>) ELSE <<>>))

(***************************************************************************)
(* No reference is freed that Rust code does not own, even after the       *)
(* failures that leak.                                                     *)
(***************************************************************************)
NoDoubleFree == rt.crash # "double_free"

\* The value v with all its dates cut to milliseconds.
RECURSIVE InMillis(_)
InMillis(v) ==
  IF v.kind = "date" THEN Leaf("date", timestamp_millis(v.text))
  ELSE [v EXCEPT !.items = [k \in DOMAIN @ |-> InMillis(@[k])]]

(***************************************************************************)
(* An argument that the function returns as it is comes back as the value  *)
(* that was passed, but for the part of a date below a millisecond: what   *)
(* serialize_value makes deserialize_value reads, at any depth.            *)
(***************************************************************************)
RoundTrip ==
  returned.tag = "ok" /\ returned.echo
    /\ missed \cap {"zero_text", "builtin", "bigint64"} = {} =>
      returned.node = InMillis(returned.want)

(***************************************************************************)
(* When a callback returns JS_EXCEPTION an exception is pending, whichever *)
(* of its conversions failed, so the script and get_exception find one.    *)
(***************************************************************************)
ExceptionIsPending == thrown = "exception" /\ ctl # Dead => rt.exception

(***************************************************************************)
(* A call returns, or the process dies: the loops of the conversions end   *)
(* whatever fails inside them.                                             *)
(***************************************************************************)
CallFinishes == (stack # <<>>) ~> (ctl = Idle \/ ctl = Dead)

(***************************************************************************)
(* Whichever conversion or call fails, nothing leaks, nothing is freed     *)
(* twice, and the exception is there for the script and the host.          *)
(***************************************************************************)
FailuresHandled == OwnershipExact /\ NoDoubleFree /\ ExceptionIsPending
=============================================================================
