--------------------------- MODULE ContextLifecycle ---------------------------
(***************************************************************************)
(* The life of a Context: ContextWrapper::new, set_console, add_callback,  *)
(* reset and drop (src/bindings.rs), with what they need of JSContext and  *)
(* JSRuntime (quickjs.c).  There is one wrapper at a time.                 *)
(*                                                                         *)
(* A context and its intrinsic objects refer to each other, so dropping    *)
(* the wrapper's reference never frees a context at once; the cycle        *)
(* collector does, when nothing outside the cycle refers into it.          *)
(***************************************************************************)
EXTENDS Integers, Sequences

CONSTANTS
  MaxContexts,  \* how many contexts a runtime gets
  MaxCallbacks, \* how many callbacks are added
  MaxJobs       \* how many jobs wait at a time

ASSUME LifeBoundsAssumption ==
  MaxContexts \in Nat \ {0} /\ MaxCallbacks \in Nat /\ MaxJobs \in Nat

VARIABLES
  wrapper,  \* whether the host has a ContextWrapper: "none", "new" or "live"
  life,     \* its fields and the runtime behind it
  failed    \* what went wrong since it was made: a history variable

vars == <<wrapper, life, failed>>

\* What goes wrong without an answer in the wrapper: the allocation of class_proto
\* in JS_NewContextRaw or of the context in reset, a callback's name that is no
\* C string, a reset while jobs wait, a loop that finds no job.
Unhandled == {"class_proto", "reset", "zero_name", "leftover_jobs", "empty_queue"}

NULL == 0

(***************************************************************************)
(* context is self.context.  Contexts are numbered in order of creation;   *)
(* 'refs' counts the references to a context from outside the heap.  A     *)
(* "dangling" one was given back to the allocator but is still on          *)
(* gc_obj_list.  Callback f is the function object func[f] and the boxed   *)
(* closure f, which lives as long as it is in 'callbacks'; 'lost' tells    *)
(* that a reference to the function object was never freed.  A job calls   *)
(* callback f, or none if f is 0.  'crash' is how the process died.        *)
(***************************************************************************)
Life ==
  [context : Nat,
   contexts : Seq([status : {"live", "freed", "dangling"}, refs : Int]),
   func : Seq([ctx : Nat, lost : BOOLEAN]),
   callbacks : SUBSET Nat,
   job_list : Seq([ctx : Nat, f : Nat]),
   crash : {"none", "assert", "bad_context", "stale_closure"}]

Contexts(W) == DOMAIN W.contexts
LiveIn(W, c) == c \in Contexts(W) /\ W.contexts[c].status = "live"

\* The fields of the wrapper and of the runtime have their types, and nothing
\* grows past its bound: every step that adds a context, a function or a job
\* leaves room for it first.
TypeOK == /\ wrapper \in {"none", "new", "live"}
          /\ life \in Life
          /\ failed \subseteq Unhandled
          /\ Len(life.contexts) <= MaxContexts
          /\ Len(life.func) <= MaxCallbacks + 1
          /\ Len(life.job_list) <= MaxJobs

-----------------------------------------------------------------------------
(* The engine's functions, as functions of the state W.                    *)

JS_NewContext(W) ==
  [W EXCEPT !.contexts = Append(@, [status |-> "live", refs |-> 1])]

\* JS_NewContextRaw when class_proto cannot be allocated: the context was
\* already added to gc_obj_list.
ClassProtoFails(W) ==
  [W EXCEPT !.contexts = Append(@, [status |-> "dangling", refs |-> 0])]

JS_FreeContext(W, c) ==
  IF LiveIn(W, c) THEN [W EXCEPT !.contexts[c].refs = @ - 1]
  ELSE [W EXCEPT !.crash = "bad_context"]

\* What keeps a context: its owner, the arguments of a waiting job, or a
\* function object that was never freed (its prototype belongs to the context).
Rooted(W, c) ==
  \/ W.contexts[c].refs > 0
  \/ \E i \in DOMAIN W.job_list : W.job_list[i].ctx = c
  \/ \E f \in DOMAIN W.func : W.func[f].lost /\ W.func[f].ctx = c

\* A count that is too low makes the assertion of gc_decref_child fail.
JS_RunGC(W) ==
  IF \E c \in Contexts(W) : LiveIn(W, c) /\ W.contexts[c].refs < 0
  THEN [W EXCEPT !.crash = "assert"]
  ELSE [W EXCEPT !.contexts =
          [c \in Contexts(W) |->
             IF LiveIn(W, c) /\ ~Rooted(W, c) THEN [@[c] EXCEPT !.status = "freed"]
             ELSE @[c]]]

\* The assertion of JS_FreeRuntime: gc_obj_list is empty.  'ub' tells whether
\* reading a dangling entry of the list crashes before that.
JS_FreeRuntime(W, ub) ==
  LET G == JS_RunGC([W EXCEPT !.job_list = <<>>])
  IN  IF G.crash # "none" THEN G
      ELSE IF \E c \in Contexts(G) : G.contexts[c].status # "freed"
      THEN [G EXCEPT !.crash =
              IF ub /\ \E c \in Contexts(G) : G.contexts[c].status = "dangling"
              THEN "bad_context" ELSE "assert"]
      ELSE G

\* ContextWrapper::drop.
DropWrapper(W, ub) ==
  LET F == JS_FreeContext(W, W.context)
  IN  IF F.crash # "none" THEN F ELSE JS_FreeRuntime(F, ub)

\* JS_NewCFunctionData after the closure was boxed and stored.
StoreClosure(W) == [W EXCEPT !.callbacks = @ \cup {Len(W.func) + 1}]
NewFunction(W, isLost) ==
  [StoreClosure(W) EXCEPT !.func = Append(@, [ctx |-> W.context, lost |-> isLost])]

\* The trampoline calls the closure behind a raw pointer.
CallClosure(W, f) ==
  IF f = 0 \/ f \in W.callbacks THEN W ELSE [W EXCEPT !.crash = "stale_closure"]

-----------------------------------------------------------------------------
Init == /\ wrapper = "none"
        /\ life = [context |-> NULL, contexts |-> <<>>, func |-> <<>>,
                   callbacks |-> {}, job_list |-> <<>>, crash |-> "none"]
        /\ failed = {}

Running == life.crash = "none"
Step(w, W, X) == wrapper' = w /\ life' = W /\ failed' = X
Goes(w, W) == Step(w, W, failed)
Room == Len(life.contexts) < MaxContexts

\* A new wrapper has a runtime, hence a job list and callbacks, of its own.
Fresh == [life EXCEPT !.context = NULL, !.func = <<>>, !.callbacks = {},
                      !.contexts = <<>>]

\* ContextWrapper::new.  Without memory for the runtime nothing is
\* made; without memory for the context the runtime is freed.
New == /\ Running /\ wrapper = "none"
       /\ \/ Step("new", [JS_NewContext(Fresh) EXCEPT !.context = 1], {})
          \/ UNCHANGED vars
          \/ \E ub \in BOOLEAN : Step("none", JS_FreeRuntime(Fresh, ub), {})
          \/ \E ub \in BOOLEAN :
               Step("none", JS_FreeRuntime(ClassProtoFails(Fresh), ub), {"class_proto"})

Dropped(W, ub) == [DropWrapper(W, ub) EXCEPT !.callbacks = {}]

\* The end of Context::new and ContextBuilder::build.  When set_console fails,
\* before or after the function object is made, the wrapper is dropped.
Build == /\ Running /\ wrapper = "new"
         /\ \/ Goes("live", life)
            \/ Goes("live", NewFunction(life, FALSE))
            \/ \E ub \in BOOLEAN, W \in {StoreClosure(life), NewFunction(life, FALSE)} :
                 Goes("none", Dropped(W, ub))

Uses(W) == IF LiveIn(life, life.context) THEN W
           ELSE [life EXCEPT !.crash = "bad_context"]

\* add_callback.  The closure is stored before the function object is made, and
\* stays when that fails.  JS_SetPropertyStr frees the function it cannot set,
\* but a name that is no C string ends set_property_raw before that call.
AddCallback ==
  /\ Running /\ wrapper = "live" /\ Len(life.func) < MaxCallbacks
  /\ \/ Goes("live", Uses(NewFunction(life, FALSE)))
     \/ Goes("live", Uses(StoreClosure(life)))
     \/ Step("live", Uses(NewFunction(life, TRUE)), failed \cup {"zero_name"})

\* Callbacks that scripts of the current context find in their global object.
InScope == {f \in DOMAIN life.func :
              life.func[f].ctx = life.context /\ ~life.func[f].lost}

\* eval, call_function: the script calls a callback or queues a job.
EvalCalls == /\ Running /\ wrapper = "live"
             /\ \E f \in InScope : Goes("live", Uses(CallClosure(life, f)))
EvalQueues ==
  /\ Running /\ wrapper = "live" /\ Len(life.job_list) < MaxJobs
  /\ \E f \in InScope \cup {0} :
       Goes("live", Uses([life EXCEPT !.job_list =
                            Append(@, [ctx |-> life.context, f |-> f])]))

\* resolve_value: the loop runs the first job.  JS_ExecutePendingJob stores the
\* context of the job in self.context; the script of the job may queue another.
RunJob ==
  /\ Running /\ wrapper = "live" /\ life.job_list # <<>>
  /\ LET job == Head(life.job_list)
         W == [life EXCEPT !.job_list = Tail(@), !.context = job.ctx]
     IN  \/ Goes("live", Uses(CallClosure(W, job.f)))
         \/ Goes("live", Uses([CallClosure(W, job.f) EXCEPT
                                 !.job_list = Append(@, [job EXCEPT !.f = 0])]))

\* The loop finds no job: self.context becomes NULL and is used at once.
RunNoJob ==
  /\ Running /\ wrapper = "live" /\ life.job_list = <<>>
  /\ Step("live", [life EXCEPT !.context = NULL, !.crash = "bad_context"],
          failed \cup {"empty_queue"})

\* The runtime, with its jobs, outlives a reset.
AfterReset == failed \cup (IF life.job_list = <<>> THEN {} ELSE {"leftover_jobs"})

ResetKeepsReference ==
  /\ Running /\ wrapper = "live" /\ Room
  /\ Step("live", [JS_NewContext([life EXCEPT !.callbacks = {}]) EXCEPT
                     !.context = Len(life.contexts) + 1], AfterReset)

ResetReusesContext ==
  /\ Running /\ wrapper = "live" /\ Room
  /\ Step("live", [life EXCEPT !.callbacks = {}], AfterReset)

\* ContextWrapper::reset.  When no context can be made the error drops self,
\* whose context has been given up already.
Reset ==
  /\ Running /\ wrapper = "live" /\ Room
  /\ LET F == JS_FreeContext(life, life.context)
         C == [F EXCEPT !.callbacks = {}]
     IN  IF F.crash # "none" THEN Step("none", F, AfterReset)
         ELSE \/ Step("live", [JS_NewContext(C) EXCEPT
                                 !.context = Len(life.contexts) + 1], AfterReset)
              \/ \E ub \in BOOLEAN :
                   Step("none", Dropped(C, ub), AfterReset \cup {"reset"})
              \/ \E ub \in BOOLEAN :
                   Step("none", Dropped(ClassProtoFails(C), ub),
                        AfterReset \cup {"reset", "class_proto"})

DropLeavesContext ==
  /\ Running /\ wrapper = "live"
  /\ \E ub \in BOOLEAN : Goes("none", [JS_FreeRuntime(life, ub) EXCEPT !.callbacks = {}])

\* The host drops the Context, with or without jobs waiting.
Drop == /\ Running /\ wrapper = "live"
        /\ \E ub \in BOOLEAN : Goes("none", Dropped(life, ub))

\* An allocation of a script triggers the collector.
CollectGarbage == /\ Running /\ wrapper = "live"
                  /\ Goes("live", Uses(JS_RunGC(life)))

Next == \/ New \/ Build \/ AddCallback \/ EvalCalls \/ EvalQueues \/ RunJob
        \/ RunNoJob \/ Reset \/ Drop \/ CollectGarbage

Spec == Init /\ [][Next]_vars

-----------------------------------------------------------------------------
(* What the wrapper must get right.  Each property names the failures it   *)
(* does not survive: all others, in any number and order, leave it true.   *)

Without(X) == failed \cap X = {}

\* self.context is the one context the wrapper has a reference to, and it is
\* alive, after any sequence of evals, callbacks, jobs and resets.
OwnsItsContext ==
  Without({"leftover_jobs"}) /\ wrapper # "none" /\ Running =>
    /\ LiveIn(life, life.context)
    /\ \A c \in Contexts(life) :
         life.contexts[c].refs = IF c = life.context THEN 1 ELSE 0

\* "only exists to ensure the lifetime of the closure" (bindings.rs:789): a
\* callback never runs a closure that 'callbacks' no longer keeps alive.
NoStaleClosure == life.crash # "stale_closure"

\* A callback runs no stale closure unless a Context is reset while jobs wait.
ClosuresOutliveCalls == Without({"leftover_jobs"}) => NoStaleClosure

\* The assertions of the collector and of JS_FreeRuntime hold: counts are not
\* too low, and nothing is left of a runtime when it is freed.
NoFailedAssertion ==
  Without({"class_proto", "reset", "zero_name", "leftover_jobs"}) =>
    life.crash # "assert"

\* No freed context, and no NULL, is passed to the engine.
NoBadContext ==
  Without({"class_proto", "leftover_jobs", "empty_queue"}) =>
    life.crash # "bad_context"

\* The engine's own checks never fail and it gets no bad context.
NothingCrashes == NoFailedAssertion /\ NoBadContext

\* After reset, evals run in the new context, never in one made before it.
ResetIsFinal ==
  Without({"leftover_jobs"}) /\ wrapper = "live" /\ Running =>
    life.context = Len(life.contexts)
=============================================================================
