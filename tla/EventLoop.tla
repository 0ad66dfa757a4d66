------------------------------- MODULE EventLoop -------------------------------
(***************************************************************************)
(* ContextWrapper::eval and resolve_value (src/bindings.rs): how the Rust  *)
(* wrapper waits for a promise by running the engine's jobs.               *)
(*                                                                         *)
(* A host call is an activation of eval.  It runs a script, and when the   *)
(* script's value is a promise it defines the global variables             *)
(* __promiseResult and __promiseValue, attaches two handlers that set      *)
(* them, and executes pending jobs until __promiseResult is a boolean.     *)
(* The two variables are shared by all activations.  A callback that has   *)
(* a reference to the Context may call eval again while a script or a job  *)
(* runs, so activations form a stack.                                      *)
(*                                                                         *)
(* Script code can interfere: the variables are globals that it may assign *)
(* to, and any object whose 'then' and 'catch' are objects passes for a    *)
(* promise, so that its 'then' is given the handlers and may keep them.    *)
(***************************************************************************)
EXTENDS PromiseMachine

CONSTANTS
  Lookalikes, \* the script's objects that is_promise takes for promises
  MaxEvals,   \* how many calls of eval are made in all
  MaxNesting, \* how many activations there are at once
  MaxFailures,\* how many jobs end with an exception
  Written,    \* what script code sets the two variables to
  MaxWrites   \* how often it does

ASSUME LookalikesAssumption ==
  Lookalikes \subseteq {v \in ScriptValues : v.kind \in {"plain", "thenable"}}
ASSUME WrittenAssumption ==
  Written \subseteq {"unset", "0", "true", "false"} \X ScriptValues
ASSUME EventLoopAssumption ==
  /\ MaxEvals \in Nat /\ MaxNesting \in Nat /\ MaxFailures \in Nat
  /\ MaxWrites \in Nat

VARIABLES
  context,          \* ContextWrapper.context: "ctx", or "NULL"
  __promiseResult,  \* the global variable: "unset", "0", "true" or "false"
  __promiseValue,   \* the global variable
  calls,            \* the activations, the innermost first
  returned,         \* what the last activation returned
  evals,            \* how many calls of eval there were
  failures,         \* how many jobs ended with an exception
  nested,           \* whether an eval was called inside another one
  writes,           \* how often script code set the two variables
  meddled           \* whether it did so during a wait, or got the handlers

globals == <<__promiseResult, __promiseValue>>
loopVars == <<context, __promiseResult, __promiseValue, calls, returned,
              evals, failures, nested, writes, meddled>>
allVars == <<vars, loopVars>>

(***************************************************************************)
(* An activation: in its script, in the 'then' and 'catch' of an object    *)
(* that passes for a promise ("attach"), in the loop before                *)
(* JS_ExecutePendingJob, in the job that this called, or lost in the use   *)
(* of a NULL context.                                                      *)
(* 'target' is the promise waited for (0: none); 'base' the depth of       *)
(* 'running' when the activation's own code is in control.                 *)
(***************************************************************************)
Call == [pc : {"script", "attach", "loop", "job", "null"}, target : Nat, base : Nat]

\* Result<JsValue, ExecutionError>, and the promise it is about (0: none).
Outcome == [tag : {"none", "ok", "exception", "internal", "out_of_memory"},
            value : Val, target : Nat]

NoOutcome == [tag |-> "none", value |-> Undefined, target |-> 0]

LoopTypeOK ==
  /\ TypeOK
  /\ context \in {"ctx", "NULL"}
  /\ __promiseResult \in {"unset", "0", "true", "false"}
  /\ __promiseValue \in ValOf(Len(promise))
  /\ calls \in Seq(Call)
  /\ returned \in Outcome
  /\ evals \in Nat
  /\ failures \in Nat
  /\ nested \in BOOLEAN
  /\ writes \in Nat
  /\ meddled \in BOOLEAN

LoopInit ==
  /\ Init
  /\ context = "ctx"
  /\ __promiseResult = "unset"
  /\ __promiseValue = Undefined
  /\ calls = <<>>
  /\ returned = NoOutcome
  /\ evals = 0
  /\ failures = 0
  /\ nested = FALSE
  /\ writes = 0
  /\ meddled = FALSE

-----------------------------------------------------------------------------

At(pc) == calls # <<>> /\ Head(calls).pc = pc

\* No code that the engine called is on the stack above the activation.
AtBase == Len(running) = Head(calls).base

\* Script code is executing: the activation's own, that of an object that
\* passes for a promise, or that of a job.
InScript == At("script") \/ At("attach") \/ (At("job") /\ ~AtBase)

SetCall(pc, target) ==
  calls' = <<[Head(calls) EXCEPT !.pc = pc, !.target = target]>> \o Tail(calls)

ReturnCall(tag, value) ==
  /\ calls' = Tail(calls)
  /\ returned' = [tag |-> tag, value |-> value, target |-> Head(calls).target]

\* A callback, or the program itself, calls eval: JS_Eval starts the script.
Eval ==
  /\ calls = <<>> \/ (InScript /\ Len(calls) < MaxNesting)
  /\ evals < MaxEvals
  /\ calls' = <<[pc |-> "script", target |-> 0, base |-> Len(running)]>> \o calls
  /\ evals' = evals + 1
  /\ returned' = NoOutcome
  /\ nested' = (nested \/ calls # <<>>)
  /\ UNCHANGED <<vars, context, globals, failures, writes, meddled>>

ScriptStep ==
  /\ InScript
  /\ \/ PromiseConstructor
     \/ CallResolvingFunction
     \/ Then
     \/ AsyncFunctionCall
     \/ ~AtBase /\ FrameEnds
  /\ UNCHANGED loopVars

\* JS_Eval returns JS_EXCEPTION; get_exception takes the exception.
ScriptThrows ==
  \E e \in Input :
    /\ At("script") /\ AtBase
    /\ ReturnCall("exception", e)
    /\ UNCHANGED <<vars, context, globals, evals, failures, nested, writes, meddled>>

(***************************************************************************)
(* Script code sets the two variables, by their names or by a call of a    *)
(* handler that it was given.  What it sets before resolve_value does is   *)
(* overwritten.                                                            *)
(***************************************************************************)
ScriptSetsVariables ==
  /\ InScript
  /\ writes < MaxWrites
  /\ \E w \in Written : __promiseResult' = w[1] /\ __promiseValue' = w[2]
  /\ writes' = writes + 1
  /\ meddled' = (meddled \/ ~At("script"))
  /\ UNCHANGED <<vars, context, calls, returned, evals, failures, nested>>

HostOk  == [kind |-> "ok", fn |-> 0]
HostErr == [kind |-> "err", fn |-> 0]

(***************************************************************************)
(* resolve_value on a value that is no exception.  A promise has 'then'    *)
(* and 'catch': the script in resolve_value resets the two variables and   *)
(* runs p.then(ok).catch(err).                                             *)
(***************************************************************************)
AttachHandlers(S, p) ==
  LET T == PromiseThen(S, p, [b \in 0..1 |-> IF b = 0 THEN HostOk ELSE None], FALSE)
  IN  PromiseThen(T, Len(T.promise),
                  [b \in 0..1 |-> IF b = 0 THEN None ELSE HostErr], FALSE)

\* OwnedObjectRef::is_promise: 'then' and 'catch' are objects.
IsPromise(v) == v.kind = "promise" \/ v \in Lookalikes

\* A lookalike's own 'then' and 'catch', or their getters, are what runs next.
ResolveValue(v) ==
  \/ /\ v.kind = "promise"
     /\ Become(AttachHandlers(Now, v.ref))
     /\ __promiseResult' = "0"
     /\ __promiseValue' = [kind |-> "plain", ref |-> 0]
     /\ SetCall("loop", v.ref)
     /\ UNCHANGED <<running, returned, meddled>>
  \/ /\ v \in Lookalikes
     /\ __promiseResult' = "0"
     /\ __promiseValue' = [kind |-> "plain", ref |-> 0]
     /\ SetCall("attach", Head(calls).target)
     /\ meddled' = TRUE
     /\ UNCHANGED <<vars, returned>>
  \/ /\ ~IsPromise(v)
     /\ ReturnCall("ok", v)
     /\ UNCHANGED <<vars, globals, meddled>>

ScriptReturns ==
  \E v \in Input :
    /\ At("script") /\ AtBase
    /\ ResolveValue(v)
    /\ UNCHANGED <<context, evals, failures, nested, writes>>

\* __resolvePromise returns from a lookalike, and the loop starts.
LookalikeReturns ==
  /\ At("attach") /\ AtBase
  /\ SetCall("loop", Head(calls).target)
  /\ UNCHANGED <<vars, context, globals, returned, evals, failures, nested, writes, meddled>>

\* The script code of a lookalike throws, or its 'then' is no function:
\* call_function fails with the exception.
LookalikeThrows ==
  \E e \in Input :
    /\ At("attach") /\ AtBase
    /\ ReturnCall("exception", e)
    /\ UNCHANGED <<vars, context, globals, evals, failures, nested, writes, meddled>>

\* JS_ExecutePendingJob on an empty queue stores NULL in self.context, which
\* the read of __promiseResult that follows then uses.
LoopFindsNoJob ==
  /\ At("loop")
  /\ job_list = <<>>
  /\ context' = "NULL"
  /\ SetCall("null", Head(calls).target)
  /\ UNCHANGED <<vars, globals, returned, evals, failures, nested, writes, meddled>>

LoopRunsJob ==
  /\ At("loop")
  /\ ExecutePendingJob
  /\ SetCall("job", Head(calls).target)
  /\ context' = "ctx"
  /\ UNCHANGED <<globals, returned, evals, failures, nested, writes, meddled>>

\* Mutants of LoopRunsHandler: both handlers set __promiseResult to true; the
\* handlers set no variable.
LoopRunsHandlerAlwaysOk ==
  /\ At("loop")
  /\ JobReady("reaction")
  /\ LET job == Head(job_list)
     IN  /\ job.rd.handler.kind \in {"ok", "err"}
         /\ __promiseResult' = "true"
         /\ __promiseValue' = job.arg
         /\ Become(ResolveFunctionCall(Dequeue, job.rd.fn, 0, Undefined))
  /\ SetCall("job", Head(calls).target)
  /\ context' = "ctx"
  /\ UNCHANGED <<running, returned, evals, failures, nested, writes, meddled>>

LoopIgnoresHandler ==
  /\ At("loop")
  /\ JobReady("reaction")
  /\ LET job == Head(job_list)
     IN  /\ job.rd.handler.kind \in {"ok", "err"}
         /\ Become(ResolveFunctionCall(Dequeue, job.rd.fn, 0, Undefined))
  /\ SetCall("job", Head(calls).target)
  /\ context' = "ctx"
  /\ UNCHANGED <<running, globals, returned, evals, failures, nested, writes, meddled>>

\* The job whose handler is one of the two functions of __resolvePromise.
LoopRunsHandler ==
  /\ At("loop")
  /\ JobReady("reaction")
  /\ LET job == Head(job_list)
     IN  /\ job.rd.handler.kind \in {"ok", "err"}
         /\ __promiseResult' = IF job.rd.handler.kind = "ok" THEN "true" ELSE "false"
         /\ __promiseValue' = job.arg
         /\ Become(ResolveFunctionCall(Dequeue, job.rd.fn, 0, Undefined))
  /\ SetCall("job", Head(calls).target)
  /\ context' = "ctx"
  /\ UNCHANGED <<running, returned, evals, failures, nested, writes, meddled>>

\* js_create_resolving_functions fails for want of memory in a thenable job:
\* the job is lost and the loop returns the exception.
LoopRunsFailingJob ==
  /\ At("loop")
  /\ JobReady("thenable")
  /\ failures < MaxFailures
  /\ failures' = failures + 1
  /\ Become(Dequeue)
  /\ context' = "ctx"
  /\ ReturnCall("out_of_memory", Undefined)
  /\ UNCHANGED <<running, globals, evals, nested, writes, meddled>>

\* Mutant of LoopReadsResult: one job is run, not jobs until the result is set.
LoopReadsResultOnce ==
  /\ At("job") /\ AtBase
  /\ ReturnCall("internal", Undefined)
  /\ UNCHANGED <<vars, context, globals, evals, failures, nested, writes, meddled>>

\* property() refuses a variable that is undefined.
LoopReadsResult ==
  /\ At("job") /\ AtBase
  /\ \/ /\ __promiseResult = "0"
        /\ SetCall("loop", Head(calls).target)
        /\ UNCHANGED <<vars, globals, returned, meddled>>
     \/ /\ \/ __promiseResult = "unset"
           \/ __promiseResult \in {"true", "false"} /\ __promiseValue = Undefined
        /\ ReturnCall("internal", Undefined)
        /\ UNCHANGED <<vars, globals, meddled>>
     \/ /\ __promiseResult = "true"
        /\ __promiseValue # Undefined
        /\ ResolveValue(__promiseValue)
     \/ /\ __promiseResult = "false"
        /\ __promiseValue # Undefined
        /\ ReturnCall("exception", __promiseValue)
        /\ UNCHANGED <<vars, globals, meddled>>
  /\ UNCHANGED <<context, evals, failures, nested, writes>>

LoopStep == LoopRunsJob \/ LoopRunsHandler \/ LoopReadsResult

LoopNext ==
  \/ Eval
  \/ ScriptStep
  \/ ScriptThrows
  \/ ScriptSetsVariables
  \/ ScriptReturns
  \/ LookalikeReturns
  \/ LookalikeThrows
  \/ LoopFindsNoJob
  \/ LoopRunsJob
  \/ LoopRunsHandler
  \/ LoopRunsFailingJob
  \/ LoopReadsResult

LoopSpec == LoopInit /\ [][LoopNext]_allVars

\* A handler that the engine called returns.
HandlerReturns == InScript /\ ~AtBase /\ Return /\ UNCHANGED loopVars

\* The loop of resolve_value spins by itself; script code that a job calls ends.
LoopFairSpec ==
  LoopSpec /\ WF_allVars(LoopStep) /\ WF_allVars(HandlerReturns)

-----------------------------------------------------------------------------
(* Properties                                                              *)

Settled(p) == p \in 1..Len(promise) /\ promise[p].state # "pending"

(***************************************************************************)
(* eval returns the outcome of its own promise: Ok with the value it was   *)
(* fulfilled with, Err(Exception) with the reason it was rejected for, and *)
(* Err(Internal) if the value or the reason is undefined.  All it goes by  *)
(* are two global variables and handlers run by jobs that other promises   *)
(* queue too.                                                              *)
(***************************************************************************)
EvalReturnsOutcome ==
  LET p == returned.target
  IN  p # 0 =>
        /\ returned.tag = "ok" =>
             promise[p].state = "fulfilled" /\ promise[p].result = returned.value
        /\ returned.tag = "exception" =>
             promise[p].state = "rejected" /\ promise[p].result = returned.value
        /\ returned.tag = "internal" =>
             promise[p].state # "pending" /\ promise[p].result = Undefined

\* No eval was nested in another, none gave up on a job that failed, and script
\* code neither set the two variables during a wait nor got the handlers.
Undisturbed == ~nested /\ failures = 0 /\ ~meddled

(***************************************************************************)
(* Calls of eval that are not nested, meet no failing job and wait for     *)
(* real promises only return the outcome of their own promises, one after  *)
(* the other.  Script code may set the variables before resolve_value      *)
(* does: it is harmless then.                                              *)
(***************************************************************************)
EvalReturnsOwnOutcome == Undisturbed => EvalReturnsOutcome

IsHostHandler(r) == r.handler.kind \in {"ok", "err"}

(***************************************************************************)
(* Between two calls of eval no handler of resolve_value is left anywhere  *)
(* in the engine: a handler that ran later would set the variables of the  *)
(* next call.                                                              *)
(***************************************************************************)
NoStaleHandler ==
  calls = <<>> /\ Undisturbed =>
    /\ \A i \in 1..Len(job_list) :
         ~IsHostHandler(job_list[i].rd)
    /\ \A p \in 1..Len(promise), b \in 0..1 :
         \A i \in 1..Len(promise[p].reactions[b]) :
           ~IsHostHandler(promise[p].reactions[b][i])

(***************************************************************************)
(* Once the promise that eval waits for is settled, eval returns, however  *)
(* many other jobs are queued and even if some of them queue new jobs for  *)
(* ever, unless one of them calls eval again or sets the variables.        *)
(***************************************************************************)
EvalFinishes ==
  (At("loop") /\ ~nested /\ ~meddled /\ Settled(Head(calls).target))
    ~> (calls = <<>> \/ nested \/ meddled)

(***************************************************************************)
(* Small instances.                                                        *)
(***************************************************************************)
WrittenSamples == {<<"true", Plain>>, <<"unset", Undefined>>}
(* An object that is no promise but whose `then' and `catch' are objects,  *)
(* so that the wrapper takes it for one.                                   *)
LookalikeSamples == {[kind |-> "plain", ref |-> 2]}
ScriptSamples == ValueSamples \cup LookalikeSamples

(***************************************************************************)
(* A bound: what follows a nested call or an interference, which all three *)
(* properties exclude, is explored in small states only.                   *)
(***************************************************************************)
SmallWhenDisturbed == nested \/ meddled => Len(func) <= 2

=============================================================================
