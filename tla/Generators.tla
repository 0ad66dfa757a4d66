------------------------------ MODULE Generators ------------------------------
(***************************************************************************)
(* Generator objects: js_generator_next and what it calls, in quickjs.c.   *)
(*                                                                         *)
(* One generator and the script code around it.  The body of the generator *)
(* and the iterator that a yield* delegates to are script code: they do    *)
(* what they like, and may call next(), return() or throw() of the         *)
(* generator again while they run.                                         *)
(***************************************************************************)
EXTENDS Naturals, Sequences

CONSTANT MaxDepth  \* how deep calls of the generator's methods nest

Magic == {"next", "return", "throw"}  \* GEN_MAGIC_x

VARIABLES
  gstate,     \* JSGeneratorData.state
  delegate,   \* the yield* whose iterator is on the stack of the body; 0: none
  calls,      \* the calls of js_generator_next in progress
  answers,    \* what the last call that returned gave to its caller
  reentered,  \* whether the delegate's iterator called the generator again
  gfailed     \* a stack was used that was freed or belongs to something else

gvars == <<gstate, delegate, calls, answers, reentered, gfailed>>

(***************************************************************************)
(* A call in progress waits for the body ("body"), or for a method of the  *)
(* iterator that the generator delegates to ("method"), or for that        *)
(* iterator to be closed because it has no 'throw' ("close").  'of' is the *)
(* yield* in question.                                                     *)
(***************************************************************************)
Call == [waits : {"body", "method", "close"}, magic : Magic, of : Nat]

GenTypeOK ==
  /\ gstate \in {"start", "yield", "yield_star", "executing", "completed"}
  /\ delegate \in Nat /\ (delegate # 0 <=> gstate = "yield_star")
  /\ calls \in Seq(Call)
  /\ answers \in {"none", "yielded", "done", "thrown", "running"}
  /\ reentered \in BOOLEAN
  /\ gfailed \in BOOLEAN

GenInit ==
  /\ gstate = "start" /\ delegate = 0 /\ calls = <<>> /\ answers = "none"
  /\ reentered = FALSE /\ gfailed = FALSE

Running == calls # <<>> /\ calls[Len(calls)].waits = "body"
InDelegate == calls # <<>> /\ calls[Len(calls)].waits # "body"
Top == calls[Len(calls)]
Push(waits, magic, of) == calls' = Append(calls, [waits |-> waits, magic |-> magic, of |-> of])
Pop == calls' = SubSeq(calls, 1, Len(calls) - 1)
Replace(waits) == calls' = [calls EXCEPT ![Len(calls)].waits = waits]

free_generator_stack == gstate' = "completed" /\ delegate' = 0

\* js_generator_next called by the script, at the top or from inside the body or
\* the delegate's iterator.  Nothing changes for the caller until the call returns.
NextStart(magic) ==
  /\ gstate = "start"
  /\ IF magic = "next"
     THEN gstate' = "executing" /\ Push("body", magic, 0) /\ UNCHANGED <<delegate, answers>>
     ELSE /\ free_generator_stack
          /\ answers' = IF magic = "return" THEN "done" ELSE "thrown"
          /\ UNCHANGED calls

NextYield(magic) ==
  /\ gstate = "yield"
  /\ gstate' = "executing" /\ Push("body", magic, 0) /\ UNCHANGED <<delegate, answers>>

\* The delegate has the method that is asked for, or 'throw' is missing and the
\* iterator is closed first, or 'return' is missing and the body goes on.
NextYieldStar(magic) ==
  /\ gstate = "yield_star"
  /\ \/ Push("method", magic, delegate) /\ UNCHANGED <<gstate, delegate>>
     \/ magic = "throw" /\ Push("close", magic, delegate) /\ UNCHANGED <<gstate, delegate>>
     \/ magic = "return" /\ gstate' = "executing" /\ delegate' = 0 /\ Push("body", magic, 0)
  /\ UNCHANGED answers

NextCompleted(magic) ==
  /\ gstate = "completed"
  /\ answers' = IF magic = "throw" THEN "thrown" ELSE "done"
  /\ UNCHANGED <<gstate, delegate, calls>>

NextExecuting(magic) ==
  /\ gstate = "executing"
  /\ answers' = "running"  \* a TypeError
  /\ UNCHANGED <<gstate, delegate, calls>>

js_generator_next(magic) ==
  /\ Len(calls) < MaxDepth
  /\ \/ NextStart(magic) \/ NextYield(magic) \/ NextYieldStar(magic)
     \/ NextCompleted(magic) \/ NextExecuting(magic)
  /\ reentered' = (reentered \/ \E c \in 1..Len(calls) : calls[c].waits # "body")
  /\ gfailed' = gfailed

-----------------------------------------------------------------------------
(* The body, entered by async_func_resume, gives control back.             *)

BodyYields ==
  /\ Running
  /\ gstate' = "yield" /\ answers' = "yielded" /\ Pop
  /\ UNCHANGED <<delegate, reentered, gfailed>>

\* The loop goes round once more and asks the new delegate, with the magic of
\* the call that resumed the body.
BodyDelegates(of) ==
  /\ Running
  /\ gstate' = "yield_star" /\ delegate' = of
  /\ \/ calls' = [calls EXCEPT ![Len(calls)] = [@ EXCEPT !.waits = "method", !.of = of]]
     \/ /\ Top.magic = "throw"
        /\ calls' = [calls EXCEPT ![Len(calls)] = [@ EXCEPT !.waits = "close", !.of = of]]
  /\ UNCHANGED <<answers, reentered, gfailed>>

\* The body returned or threw.
BodyEnds(how) ==
  /\ Running
  /\ free_generator_stack
  /\ answers' = how /\ Pop /\ UNCHANGED <<reentered, gfailed>>

-----------------------------------------------------------------------------
(* A method of the delegate's iterator returns to js_generator_next, which *)
(* goes on with the stack of the body as it left it.                       *)

\* Whether the stack has changed under the call.
Stale == gstate # "yield_star" \/ delegate # Top.of

\* Not done: the result object goes to the caller as it is, the stack is not used.
MethodYields ==
  /\ InDelegate /\ Top.waits = "method"
  /\ answers' = "yielded" /\ Pop
  /\ UNCHANGED <<gstate, delegate, reentered, gfailed>>

\* Done, or an exception: the body is resumed with the value or the exception.
ResumeBody ==
  /\ InDelegate
  /\ gfailed' = (gfailed \/ Stale)
  /\ gstate' = "executing" /\ delegate' = 0 /\ Replace("body")
  /\ UNCHANGED <<answers, reentered>>

GenNext ==
  /\ ~gfailed
  /\ \/ \E magic \in Magic : js_generator_next(magic)
     \/ BodyYields
     \/ \E of \in 1..2 : of # delegate /\ BodyDelegates(of)
     \/ \E how \in {"done", "thrown"} : BodyEnds(how)
     \/ MethodYields
     \/ ResumeBody

GenSpec == GenInit /\ [][GenNext]_gvars

-----------------------------------------------------------------------------
(* Properties.                                                             *)

Bodies == {c \in 1..Len(calls) : calls[c].waits = "body"}

\* The body of a generator is never entered while it runs, however calls nest:
\* the generator is executing exactly while one call waits for its body.
BodyRunsAlone ==
  /\ \A c, d \in Bodies : c = d
  /\ (gstate = "executing") <=> (Bodies # {})

\* js_generator_next finds the stack of a yield* as it left it when the method of
\* the delegate's iterator returns, unless that method called the generator
\* again: the state is not EXECUTING then, and the inner call goes through.
DelegateStackKept == gfailed => reentered

-----------------------------------------------------------------------------
(***************************************************************************)
(* Async generator objects: the request queue and                          *)
(* js_async_generator_resume_next, in quickjs.c.                           *)
(*                                                                         *)
(* One async generator and the script code around it.  Requests are        *)
(* numbered in the order of the calls of next(), return() and throw().     *)
(* Script code runs in the body, and also inside                           *)
(* js_async_generator_resolve: resolving a promise with an iterator result *)
(* reads its 'then', which Object.prototype may define as a getter.        *)
(***************************************************************************)

CONSTANTS
  MaxRequests,  \* how many requests the script makes
  MaxAwaits,    \* how often the body awaits
  MaxLoops      \* how deep calls of js_async_generator_resume_next nest

Type == {"next", "return", "throw"}  \* completion_type, GEN_MAGIC_x

VARIABLES
  astate,   \* JSAsyncGeneratorData.state
  queue,    \* JSAsyncGeneratorData.queue
  made,     \* the number of requests made so far
  settled,  \* the answers given, in order: the request and what it got
  awaited,  \* the promise whose reaction will call the resolve function
  frames,   \* the C frames in progress, the innermost last
  awaits,   \* how often the body awaited
  inner,    \* whether a 'then' getter called the generator
  dropped,  \* whether an exception was ignored
  afailed   \* an assertion that does not hold, or the body resumed too early

avars == <<astate, queue, made, settled, awaited, frames, awaits, inner, dropped, afailed>>

Request == [id : 1..MaxRequests, type : Type]
Answer == {"yielded", "done", "rejected"}
(***************************************************************************)
(* A frame is js_async_generator_resume_next at the head of its loop       *)
(* ("loop"), the same in a call of js_async_generator_resolve after which  *)
(* the loop goes on ("resolving") or ends ("leaving"), or the body         *)
(* ("body").                                                               *)
(***************************************************************************)
Frame == {"loop", "resolving", "leaving", "body"}

AsyncGenTypeOK ==
  /\ astate \in {"start", "yield", "yield_star", "executing", "awaiting_return", "completed"}
  /\ queue \in Seq(Request)
  /\ made \in 0..MaxRequests
  /\ settled \in Seq([id : 1..MaxRequests, answer : Answer])
  /\ awaited \in {"none", "await", "return"}
  /\ frames \in Seq(Frame)
  /\ \A i \in 1..Len(frames) : frames[i] = "body" => i > 1 /\ frames[i - 1] = "loop"
  /\ inner \/ Len(SelectSeq(frames, LAMBDA f : f = "body")) <= 1
  /\ awaits \in 0..MaxAwaits
  /\ inner \in BOOLEAN /\ dropped \in BOOLEAN /\ afailed \in BOOLEAN

AsyncGenInit ==
  /\ astate = "start" /\ queue = <<>> /\ made = 0 /\ settled = <<>>
  /\ awaited = "none" /\ frames = <<>> /\ awaits = 0
  /\ inner = FALSE /\ dropped = FALSE /\ afailed = FALSE

InFrame(f) == frames # <<>> /\ frames[Len(frames)] = f
Outer == SubSeq(frames, 1, Len(frames) - 1)
Goto(f) == frames' = Append(Outer, f)
Loops == Len(SelectSeq(frames, LAMBDA f : f # "body"))

\* The first request leaves the queue before its promise is settled.  The code takes
\* it for granted that there is one.
js_async_generator_resolve_or_reject(answer) ==
  IF queue = <<>>
  THEN afailed' = TRUE /\ UNCHANGED <<settled, queue>>
  ELSE /\ settled' = Append(settled, [id |-> queue[1].id, answer |-> answer])
       /\ queue' = Tail(queue)
       /\ UNCHANGED afailed

js_async_generator_complete == astate' = "completed"

\* The value of a return() is awaited; a failure to do so is ignored.
js_async_generator_completed_return ==
  \/ awaited' = "return" /\ UNCHANGED dropped
  \/ dropped' = TRUE /\ UNCHANGED awaited

\* A failure is ignored here too.
js_async_generator_await ==
  \/ awaited' = "await" /\ UNCHANGED dropped
  \/ dropped' = TRUE /\ UNCHANGED awaited

-----------------------------------------------------------------------------
(* Calls by the script: from outside, from the body, or from a 'then'      *)
(* getter.                                                                 *)

ScriptRuns == ~InFrame("loop")

\* Mutant of js_async_generator_next: the queue is served even while the body runs.
NextWhileExecuting(type) ==
  /\ ScriptRuns /\ made < MaxRequests /\ Loops < MaxLoops
  /\ made' = made + 1
  /\ queue' = Append(queue, [id |-> made', type |-> type])
  /\ frames' = Append(frames, "loop")
  /\ inner' = (inner \/ InFrame("resolving") \/ InFrame("leaving"))
  /\ UNCHANGED <<astate, settled, awaited, awaits, dropped, afailed>>

js_async_generator_next(type) ==
  /\ ScriptRuns /\ made < MaxRequests /\ Loops < MaxLoops
  /\ made' = made + 1
  /\ queue' = Append(queue, [id |-> made', type |-> type])
  /\ frames' = IF astate = "executing" THEN frames ELSE Append(frames, "loop")
  /\ inner' = (inner \/ \E i \in 1..Len(frames) : frames[i] \in {"resolving", "leaving"})
  /\ UNCHANGED <<astate, settled, awaited, awaits, dropped, afailed>>

\* A 'then' getter returns, and with it js_async_generator_resolve.
ThenReturns ==
  /\ \/ InFrame("resolving") /\ Goto("loop")
     \/ InFrame("leaving") /\ frames' = Outer
  /\ UNCHANGED <<astate, queue, made, settled, awaited, awaits, inner, dropped, afailed>>

-----------------------------------------------------------------------------
(* One round of the loop of js_async_generator_resume_next.                *)

\* The queue is empty, or a return() is being awaited.
LoopEnds ==
  /\ InFrame("loop")
  /\ queue = <<>> \/ astate = "awaiting_return"
  /\ frames' = Outer
  /\ UNCHANGED <<astate, queue, made, settled, awaited, awaits, inner, dropped, afailed>>

\* EXECUTING "only happens when restarting execution after await()": the await
\* must not be pending any more.
LoopExecuting ==
  /\ InFrame("loop") /\ queue # <<>> /\ astate = "executing"
  /\ afailed' = (awaited = "await")
  /\ frames' = Append(frames, "body")
  /\ UNCHANGED <<astate, queue, made, settled, awaited, awaits, inner, dropped>>

LoopResumes ==
  /\ InFrame("loop") /\ queue # <<>>
  /\ \/ astate = "start" /\ queue[1].type = "next"
     \/ astate \in {"yield", "yield_star"}
  /\ astate' = "executing"
  /\ frames' = Append(frames, "body")
  /\ UNCHANGED <<queue, made, settled, awaited, awaits, inner, dropped, afailed>>

\* return() or throw() before the body has started.
LoopCompletes ==
  /\ InFrame("loop") /\ queue # <<>> /\ astate = "start" /\ queue[1].type # "next"
  /\ js_async_generator_complete
  /\ UNCHANGED <<queue, made, settled, awaited, frames, awaits, inner, dropped, afailed>>

\* The loop ends after one request.
LoopCompleted ==
  /\ InFrame("loop") /\ queue # <<>> /\ astate = "completed"
  /\ CASE queue[1].type = "next" ->
            js_async_generator_resolve_or_reject("done") /\ Goto("leaving")
            /\ UNCHANGED <<astate, awaited, dropped>>
       [] queue[1].type = "throw" ->
            js_async_generator_resolve_or_reject("rejected") /\ frames' = Outer
            /\ UNCHANGED <<astate, awaited, dropped>>
       [] queue[1].type = "return" ->
            /\ astate' = "awaiting_return" /\ frames' = Outer
            /\ js_async_generator_completed_return
            /\ UNCHANGED <<queue, settled, afailed>>
  /\ UNCHANGED <<made, awaits, inner>>

-----------------------------------------------------------------------------
(* The body gives control back to the loop that resumed it.                *)

AsyncBodyYields(state) ==
  /\ InFrame("body")
  /\ astate' = state
  /\ js_async_generator_resolve_or_reject("yielded")
  /\ frames' = Append(SubSeq(frames, 1, Len(frames) - 2), "resolving")
  /\ UNCHANGED <<made, awaited, awaits, inner, dropped>>

\* Mutant of AsyncBodyAwaits: nobody waits for the promise.
AsyncBodyAwaitsNothing ==
  /\ InFrame("body") /\ awaits < MaxAwaits
  /\ awaits' = awaits + 1
  /\ frames' = SubSeq(frames, 1, Len(frames) - 2)
  /\ UNCHANGED <<astate, queue, made, settled, awaited, dropped, inner, afailed>>

\* The state stays EXECUTING.
AsyncBodyAwaits ==
  /\ InFrame("body") /\ awaits < MaxAwaits
  /\ awaits' = awaits + 1
  /\ js_async_generator_await
  /\ frames' = SubSeq(frames, 1, Len(frames) - 2)
  /\ UNCHANGED <<astate, queue, made, settled, inner, afailed>>

\* The body returned or threw.
AsyncBodyEnds(answer) ==
  /\ InFrame("body")
  /\ js_async_generator_complete
  /\ js_async_generator_resolve_or_reject(answer)
  /\ frames' = Append(SubSeq(frames, 1, Len(frames) - 2),
                      IF answer = "done" THEN "resolving" ELSE "loop")
  /\ UNCHANGED <<made, awaited, awaits, inner, dropped>>

-----------------------------------------------------------------------------
(* js_async_generator_resolve_function, called by a reaction job.          *)

AwaitSettles ==
  /\ frames = <<>> /\ awaited = "await"
  /\ afailed' = (astate # "executing")
  /\ awaited' = "none" /\ frames' = <<"loop">>
  /\ UNCHANGED <<astate, queue, made, settled, awaits, inner, dropped>>

\* Nothing goes on with the queue after this answer.
ReturnSettles(answer) ==
  /\ frames = <<>> /\ awaited = "return"
  /\ IF astate \in {"awaiting_return", "completed"}
     THEN js_async_generator_resolve_or_reject(answer)
     ELSE afailed' = TRUE /\ UNCHANGED <<settled, queue>>
  /\ astate' = "completed" /\ awaited' = "none"
  /\ frames' = IF answer = "done" THEN <<"leaving">> ELSE <<>>
  /\ UNCHANGED <<made, awaits, inner, dropped>>

Body ==
  \/ \E state \in {"yield", "yield_star"} : AsyncBodyYields(state)
  \/ AsyncBodyAwaits
  \/ \E answer \in {"done", "rejected"} : AsyncBodyEnds(answer)

Loop == LoopEnds \/ LoopExecuting \/ LoopResumes \/ LoopCompletes \/ LoopCompleted \/ ThenReturns

Jobs == AwaitSettles \/ \E answer \in {"done", "rejected"} : ReturnSettles(answer)

AsyncGenNext ==
  /\ ~afailed
  /\ \/ \E type \in Type : js_async_generator_next(type)
     \/ Loop \/ Body \/ Jobs

AsyncGenSpec == AsyncGenInit /\ [][AsyncGenNext]_avars

\* The C code runs on, the body does not loop for ever, and the promises that are
\* awaited are settled and their jobs run.
AsyncGenFairSpec ==
  AsyncGenSpec /\ WF_avars(~afailed /\ Loop) /\ WF_avars(~afailed /\ Body) /\ WF_avars(~afailed /\ Jobs)

-----------------------------------------------------------------------------
(* Properties.                                                             *)

\* Requests are answered in the order of the calls, each at most once, and the
\* others wait in the queue in that order, however calls, awaits and jobs
\* interleave.
AnsweredInOrder ==
  /\ \A i \in 1..Len(settled) : settled[i].id = i
  /\ Len(settled) + Len(queue) = made
  /\ \A i \in 1..Len(queue) : queue[i].id = Len(settled) + i

\* The assertions of js_async_generator_resolve_function hold, and the body is never
\* resumed while the promise it awaits is pending, unless a 'then' getter called
\* the generator: the loop it interrupted then finds EXECUTING when it goes on.
ResumedByTheAwait == afailed => inner

\* Between jobs a suspended generator has no request, and requests that wait have
\* something that will answer them: an awaited promise.  The exceptions are an
\* ignored failure, and a completed generator, whose loop stops after one
\* request and whose awaited return() does not go on with the queue.
RequestsAwaitSomething ==
  frames = <<>> /\ queue # <<>> /\ ~afailed =>
    \/ astate = "executing" /\ awaited = "await"
    \/ astate = "awaiting_return" /\ awaited = "return"
    \/ astate = "completed"
    \/ dropped

\* After an answer that says the generator has ended no request gets a value.
NoValueAfterEnd ==
  \A i, j \in 1..Len(settled) :
    i < j /\ settled[i].answer # "yielded" => settled[j].answer # "yielded"

\* A request is answered in the end, unless a failure was ignored or it is left in the
\* queue of a completed generator: js_async_generator_resume_next returns after one
\* answer, and what is queued behind that one waits for the next call.
RequestsAnswered ==
  \A r \in 1..MaxRequests :
    made >= r ~> \/ Len(settled) >= r
                 \/ dropped \/ afailed
                 \/ astate = "completed" /\ frames = <<>> /\ Len(settled) > 0

\* Generators and async generators keep their protocol: one activation of the
\* body at a time, and one answer for every request, in order.
GeneratorsExact ==
  /\ BodyRunsAlone /\ DelegateStackKept
  /\ AnsweredInOrder /\ ResumedByTheAwait /\ RequestsAwaitSomething /\ NoValueAfterEnd
===============================================================================
