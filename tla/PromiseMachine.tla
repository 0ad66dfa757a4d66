---------------------------- MODULE PromiseMachine ----------------------------
(***************************************************************************)
(* The promise machinery and the job queue of the QuickJS engine           *)
(* (libquickjs-sys/embed/quickjs/quickjs.c).                               *)
(*                                                                         *)
(* Script code is a nondeterministic actor: it makes promises, calls the   *)
(* resolving functions it holds, registers reactions, starts async         *)
(* functions, and decides what a handler returns or throws.  Everything    *)
(* the engine does in answer is deterministic and follows the C code.      *)
(* Reference counts and allocation failures are left out here.             *)
(*                                                                         *)
(* Promises and pairs of resolving functions are numbered in the order of  *)
(* their creation.  The number of a pair stands for both functions of the  *)
(* pair: they share one JSPromiseFunctionDataResolved.                     *)
(***************************************************************************)
EXTENDS Naturals, Sequences, FiniteSets

CONSTANTS
  ScriptValues,  \* the values other than promises that scripts use
  MaxPromises,   \* how many promises scripts make
  MaxFuncs,      \* scripts make no promise and no chain with this many pairs
  Reentrant      \* whether jobs may run while a handler is on the stack

(***************************************************************************)
(* A JavaScript value, as far as promises tell values apart: "plain" has   *)
(* no callable 'then'; "thenable" has one written in script; reading the   *)
(* 'then' of a "poisoned" object throws; "promise" is the promise ref.     *)
(***************************************************************************)
Val == [kind : {"undefined", "plain", "error", "promise", "thenable", "poisoned"},
        ref : Nat]
Undefined     == [kind |-> "undefined", ref |-> 0]
PromiseObj(p) == [kind |-> "promise", ref |-> p]
SelfError     == [kind |-> "error", ref |-> 0]  \* "promise self resolution"
ThenError     == [kind |-> "error", ref |-> 1]  \* thrown by the getter of 'then'
Chains(v)     == v.kind \in {"promise", "thenable"}

ASSUME ScriptValuesAssumption ==
  ScriptValues \subseteq {v \in Val : v.kind # "promise"}
ASSUME BoundsAssumption ==
  MaxPromises \in Nat /\ MaxFuncs \in Nat /\ Reentrant \in BOOLEAN

VARIABLES
  promise,   \* JSPromiseData of every promise
  func,      \* the pairs of resolving functions
  job_list,  \* rt->job_list
  running    \* stack of the script code that the engine called and awaits

vars == <<promise, func, job_list, running>>

(***************************************************************************)
(* What a reaction calls: nothing ("none", JS_UNDEFINED), a script         *)
(* function, one of the resolving functions of pair fn, the resumption of  *)
(* the async function whose own pair is fn, or one of the two functions    *)
(* of the host ("ok", "err") that module EventLoop defines.                *)
(***************************************************************************)
Handler == [kind : {"none", "script", "resolve", "reject", "async", "ok", "err"},
            fn : Nat]
None      == [kind |-> "none", fn |-> 0]
Script    == [kind |-> "script", fn |-> 0]
Resolver(f) == [kind |-> "resolve", fn |-> f]
Rejecter(f) == [kind |-> "reject", fn |-> f]
Resume(f)   == [kind |-> "async", fn |-> f]

(***************************************************************************)
(* The types, for np promises and nf pairs: no reference dangles.          *)
(***************************************************************************)
ValOf(np) == {v \in Val : v.kind = "promise" => v.ref \in 1..np}

\* JSPromiseReactionData.  Its resolving_funcs are JS_UNDEFINED (fn = 0) for
\* the await of an async function and only there.
Reaction(nf) ==
  {r \in [fn : 0..nf, handler : Handler] :
     /\ r.handler.kind = "async" <=> r.fn = 0
     /\ r.handler.fn \in 0..nf
     /\ r.handler.kind \in {"resolve", "reject", "async"} <=> r.handler.fn # 0}

\* 'shared' tells whether script code got the promise or only the engine has it;
\* 'follows' is a history field: the promise this one was resolved with.
PromiseData(np, nf) ==
  [state : {"pending", "fulfilled", "rejected"}, result : ValOf(np),
   reactions : [0..1 -> Seq(Reaction(nf))], shared : BOOLEAN, follows : 0..np]

\* 'held' tells whether script code has the pair; the engine has it if not.
FuncData(np) == [promise : 1..np, already_resolved : 0..1, held : BOOLEAN]

(***************************************************************************)
(* A reaction job has the promise whose settlement queued it in 'promise'  *)
(* (for the properties only); a thenable job has the promise to resolve    *)
(* there and the thenable in 'arg'.                                        *)
(***************************************************************************)
NoReaction == [fn |-> 0, handler |-> None]

Job(np, nf) ==
  {j \in [kind : {"reaction", "thenable"}, promise : 1..np,
          rd : Reaction(nf) \cup {NoReaction}, is_reject : 0..1, arg : ValOf(np)] :
     IF j.kind = "reaction" THEN j.rd # NoReaction
     ELSE j.rd = NoReaction /\ Chains(j.arg)}

Frame(nf) == [kind : {"script", "async", "thenable"}, fn : 1..nf]

WellFormed(S) ==
  LET np == Len(S.promise)
      nf == Len(S.func)
  IN  S \in [promise : Seq(PromiseData(np, nf)), func : Seq(FuncData(np)),
             job_list : Seq(Job(np, nf))]

-----------------------------------------------------------------------------
(* The engine's functions, as functions of the engine state S.             *)

Now == [promise |-> promise, func |-> func, job_list |-> job_list]

\* Type correctness; running frames refer to pairs that exist.
TypeOK == WellFormed(Now) /\ running \in Seq(Frame(Len(func)))

Become(S) == /\ promise' = S.promise
             /\ func' = S.func
             /\ job_list' = S.job_list

NoReactions == [b \in 0..1 |-> <<>>]

ReactionJob(p, rd, is_reject, value) ==
  [kind |-> "reaction", promise |-> p, rd |-> rd, is_reject |-> is_reject,
   arg |-> value]

ThenableJob(p, thenable) ==
  [kind |-> "thenable", promise |-> p, rd |-> NoReaction, is_reject |-> 0,
   arg |-> thenable]

\* Mutant of FulfillOrReject: the reactions are queued in reverse.
FulfillOrRejectReversed(S, p, value, is_reject) ==
  LET rds == S.promise[p].reactions[is_reject]
      n == Len(rds)
  IN  IF S.promise[p].state # "pending" THEN S
      ELSE [S EXCEPT !.promise[p] =
                       [@ EXCEPT !.state = IF is_reject = 1 THEN "rejected" ELSE "fulfilled",
                                 !.result = value, !.reactions = NoReactions],
                     !.job_list = @ \o [i \in 1..n |->
                       ReactionJob(p, rds[n + 1 - i], is_reject, value)]]

FulfillOrReject(S, p, value, is_reject) ==
  LET rds == S.promise[p].reactions[is_reject]
  IN  IF S.promise[p].state # "pending" THEN S
      ELSE [promise  |-> [S.promise EXCEPT ![p] =
                           [state     |-> IF is_reject = 1 THEN "rejected"
                                                           ELSE "fulfilled",
                            result    |-> value,
                            reactions |-> NoReactions,
                            shared    |-> @.shared,
                            follows   |-> @.follows]],
            func     |-> S.func,
            job_list |-> S.job_list \o
                           [i \in 1..Len(rds) |->
                              ReactionJob(p, rds[i], is_reject, value)]]

\* The part of js_promise_resolve_function_call past the already_resolved test.
Resolve(S, p, is_reject, resolution) ==
  IF is_reject = 1 \/ resolution.kind \in {"undefined", "plain", "error"}
    THEN FulfillOrReject(S, p, resolution, is_reject)
  ELSE IF resolution = PromiseObj(p) THEN FulfillOrReject(S, p, SelfError, 1)
  ELSE IF resolution.kind = "poisoned" THEN FulfillOrReject(S, p, ThenError, 1)
  ELSE [promise  |-> [S.promise EXCEPT ![p] = [@ EXCEPT !.follows =
                        IF resolution.kind = "promise" THEN resolution.ref ELSE 0]],
        func     |-> S.func,
        job_list |-> Append(S.job_list, ThenableJob(p, resolution))]

\* Mutant of MarkResolved: already_resolved is not set.
MarkResolvedForgets(S, f) == S

MarkResolved(S, f) ==
  [S EXCEPT !.func = [S.func EXCEPT ![f] = [@ EXCEPT !.already_resolved = 1]]]

ResolveFunctionCall(S, f, is_reject, resolution) ==
  IF S.func[f].already_resolved = 1 THEN S
  ELSE Resolve(MarkResolved(S, f), S.func[f].promise, is_reject, resolution)

\* Mutant of CreateResolvingFunctions: already_resolved starts as true.
CreateResolvedFunctions(S, p, held) ==
  [S EXCEPT !.func = Append(S.func, [promise |-> p, already_resolved |-> 1,
                                     held |-> held])]

CreateResolvingFunctions(S, p, held) ==
  [S EXCEPT !.func = Append(S.func, [promise |-> p, already_resolved |-> 0,
                                     held |-> held])]

\* js_promise_constructor up to the call of the executor.
NewPromise(S, shared, held) ==
  LET data == [state |-> "pending", result |-> Undefined,
               reactions |-> NoReactions, shared |-> shared, follows |-> 0]
      T == [S EXCEPT !.promise = Append(S.promise, data)]
  IN  CreateResolvingFunctions(T, Len(T.promise), held)

\* Mutant of PerformPromiseThen: the state of the promise is not looked at.
PerformPromiseThenOnlyAppends(S, p, handlers, fn) ==
  [S EXCEPT !.promise[p].reactions =
     [c \in 0..1 |-> Append(@[c], [fn |-> fn, handler |-> handlers[c]])]]

PerformPromiseThen(S, p, handlers, fn) ==
  LET data == S.promise[p]
      rd(b) == [fn |-> fn, handler |-> handlers[b]]
      b == IF data.state = "rejected" THEN 1 ELSE 0
  IN  IF data.state = "pending"
      THEN [S EXCEPT !.promise = [S.promise EXCEPT ![p] = [@ EXCEPT !.reactions =
             [c \in 0..1 |-> Append(data.reactions[c], rd(c))]]]]
      ELSE [S EXCEPT !.job_list =
             Append(S.job_list, ReactionJob(p, rd(b), b, data.result))]

PromiseThen(S, p, handlers, shared) ==
  LET T == NewPromise(S, shared, FALSE)
  IN  PerformPromiseThen(T, p, handlers, Len(T.func))

-----------------------------------------------------------------------------
(* What script code does.                                                  *)

SharedPromises == {p \in 1..Len(promise) : promise[p].shared}

CanAllocate == Cardinality(SharedPromises) < MaxPromises /\ Len(func) < MaxFuncs

\* The values a script can pass, return or await.
Input == {v \in ScriptValues \cup {PromiseObj(p) : p \in SharedPromises} :
            Chains(v) => Len(func) < MaxFuncs}

Init ==
  /\ promise = <<>>
  /\ func = <<>>
  /\ job_list = <<>>
  /\ running = <<>>

\* new Promise(executor); the executor is the script code that follows, and
\* an executor that throws is a call of the rejecting function.
PromiseConstructor ==
  /\ CanAllocate
  /\ Become(NewPromise(Now, TRUE, TRUE))
  /\ UNCHANGED running

CallResolvingFunction ==
  \E f \in 1..Len(func), is_reject \in 0..1, v \in Input :
    /\ func[f].held
    /\ Become(ResolveFunctionCall(Now, f, is_reject, v))
    /\ UNCHANGED running

Then ==
  \E p \in SharedPromises, handlers \in [0..1 -> {None, Script}] :
    /\ CanAllocate
    /\ Become(PromiseThen(Now, p, handlers, TRUE))
    /\ UNCHANGED running

\* js_async_function_call: its code runs at once, up to an await or its end.
AsyncFunctionCall ==
  /\ CanAllocate
  /\ Become(NewPromise(Now, TRUE, FALSE))
  /\ running' = <<[kind |-> "async", fn |-> Len(func) + 1]>> \o running

-----------------------------------------------------------------------------
(* How the script code that the engine called ends.                        *)

Pop == running # <<>> /\ running' = Tail(running)

\* js_async_function_resume, at an await.
Await ==
  \E v \in Input :
    /\ Pop
    /\ Head(running).kind = "async"
    /\ Len(func) < MaxFuncs
    /\ LET fresh == NewPromise(Now, FALSE, FALSE)
           S == IF v.kind = "promise" THEN Now
                ELSE ResolveFunctionCall(fresh, Len(fresh.func), 0, v)
           p == IF v.kind = "promise" THEN v.ref ELSE Len(fresh.promise)
       IN  Become(PerformPromiseThen(S, p,
                    [b \in 0..1 |-> Resume(Head(running).fn)], 0))

\* The code returns v: a handler or an async function resolves its promise
\* with it, what a thenable's 'then' returns is ignored.
Return ==
  \E v \in Input :
    /\ Pop
    /\ Become(IF Head(running).kind = "thenable" THEN Now
              ELSE ResolveFunctionCall(Now, Head(running).fn, 0, v))

Throw ==
  \E v \in Input :
    /\ Pop
    /\ Become(ResolveFunctionCall(Now, Head(running).fn, 1, v))

-----------------------------------------------------------------------------
(* JS_ExecutePendingJob on a queue that is not empty, one action for each  *)
(* kind of job.                                                            *)

Dequeue == [Now EXCEPT !.job_list = Tail(job_list)]

JobReady(kind) ==
  /\ running = <<>> \/ Reentrant
  /\ job_list # <<>>
  /\ Head(job_list).kind = kind

Push(kind, f) == running' = <<[kind |-> kind, fn |-> f]>> \o running

\* promise_reaction_job without a handler: the outcome passes through.
ReactionJobPassThrough ==
  /\ JobReady("reaction")
  /\ LET job == Head(job_list)
     IN  /\ job.rd.handler.kind = "none"
         /\ Become(ResolveFunctionCall(Dequeue, job.rd.fn, job.is_reject, job.arg))
  /\ UNCHANGED running

\* Mutant of ReactionJobResolving: the capability of the reaction is not called.
ReactionJobResolvingForgets ==
  /\ JobReady("reaction")
  /\ LET job == Head(job_list)
         S == ResolveFunctionCall(Dequeue, job.rd.handler.fn,
                IF job.rd.handler.kind = "reject" THEN 1 ELSE 0, job.arg)
     IN  /\ job.rd.handler.kind \in {"resolve", "reject"}
         /\ Become(S)
  /\ UNCHANGED running

\* promise_reaction_job whose handler is a resolving function.
ReactionJobResolving ==
  /\ JobReady("reaction")
  /\ LET job == Head(job_list)
         S == ResolveFunctionCall(Dequeue, job.rd.handler.fn,
                IF job.rd.handler.kind = "reject" THEN 1 ELSE 0, job.arg)
     IN  /\ job.rd.handler.kind \in {"resolve", "reject"}
         /\ Become(ResolveFunctionCall(S, job.rd.fn, 0, Undefined))
  /\ UNCHANGED running

\* promise_reaction_job whose handler is script code, which Return or Throw
\* (or, for an async function, Await) ends.
ReactionJobScript ==
  /\ JobReady("reaction")
  /\ LET job == Head(job_list)
     IN  \/ job.rd.handler.kind = "script" /\ Push("script", job.rd.fn)
         \/ job.rd.handler.kind = "async" /\ Push("async", job.rd.handler.fn)
  /\ Become(Dequeue)

\* Mutant of ThenableJobPromise: 'then' gets the resolving function twice.
ThenableJobNoReject ==
  /\ JobReady("thenable")
  /\ LET job == Head(job_list)
         S == CreateResolvingFunctions(Dequeue, job.promise, FALSE)
     IN  /\ job.arg.kind = "promise"
         /\ Become(PromiseThen(S, job.arg.ref,
              [b \in 0..1 |-> Resolver(Len(S.func))], FALSE))
  /\ UNCHANGED running

\* js_promise_resolve_thenable_job on a promise.
ThenableJobPromise ==
  /\ JobReady("thenable")
  /\ LET job == Head(job_list)
         S == CreateResolvingFunctions(Dequeue, job.promise, FALSE)
         f == Len(S.func)
     IN  /\ job.arg.kind = "promise"
         /\ Become(PromiseThen(S, job.arg.ref,
              [b \in 0..1 |-> IF b = 0 THEN Resolver(f) ELSE Rejecter(f)], FALSE))
  /\ UNCHANGED running

\* js_promise_resolve_thenable_job on an object whose 'then' is script code.
ThenableJobScript ==
  /\ JobReady("thenable")
  /\ LET job == Head(job_list)
         S == CreateResolvingFunctions(Dequeue, job.promise, TRUE)
     IN  /\ job.arg.kind = "thenable"
         /\ Become(S)
         /\ Push("thenable", Len(S.func))

ExecutePendingJob ==
  \/ ReactionJobPassThrough
  \/ ReactionJobResolving
  \/ ReactionJobScript
  \/ ThenableJobPromise
  \/ ThenableJobScript

FrameEnds == Return \/ Throw \/ Await

Next ==
  \/ PromiseConstructor
  \/ CallResolvingFunction
  \/ Then
  \/ AsyncFunctionCall
  \/ Await
  \/ Return
  \/ Throw
  \/ ExecutePendingJob

Spec == Init /\ [][Next]_vars
\* Handlers end, and the host keeps executing pending jobs.
Fairness == WF_vars(ExecutePendingJob) /\ WF_vars(Return)

FairSpec == Spec /\ Fairness

-----------------------------------------------------------------------------
(* Properties                                                              *)

Unresolved(S, f) == S.func[f].already_resolved = 0
IsThenableJob(S, i) == S.job_list[i].kind = "thenable"

(***************************************************************************)
(* A right to settle a promise is a pair that was never called or a queued *)
(* thenable job.                                                           *)
(***************************************************************************)
RightsArePending(S) ==
  /\ \A f \in 1..Len(S.func) : Unresolved(S, f) =>
       S.promise[S.func[f].promise].state = "pending"
  /\ \A i \in 1..Len(S.job_list) : IsThenableJob(S, i) =>
       S.promise[S.job_list[i].promise].state = "pending"

RightsAreDistinct(S) ==
  /\ \A f, g \in 1..Len(S.func) : Unresolved(S, f) /\ Unresolved(S, g) /\ f # g =>
       S.func[f].promise # S.func[g].promise
  /\ \A i, j \in 1..Len(S.job_list) :
       IsThenableJob(S, i) /\ IsThenableJob(S, j) /\ i # j =>
         S.job_list[i].promise # S.job_list[j].promise
  /\ \A f \in 1..Len(S.func), i \in 1..Len(S.job_list) :
       Unresolved(S, f) /\ IsThenableJob(S, i) =>
         S.func[f].promise # S.job_list[i].promise

HasRight(S, p) ==
  \/ \E f \in 1..Len(S.func) : Unresolved(S, f) /\ S.func[f].promise = p
  \/ \E i \in 1..Len(S.job_list) : IsThenableJob(S, i) /\ S.job_list[i].promise = p

(***************************************************************************)
(* The promise of a right is pending, and no promise has two rights.  This *)
(* is why fulfill_or_reject_promise never meets a settled promise ("should *)
(* never happen", quickjs.c:46050), whatever pairs are called how often    *)
(* and in what order.                                                      *)
(***************************************************************************)
SettledOnce == RightsArePending(Now) /\ RightsAreDistinct(Now)

(***************************************************************************)
(* No promise is orphaned: one that is pending has a pair that was never   *)
(* called or a queued thenable job.                                        *)
(***************************************************************************)
PendingHasRight ==
  \A p \in 1..Len(promise) : promise[p].state = "pending" => HasRight(Now, p)

Holds(rd, f) == rd.fn = f \/ rd.handler.fn = f

\* The engine has pair f in both reaction lists of a pending promise or in a job.
Waits(S, f) ==
  \/ \E p \in 1..Len(S.promise) :
       /\ S.promise[p].state = "pending"
       /\ \A b \in 0..1 : \E i \in 1..Len(S.promise[p].reactions[b]) :
            Holds(S.promise[p].reactions[b][i], f)
  \/ \E i \in 1..Len(S.job_list) : Holds(S.job_list[i].rd, f)

(***************************************************************************)
(* No wakeup is lost: a pair that script code does not hold and that was   *)
(* never called is in both reaction lists of a pending promise, in a       *)
(* queued job, or in a running frame, so that something will call it.      *)
(***************************************************************************)
NoLostReaction ==
  \A f \in 1..Len(func) : ~func[f].held /\ Unresolved(Now, f) =>
    \/ Waits(Now, f)
    \/ \E i \in 1..Len(running) : running[i].fn = f

(***************************************************************************)
(* A promise resolved with another promise ends as that one does: same     *)
(* state, same result, and not before it.  The outcome travels through a   *)
(* thenable job, a reaction and a second pair of resolving functions.      *)
(***************************************************************************)
FollowerAgrees ==
  \A p \in 1..Len(promise) :
    promise[p].follows # 0 /\ promise[p].state # "pending" =>
      /\ promise[p].state = promise[promise[p].follows].state
      /\ promise[p].result = promise[promise[p].follows].result

(***************************************************************************)
(* A promise is never fulfilled with something that has a callable 'then': *)
(* what a handler receives, and what the host reads, is final.             *)
(***************************************************************************)
FulfilledIsFinal ==
  \A p \in 1..Len(promise) :
    promise[p].state = "fulfilled" => ~Chains(promise[p].result)

(***************************************************************************)
(* Reactions of one promise run in the order in which 'then' registered    *)
(* them, whether they were registered before or after it settled.          *)
(***************************************************************************)
ReactionsInOrder ==
  \A i, j \in 1..Len(job_list) :
    /\ i < j
    /\ job_list[i].kind = "reaction" /\ job_list[j].kind = "reaction"
    /\ job_list[i].promise = job_list[j].promise
    /\ job_list[i].rd.fn # 0 /\ job_list[j].rd.fn # 0
    => job_list[i].rd.fn < job_list[j].rd.fn

(***************************************************************************)
(* A queued reaction is run and its capability called, however many jobs   *)
(* are ahead of it and whatever new jobs they queue.                       *)
(***************************************************************************)
QueuedReactionsRun ==
  \A f \in 1..(2 * MaxFuncs) :
    (\E i \in 1..Len(job_list) : job_list[i].rd.fn = f)
      ~> (f \in 1..Len(func) /\ func[f].already_resolved = 1)

(***************************************************************************)
(* The outcome of a promise is final: a follower has the outcome of the    *)
(* promise it follows, and nothing is left to resolve.                     *)
(***************************************************************************)
OutcomesAgree == FollowerAgrees /\ FulfilledIsFinal

(***************************************************************************)
(* Small instances: what a script resolves a promise with.                 *)
(***************************************************************************)
Plain == [kind |-> "plain", ref |-> 1]
Thenable == [kind |-> "thenable", ref |-> 1]
Poisoned == [kind |-> "poisoned", ref |-> 1]

ObjectSamples == {Plain, Thenable, Poisoned}
PlainSamples == {Plain}
ValueSamples == {Undefined, Plain}
=============================================================================
