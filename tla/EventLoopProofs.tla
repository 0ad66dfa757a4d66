--------------------------- MODULE EventLoopProofs ---------------------------
(***************************************************************************)
(* Proofs about EventLoop: calls of eval that are not nested, meet no      *)
(* failing job and are not interfered with by script code return the       *)
(* outcome of their own promises and leave no handler behind.  They rest on the invariant of the promise machinery    *)
(* that PromiseOutcomeProofs proves, and on where HandlerProofs finds the  *)
(* handlers.                                                               *)
(***************************************************************************)
EXTENDS HandlerProofs

-----------------------------------------------------------------------------
(* What resolve_value does to the engine state                             *)

\* A reaction of a well-formed state refers to pairs that exist.
LEMMA OccursType ==
  ASSUME NEW S, WellFormed(S), NEW q, NEW b, NEW rd, Occurs(S, q, b, rd)
  PROVE  q \in 1..Len(S.promise) /\ rd \in Reaction(Len(S.func))
<1>1. CASE /\ q \in 1..Len(S.promise) /\ b \in 0..1
           /\ \E i \in 1..Len(S.promise[q].reactions[b]) : S.promise[q].reactions[b][i] = rd
  BY <1>1, Parts, Zenon
<1>2. CASE \E i \in 1..Len(S.job_list) :
             /\ IsReactionJob(S, i)
             /\ S.job_list[i].promise = q /\ S.job_list[i].is_reject = b
             /\ S.job_list[i].rd = rd
  BY <1>2, Parts, Zenon
<1> QED
  BY <1>1, <1>2, Zenon DEF Occurs

\* With zeros for the four numbers there is no handler of the host.
LEMMA NoHandlers ==
  ASSUME NEW S, WellFormed(S)
  PROVE  Calm(S, 0, 0, 0, 0) <=>
           /\ EmptySettled(S)
           /\ \A q, b, rd : Occurs(S, q, b, rd) => ~IsHostHandler(rd)
<1>1. \A q \in 1..Len(S.promise) : q # 0
  BY Parts
<1>2. ASSUME NEW q, NEW b, NEW rd, Occurs(S, q, b, rd)
      PROVE  Placed(0, 0, 0, 0, q, b, rd) <=> ~IsHostHandler(rd)
  <2>1. q # 0
    BY <1>1, <1>2, OccursType, Zenon
  <2> QED
    BY <2>1, Zenon DEF Placed
<1> QED
  BY <1>2, Zenon DEF Calm, PlacedAll

\* What p.then(ok).catch(err) leads to.
Attached(S, T, t, R, W, H) ==
  /\ Good(T) /\ Sound(T, R, W, H)
  /\ \E c, d, e \in Nat \ {0} : Calm(T, t, c, d, e) /\ c \notin R

\* The script in resolve_value puts the handlers in their places.
LEMMA AttachHandlersEffect ==
  ASSUME NEW S, Good(S), NEW R, NEW W, NEW H, Sound(S, R, W, H), R \subseteq 1..Len(S.func),
         Calm(S, 0, 0, 0, 0), NEW t \in 1..Len(S.promise)
  PROVE  Attached(S, AttachHandlers(S, t), t, R, W, H)
<1> DEFINE np == Len(S.promise)
           nf == Len(S.func)
           c == nf + 1
           d == np + 1
           e == nf + 2
           ok == [b \in 0..1 |-> IF b = 0 THEN HostOk ELSE None]
           err == [b \in 0..1 |-> IF b = 0 THEN None ELSE HostErr]
           A == NewPromise(S, FALSE, FALSE)
           B == PerformPromiseThen(A, t, ok, c)
           C == NewPromise(B, FALSE, FALSE)
           D == PerformPromiseThen(C, d, err, e)
<1>0. WellFormed(S) /\ np \in Nat /\ nf \in Nat /\ FALSE \in BOOLEAN
  BY Parts, Zenon DEF Good
<1>1. /\ \A x : ok \in [0..1 -> Handler] /\ err \in [0..1 -> Handler]
      /\ \A b \in 0..1 : /\ ok[b] = (IF b = 0 THEN HostOk ELSE None)
                         /\ err[b] = (IF b = 0 THEN None ELSE HostErr)
                         /\ ok[b].fn = 0 /\ err[b].fn = 0
                         /\ ok[b].kind \in {"none", "ok"} /\ err[b].kind \in {"none", "err"}
  BY DEF HostOk, HostErr, None, Handler
<1>2. AddsPromise(S, A, FALSE) /\ Good(A)
  BY <1>0, NewPromiseType, NewPromiseGood, Zenon
<1> HIDE DEF A, ok, err
<1>3. /\ WellFormed(A) /\ Len(A.promise) = d /\ Len(A.func) = c
      /\ A.promise[d].state = "pending"
      /\ A.func[c] = [promise |-> d, already_resolved |-> 0, held |-> FALSE]
  BY <1>2, Zenon DEF AddsPromise
<1>4. /\ c \in Nat \ {0} /\ d \in Nat \ {0} /\ e \in Nat \ {0} /\ e = c + 1 /\ c # e
      /\ t \in 1..d /\ d \in 1..d /\ c \in 1..c /\ d \in 1..(d + 1) /\ c \notin 1..nf
      /\ \A x \in 0..nf : x # c
      /\ 1..nf \subseteq 1..c
  BY <1>0
<1>5. ThenArgs(S, ok)
  <2>1. 0 \in 0..nf
    BY <1>0
  <2>2. \A b \in 0..1 : ok[b].kind # "async" /\ ok[b].kind \notin {"resolve", "reject"}
    BY <1>1
  <2> QED
    BY <1>1, <2>1, <2>2, Zenon DEF ThenArgs
<1>6. HandlersFor(c, ok, c)
  BY <1>0, <1>5, ThenArgsMakeReactions, Zenon
<1> HIDE DEF c, d, e, np, nf
<1>7. Calm(A, t, c, d, e)
  <2>1. Calm(A, 0, 0, 0, 0)
    BY <1>0, <1>2, AddsPromiseMild, NothingNewCalm, Zenon
  <2>2. ASSUME NEW q, NEW b, NEW rd, Occurs(A, q, b, rd)
        PROVE  Placed(t, c, d, e, q, b, rd)
    <3>1. ~IsHostHandler(rd)
      BY <1>3, <2>1, <2>2, NoHandlers, Zenon
    <3>2. Occurs(S, q, b, rd)
      <4>1. Mild(S, A, {})
        BY <1>0, <1>2, AddsPromiseMild, Zenon
      <4> QED
        BY <2>2, <4>1, Zenon DEF Mild
    <3>3. rd \in Reaction(nf)
      BY <1>0, <3>2, OccursType, Zenon DEF nf
    <3>4. rd.fn # c /\ rd.handler.fn # c
      BY <1>4, <3>3, Zenon DEF Reaction
    <3> QED
      BY <3>1, <3>4, Zenon DEF Placed
  <2>3. Verdict(A, t, c, d)
    <3>1. A.func[c].promise = d /\ ~A.func[c].held /\ Unresolved(A, c)
      BY <1>3 DEF Unresolved
    <3>2. "pending" # "rejected"
      OBVIOUS
    <3> QED
      BY <1>3, <1>4, <3>1, <3>2, Zenon DEF Verdict
  <2> QED
    BY <2>1, <2>2, <2>3, Zenon DEF Calm, PlacedAll
<1>8. B = PromiseThen(S, t, ok, FALSE)
  BY <1>3, Zenon DEF PromiseThen, A
<1>9. Good(B) /\ Len(B.promise) = d /\ B.func = A.func
  <2>1. t \in 1..Len(A.promise) /\ HandlersFor(Len(A.func), ok, c)
    BY <1>3, <1>4, <1>6, Zenon
  <2>2. Good(B) /\ Len(B.promise) = Len(A.promise) /\ B.func = A.func
    BY <1>2, <2>1, PerformPromiseThenGood, Zenon
  <2> HIDE DEF B
  <2> QED
    BY <1>3, <2>2, Zenon
<1>10. Calm(B, t, c, d, e)
  <2>1. Mild(A, B, NewReactions(t, ok, c))
    BY <1>3, <1>4, <1>6, PerformPromiseThenMild, Zenon
  <2>2. ASSUME NEW q, NEW b, NEW rd, <<q, b, rd>> \in NewReactions(t, ok, c)
        PROVE  Placed(t, c, d, e, q, b, rd)
    <3>1. /\ q = t /\ b \in 0..1 /\ rd = [fn |-> c, handler |-> ok[b]]
          /\ rd.fn = c /\ rd.handler = ok[b]
      BY <2>2, NewReactionsAre
    <3>2. rd.handler.fn # c
      BY <1>1, <1>4, <3>1
    <3>3. rd.handler = IF b = 0 THEN HostOk ELSE None
      BY <1>1, <3>1, Zenon
    <3>4. CASE b = 0
      <4>1. rd = [fn |-> c, handler |-> HostOk]
        BY <3>1, <3>3, <3>4
      <4> QED
        BY <3>1, <3>2, <3>3, <3>4, <4>1, Zenon DEF Placed
    <3>5. CASE b # 0
      <4>1. ~IsHostHandler(rd)
        BY <3>3, <3>5 DEF IsHostHandler, None
      <4> QED
        BY <3>1, <3>2, <3>3, <4>1, Zenon DEF Placed
    <3> QED
      BY <3>4, <3>5
  <2> HIDE DEF B
  <2> QED
    BY <1>7, <2>1, <2>2, MildCalm, Zenon
<1>11. Sound(B, R, W, H)
  <2>1. ThenHandlers(S, t, ok)
    <3>1. \A b \in 0..1 : ok[b].kind # "resolve" /\ ok[b].kind # "reject"
      BY <1>1
    <3> QED
      BY <1>1, <1>5, <3>1, Zenon DEF ThenHandlers, ThenArgs
  <2>2. \A f \in W \ W : \A b \in 0..1 : ok[b].fn = f
    BY Zenon
  <2> QED
    BY <1>0, <1>8, <2>1, <2>2, PromiseThenSound, Zenon
<1> HIDE DEF B
<1>12. AddsPromise(B, C, FALSE) /\ Good(C) /\ WellFormed(B)
  BY <1>0, <1>9, NewPromiseType, NewPromiseGood, Zenon DEF Good
<1> HIDE DEF C
<1>13. WellFormed(C) /\ Len(C.promise) = d + 1 /\ Len(C.func) = e
  BY <1>3, <1>4, <1>9, <1>12, Zenon DEF AddsPromise
<1>14. Calm(C, t, c, d, e)
  BY <1>10, <1>12, AddsPromiseMild, NothingNewCalm, Zenon
<1>15. ThenArgs(B, err)
  <2>1. 0 \in 0..Len(B.func)
    BY <1>3, <1>4, <1>9
  <2>2. \A b \in 0..1 : err[b].kind # "async" /\ err[b].kind \notin {"resolve", "reject"}
    BY <1>1
  <2> QED
    BY <1>1, <2>1, <2>2, Zenon DEF ThenArgs
<1>16. HandlersFor(e, err, e)
  BY <1>3, <1>4, <1>9, <1>12, <1>15, ThenArgsMakeReactions, Zenon
<1>17. D = PromiseThen(B, d, err, FALSE)
  BY <1>13, Zenon DEF PromiseThen, C
<1>18. Good(D)
  BY <1>4, <1>12, <1>13, <1>16, PerformPromiseThenGood, Zenon
<1>19. Calm(D, t, c, d, e)
  <2>1. Mild(C, D, NewReactions(d, err, e))
    BY <1>4, <1>13, <1>16, PerformPromiseThenMild, Zenon
  <2>2. ASSUME NEW q, NEW b, NEW rd, <<q, b, rd>> \in NewReactions(d, err, e)
        PROVE  Placed(t, c, d, e, q, b, rd)
    <3>1. /\ q = d /\ b \in 0..1 /\ rd = [fn |-> e, handler |-> err[b]]
          /\ rd.fn = e /\ rd.handler = err[b]
      BY <2>2, NewReactionsAre
    <3>2. rd.handler.fn # c /\ rd.fn # c
      BY <1>1, <1>4, <3>1
    <3>3. rd.handler = IF b = 0 THEN None ELSE HostErr
      BY <1>1, <3>1, Zenon
    <3>4. CASE b = 1
      <4>1. rd = [fn |-> e, handler |-> HostErr]
        BY <3>1, <3>3, <3>4
      <4> QED
        BY <3>1, <3>2, <3>4, <4>1, Zenon DEF Placed
    <3>5. CASE b = 0
      <4>1. ~IsHostHandler(rd)
        BY <3>3, <3>5 DEF IsHostHandler, None
      <4> QED
        BY <3>2, <4>1, Zenon DEF Placed
    <3> QED
      BY <3>1, <3>4, <3>5
  <2> HIDE DEF D
  <2> QED
    BY <1>14, <2>1, <2>2, MildCalm, Zenon
<1>20. Sound(D, R, W, H)
  <2>1. ThenHandlers(B, d, err)
    <3>1. \A b \in 0..1 : err[b].kind # "resolve" /\ err[b].kind # "reject"
      BY <1>1
    <3> QED
      BY <1>1, <1>15, <3>1, Zenon DEF ThenHandlers, ThenArgs
  <2>2. \A f \in W \ W : \A b \in 0..1 : err[b].fn = f
    BY Zenon
  <2>3. R \subseteq 1..Len(B.func) /\ d \in 1..Len(B.promise)
    BY <1>3, <1>4, <1>9, Zenon DEF nf
  <2> QED
    BY <1>0, <1>11, <1>12, <1>17, <2>1, <2>2, <2>3, PromiseThenSound, Zenon
<1>21. AttachHandlers(S, t) = D
  BY <1>8, <1>9, <1>17, Zenon DEF AttachHandlers, ok, err
<1>22. c \notin R
  BY <1>4, Zenon DEF nf
<1> HIDE DEF D
<1> QED
  BY <1>4, <1>18, <1>19, <1>20, <1>21, <1>22, Zenon DEF Attached
-----------------------------------------------------------------------------
(* The job that calls one of the two handlers                              *)

\* The job runs a handler of the host, which returns undefined.
HandlerJob ==
  LET job == Head(job_list)
  IN  /\ job_list # <<>> /\ job.kind = "reaction"
      /\ job.rd.handler.kind \in {"ok", "err"}
      /\ Become(ResolveFunctionCall(Dequeue, job.rd.fn, 0, Undefined))
      /\ running' = running

\* The engine's own invariant survives it.
LEMMA HandlerJobOutcome ==
  ASSUME OutcomeInv, NEW t, NEW c, NEW d, NEW e, Safe(t, c, d, e), HandlerJob
  PROVE  LET S == ResolveFunctionCall(Dequeue, Head(job_list).rd.fn, 0, Undefined)
         IN  /\ Good(S) /\ JobsFaithful(S) /\ OutcomeInv'
             /\ Head(job_list).rd.fn \in 1..Len(func)
<1> DEFINE F == FramePairs(running)
           G == ThenablePairs(running)
           nf == Len(func)
           job == Head(job_list)
           rd == job.rd
           W == F \cup {rd.fn, rd.handler.fn}
           S == ResolveFunctionCall(Dequeue, rd.fn, 0, Undefined)
<1>0. /\ Sound(Now, F, F, G) /\ WellFormed(Now) /\ F \subseteq 1..nf
  BY SoundFacts, Zenon
<1>1. /\ job_list # <<>> /\ job.kind = "reaction" /\ rd.handler.kind \in {"ok", "err"}
      /\ Become(S) /\ running' = running
  BY Zenon DEF HandlerJob
<1>2. /\ job = Now.job_list[1] /\ 1 \in 1..Len(Now.job_list) /\ Dequeue = TailOf(Now)
      /\ WellFormed(Dequeue) /\ Dequeue.promise = promise /\ Dequeue.func = func
      /\ Good(Dequeue) /\ rd \in Reaction(nf)
  BY <1>1, FirstJobFacts, Zenon DEF FirstJob
<1>3. /\ Now.promise = promise /\ Now.func = func /\ Now.job_list = job_list
      /\ nf \in Nat /\ running \in Seq(Frame(nf))
  BY SafeFacts, Zenon
<1> HIDE DEF F, G, job, nf, W
<1>4. rd.handler.fn = 0 /\ rd.fn \in 1..nf /\ rd.fn # 0
  BY <1>1, <1>2, <1>3 DEF Reaction
<1>5. Sound(Dequeue, F, W, G)
  <2>1. LET r == Now.job_list[1].rd
        IN  Sound(TailOf(Now), F, F \cup {r.fn, r.handler.fn}, G)
    BY <1>0, <1>1, <1>3, TailOfSound, Zenon
  <2> QED
    BY <1>2, <2>1, Zenon DEF W
<1>6. Free(Dequeue, rd.fn)
  <2>1. RoleOK(Now, job.promise, job.is_reject, rd)
    BY <1>0, <1>1, <1>2, Zenon DEF Sound, JobRoles, IsReactionJob
  <2>2. Free(Now, rd.fn)
    BY <1>4, <2>1, Zenon DEF RoleOK
  <2> QED
    BY <1>2, <1>3, <2>2, Zenon DEF Free, Unresolved
<1> HIDE DEF rd
<1>7. /\ rd.fn \in 1..Len(Dequeue.func) /\ Undefined \in ValOf(Len(Dequeue.promise))
      /\ 0 \in 0..1
  <2>1. Undefined \in ValOf(Len(Dequeue.promise)) /\ 0 \in 0..1
    BY DEF Undefined, ValOf, Val
  <2> QED
    BY <1>2, <1>4, <2>1, Zenon DEF nf
<1>8. MayCall(Dequeue, rd.fn, Undefined, 0)
  BY <1>6, FreeMayCall, Zenon
<1>9. Sound(S, F, W \ {rd.fn}, G)
  BY <1>2, <1>5, <1>7, <1>8, ResolveFunctionCallSound, Zenon
<1>10. WellFormed(S) /\ Len(S.func) = Len(Dequeue.func)
  BY <1>2, <1>7, ResolveFunctionCallType, Zenon
<1>11. Good(S)
  BY <1>2, <1>7, ResolveFunctionCallGood, Zenon
<1> HIDE DEF S
<1>12. SoundNow'
  <2>1. Sound(S, F, (W \ {rd.fn}) \ {0}, G)
    BY <1>9, <1>10, NoPairZero
  <2>2. (W \ {rd.fn}) \ {0} \subseteq F
    BY <1>4 DEF W, rd
  <2>3. FramePairs(running') = F /\ ThenablePairs(running') = G
    BY <1>1 DEF F, G
  <2> QED
    BY <1>1, <1>10, <2>1, <2>2, <2>3, LeadsToSound, Zenon
<1>13. IInv'
  <2>1. running' \in Seq(Frame(Len(S.func)))
    BY <1>1, <1>2, <1>3, <1>10, Zenon DEF nf
  <2> QED
    BY <1>1, <1>11, <2>1, LeadsToIInv, Zenon
<1>14. JobsFaithful(S)
  BY <1>9, Zenon DEF Sound
<1>15. OutcomeInv'
  BY <1>12, <1>13, Zenon DEF OutcomeInv
<1> QED
  BY <1>4, <1>11, <1>14, <1>15, Zenon DEF S, rd, nf, job

\* No other job for the promise of the first one has the same capability.
LEMMA FirstJobIsOnly ==
  ASSUME OutcomeInv, job_list # <<>>, Head(job_list).kind = "reaction",
         Head(job_list).rd.fn # 0, Len(func) \in Nat,
         Head(job_list).rd.fn \in 1..Len(func),
         NEW i \in 1..Len(Dequeue.job_list), IsReactionJob(Dequeue, i),
         Dequeue.job_list[i].promise = Head(job_list).promise
  PROVE  Dequeue.job_list[i].rd.fn # Head(job_list).rd.fn
<1> DEFINE n == Len(Now.job_list)
<1>1. /\ Now.job_list = job_list /\ WellFormed(Now) /\ JobsOrdered(Now)
  BY NowFacts, SoundFacts, Zenon DEF Sound, OutcomeInv
<1>2. Dequeue = TailOf(Now)
  BY DEF Dequeue, TailOf, Now
<1>3. /\ n \in Nat \ {0} /\ Len(Dequeue.job_list) = n - 1
      /\ \A j \in 1..(n - 1) : Dequeue.job_list[j] = Now.job_list[j + 1]
      /\ Head(job_list) = Now.job_list[1]
  BY <1>1, <1>2, TailOfType, Zenon
<1> HIDE DEF n
<1>4. i + 1 \in 1..n /\ 1 \in 1..n /\ 1 < i + 1 /\ i \in 1..(n - 1)
  BY <1>3
<1>5. Dequeue.job_list[i] = Now.job_list[i + 1]
  BY <1>3, <1>4, Zenon
<1>6. InOrder(Now.job_list[1].rd, Now.job_list[i + 1].rd)
  BY <1>1, <1>3, <1>4, <1>5, Zenon DEF JobsOrdered, IsReactionJob, n
<1>7. \A x \in 1..Len(func) : ~(x < x)
  OBVIOUS
<1> QED
  BY <1>3, <1>5, <1>6, <1>7, Zenon DEF InOrder

(***************************************************************************)
(* The handler reports what became of t, and its call leaves no handler:   *)
(* t and d are settled, so that their lists are empty, and the job of the  *)
(* other handler is not queued, for only one of them is due.               *)
(***************************************************************************)
LEMMA HandlerJobQuiet ==
  ASSUME OutcomeInv, NEW t, NEW c, NEW d, NEW e, Safe(t, c, d, e), c # 0, HandlerJob,
         running = <<>>
  PROVE  LET job == Head(job_list)
             S == ResolveFunctionCall(Dequeue, job.rd.fn, 0, Undefined)
         IN  /\ Safe(0, 0, 0, 0)'
             /\ t \in 1..Len(S.promise)
             /\ S.promise[t].state = IF job.rd.handler.kind = "ok" THEN "fulfilled"
                                                                   ELSE "rejected"
             /\ S.promise[t].result = job.arg
<1> DEFINE U == Dequeue
           job == Head(job_list)
           rd == job.rd
           f == rd.fn
           T == ResolveFunctionCall(U, f, 0, Undefined)
<1>1. /\ job_list # <<>> /\ job.kind = "reaction" /\ rd.handler.kind \in {"ok", "err"}
      /\ Become(T) /\ running' = running
  BY Zenon DEF HandlerJob
<1>2. /\ WellFormed(U) /\ U.promise = promise /\ U.func = func
      /\ Calm(U, t, c, d, e) /\ Good(U)
      /\ Placed(t, c, d, e, job.promise, job.is_reject, rd)
      /\ promise[job.promise].state = SettledState(job.is_reject)
      /\ promise[job.promise].result = job.arg
  BY <1>1, FirstJobFacts, Zenon DEF FirstJob
<1>3. Good(T) /\ WellFormed(T) /\ JobsFaithful(T) /\ f \in 1..Len(func)
  BY HandlerJobOutcome, Zenon DEF Good
<1>4. f \in 1..Len(U.func) /\ Undefined \in ValOf(Len(U.promise)) /\ 0 \in 0..1
  <2>1. Undefined \in ValOf(Len(U.promise)) /\ 0 \in 0..1
    BY DEF Undefined, ValOf, Val
  <2> QED
    BY <1>2, <1>3, <2>1, Zenon
<1>5. Calm(T, t, c, d, e)
  <2>1. RightCall(U, t, c, f, Undefined, 0)
    BY Zenon DEF RightCall
  <2> QED
    BY <1>2, <1>4, <2>1, ResolveFunctionCallCalm, Zenon
<1>6. \/ T = U /\ ~Unresolved(U, f)
      \/ FirstCall(U, T, f, Undefined, 0)
  BY <1>2, <1>4, ResolveFunctionCallEffect, Zenon
<1>7. Len(func) \in Nat
  BY SafeFacts, Zenon
<1> HIDE DEF T, U, job, rd, f
<1>8. Verdict(U, t, c, d) /\ Verdict(T, t, c, d)
  BY <1>2, <1>5, Zenon DEF Calm
<1>9. \A q \in 1..Len(U.promise) :
        U.promise[q].state # "pending" => T.promise[q] = U.promise[q]
  <2>1. CASE FirstCall(U, T, f, Undefined, 0)
    BY <2>1, Zenon DEF FirstCall, Moves
  <2> QED
    BY <1>6, <2>1, Zenon
<1>10. \A i \in 1..Len(T.job_list) :
         \/ i \in 1..Len(U.job_list) /\ T.job_list[i] = U.job_list[i]
         \/ U.promise[T.job_list[i].promise].state = "pending"
  <2>1. CASE FirstCall(U, T, f, Undefined, 0)
    BY <2>1, Zenon DEF FirstCall, Moves
  <2> QED
    BY <1>6, <2>1, Zenon
<1>11. \/ /\ job.promise = t /\ job.is_reject = 0 /\ rd = [fn |-> c, handler |-> HostOk]
       \/ /\ job.promise = d /\ job.is_reject = 1 /\ rd = [fn |-> e, handler |-> HostErr]
  BY <1>1, <1>2, Zenon DEF Placed, IsHostHandler
<1>12. \/ /\ job.promise = t /\ f = c /\ rd.handler.kind = "ok"
          /\ U.promise[t].state = "fulfilled" /\ U.promise[t].result = job.arg
       \/ /\ job.promise = d /\ f = e /\ rd.handler.kind = "err"
          /\ U.promise[d].state = "rejected" /\ U.promise[d].result = job.arg
  BY <1>2, <1>11 DEF SettledState, HostOk, HostErr, f
<1>13. "pending" # "rejected" /\ "pending" # "fulfilled" /\ "fulfilled" # "rejected"
       /\ "ok" # "err" /\ 0 # 1
  OBVIOUS
<1>14. /\ t \in 1..Len(U.promise) /\ d \in 1..Len(U.promise)
       /\ t \in 1..Len(T.promise) /\ d \in 1..Len(T.promise)
  BY <1>8, Zenon DEF Verdict
<1>15. /\ U.promise[t].state = IF rd.handler.kind = "ok" THEN "fulfilled" ELSE "rejected"
       /\ U.promise[t].result = job.arg
  BY <1>8, <1>12, <1>13, Zenon DEF Verdict
<1>16. T.promise[t] = U.promise[t] /\ T.promise[t].state # "pending"
  BY <1>9, <1>13, <1>14, <1>15, Zenon
<1>17. T.promise[d].state # "pending" /\ U.promise[job.promise].state # "pending"
  <2>1. CASE /\ job.promise = d /\ f = e /\ rd.handler.kind = "err"
             /\ U.promise[d].state = "rejected"
    BY <1>9, <1>13, <1>14, <2>1, Zenon
  <2>2. CASE /\ job.promise = t /\ f = c /\ rd.handler.kind = "ok"
             /\ U.promise[t].state = "fulfilled"
    <3>1. CASE T = U /\ ~Unresolved(U, f)
      BY <1>8, <1>13, <2>2, <3>1, Zenon DEF Verdict
    <3>2. CASE FirstCall(U, T, f, Undefined, 0)
      <4>1. T.promise[U.func[f].promise].state = "fulfilled"
        BY <3>2, Zenon DEF FirstCall
      <4> QED
        BY <1>8, <1>13, <2>2, <4>1, Zenon DEF Verdict
    <3> QED
      BY <1>6, <3>1, <3>2, Zenon
  <2> QED
    BY <1>12, <2>1, <2>2, Zenon
<1>18. ASSUME NEW q, NEW b, NEW r, Occurs(T, q, b, r), IsHostHandler(r)
       PROVE  FALSE
  <2>1. \/ q = t /\ b = 0 /\ r.fn = c
        \/ q = d /\ b = 1 /\ r.fn = e
    <3>1. \/ q = t /\ b = 0 /\ r = [fn |-> c, handler |-> HostOk]
          \/ q = d /\ b = 1 /\ r = [fn |-> e, handler |-> HostErr]
      BY <1>5, <1>18, Zenon DEF Calm, PlacedAll, Placed
    <3> QED
      BY <3>1
  <2>2. T.promise[q].state # "pending" /\ q \in 1..Len(T.promise)
    BY <1>14, <1>16, <1>17, <2>1, Zenon
  <2>3. T.promise[q].reactions = NoReactions
    BY <1>5, <2>2, Zenon DEF Calm, EmptySettled
  <2>4. \A x \in 0..1 : 1..Len(T.promise[q].reactions[x]) = {}
    BY <2>3 DEF NoReactions
  <2>5. PICK i \in 1..Len(T.job_list) :
          /\ IsReactionJob(T, i)
          /\ T.job_list[i].promise = q /\ T.job_list[i].is_reject = b
          /\ T.job_list[i].rd = r
    BY <1>18, <2>4, Zenon DEF Occurs
  <2>6. T.promise[q].state = SettledState(b)
    BY <1>3, <2>5, Zenon DEF JobsFaithful
  <2>7. q = job.promise /\ r.fn = f
    <3>1. CASE q = t /\ b = 0 /\ r.fn = c
      <4>1. T.promise[t].state = "fulfilled"
        BY <2>6, <3>1 DEF SettledState
      <4>2. rd.handler.kind = "ok"
        BY <1>13, <1>15, <1>16, <4>1, Zenon
      <4> QED
        BY <1>12, <1>13, <3>1, <4>2, Zenon
    <3>2. CASE q = d /\ b = 1 /\ r.fn = e
      <4>1. T.promise[d].state = "rejected"
        BY <2>6, <3>2 DEF SettledState
      <4>2. T.promise[t].state = "rejected"
        BY <1>8, <4>1, Zenon DEF Verdict
      <4>3. rd.handler.kind # "ok"
        BY <1>13, <1>15, <1>16, <4>2, Zenon
      <4> QED
        BY <1>12, <3>2, <4>3, Zenon
    <3> QED
      BY <2>1, <3>1, <3>2, Zenon
  <2>8. i \in 1..Len(U.job_list) /\ T.job_list[i] = U.job_list[i]
    BY <1>10, <1>17, <2>5, <2>7, Zenon
  <2>9. /\ IsReactionJob(U, i) /\ U.job_list[i].promise = job.promise
        /\ U.job_list[i].rd.fn = f
    BY <2>5, <2>7, <2>8, Zenon DEF IsReactionJob
  <2>10. f # 0
    BY <1>3, <1>7
  <2> QED
    BY <1>1, <1>3, <1>7, <2>8, <2>9, <2>10, FirstJobIsOnly, Zenon DEF U, job, rd, f
<1>19. Calm(T, 0, 0, 0, 0)
  BY <1>3, <1>5, <1>18, NoHandlers, Zenon DEF Calm
<1>20. 0 \notin FramePairs(running')
  BY <1>1 DEF FramePairs
<1>21. Safe(0, 0, 0, 0)'
  BY <1>1, <1>3, <1>19, <1>20, LeadsToSafe, Zenon
<1> QED
  BY <1>14, <1>15, <1>16, <1>21, Zenon DEF T, U, job, rd, f
-----------------------------------------------------------------------------
(* The invariant of the loop                                               *)

\* There is one activation.
Only(pc, t) == <<[pc |-> pc, target |-> t, base |-> 0]>>

\* The handlers are attached to t and have not run.
Waiting(t) == \E c, d, e \in Nat \ {0} : Safe(t, c, d, e)

\* A handler has run and the variables hold the outcome of t.
Answered(t) ==
  /\ Safe(0, 0, 0, 0) /\ running = <<>>
  /\ t \in 1..Len(promise) /\ promise[t].result = __promiseValue
  /\ \/ __promiseResult = "true" /\ promise[t].state = "fulfilled"
     \/ __promiseResult = "false" /\ promise[t].state = "rejected"

Idle == calls = <<>> /\ running = <<>> /\ Safe(0, 0, 0, 0) /\ EvalReturnsOutcome

(***************************************************************************)
(* Where an activation is.  It is lost, or it waits for t with both        *)
(* handlers in place and __promiseResult 0, or a handler has run and none  *)
(* is left.                                                                *)
(***************************************************************************)
Busy(t) ==
  \/ calls = Only("script", 0) /\ Safe(0, 0, 0, 0)
  \/ calls = Only("null", t)
  \/ calls = Only("loop", t) /\ running = <<>> /\ __promiseResult = "0" /\ Waiting(t)
  \/ calls = Only("job", t) /\ __promiseResult = "0" /\ Waiting(t)
  \/ calls = Only("job", t) /\ Answered(t)

Phase == Idle \/ (returned = NoOutcome /\ \E t \in Nat : Busy(t))

LoopInv == /\ failures \in Nat /\ nested \in BOOLEAN /\ meddled \in BOOLEAN
           /\ Undisturbed => OutcomeInv /\ Phase

\* The only activation is the head of the stack.
LEMMA OnlyCall ==
  ASSUME NEW x, NEW pc, NEW t, x = Only(pc, t)
  PROVE  /\ x # <<>> /\ Tail(x) = <<>> /\ Head(x).pc = pc /\ Head(x).target = t
         /\ Head(x).base = 0
BY DEF Only

\* What SetCall makes of the stack x.
GoesOn(x, pd, u) == <<[Head(x) EXCEPT !.pc = pd, !.target = u]>> \o Tail(x)

\* The only activation goes on to pd.
LEMMA OnlyGoesOn ==
  ASSUME NEW x, NEW pc, NEW t, x = Only(pc, t), NEW pd, NEW u
  PROVE  GoesOn(x, pd, u) = Only(pd, u)
<1> DEFINE h == Head(x)
           y == [h EXCEPT !.pc = pd]
           z == [y EXCEPT !.target = u]
<1>1. h = [pc |-> pc, target |-> t, base |-> 0] /\ Tail(x) = <<>>
  BY DEF Only
<1> HIDE DEF h
<1>2. y = [pc |-> pd, target |-> t, base |-> 0]
  BY <1>1
<1> HIDE DEF y
<1>3. z = [pc |-> pd, target |-> u, base |-> 0]
  BY <1>2
<1> HIDE DEF z
<1>4. <<z>> \o <<>> = <<z>>
  OBVIOUS
<1>5. <<z>> \o Tail(x) = Only(pd, u)
  BY <1>1, <1>3, <1>4, Zenon DEF Only
<1> QED
  BY <1>5, Zenon DEF z, y, h, GoesOn

\* What the operators of EventLoop say when there is one activation.
LEMMA OnlyActivation ==
  ASSUME NEW pc, NEW t, calls = Only(pc, t), running \in Seq(Frame(Len(func)))
  PROVE  /\ \A pd : At(pd) <=> pd = pc
         /\ AtBase <=> running = <<>>
         /\ Head(calls).target = t
         /\ \A pd, u : SetCall(pd, u) => calls' = Only(pd, u)
         /\ \A tag, v : ReturnCall(tag, v) =>
              calls' = <<>> /\ returned' = [tag |-> tag, value |-> v, target |-> t]
<1>1. /\ calls # <<>> /\ Tail(calls) = <<>> /\ Head(calls).pc = pc /\ Head(calls).target = t
      /\ Head(calls).base = 0
  BY OnlyCall
<1>2. \A pd : At(pd) <=> pd = pc
  BY <1>1, Zenon DEF At
<1>3. AtBase <=> running = <<>>
  <2>1. Len(running) = 0 <=> running = <<>>
    BY EmptySeq, Zenon
  <2> QED
    BY <1>1, <2>1, Zenon DEF AtBase
<1>4. ASSUME NEW pd, NEW u, SetCall(pd, u) PROVE calls' = Only(pd, u)
  <2>1. calls' = GoesOn(calls, pd, u)
    BY <1>4, Zenon DEF SetCall, GoesOn
  <2>2. GoesOn(calls, pd, u) = Only(pd, u)
    BY OnlyGoesOn
  <2> QED
    BY <2>1, <2>2
<1>5. \A tag, v : ReturnCall(tag, v) =>
        calls' = <<>> /\ returned' = [tag |-> tag, value |-> v, target |-> t]
  BY <1>1, Zenon DEF ReturnCall
<1> QED
  BY <1>1, <1>2, <1>3, <1>4, <1>5

\* A step that leaves the engine alone.
LEMMA EngineRests ==
  ASSUME OutcomeInv, UNCHANGED vars
  PROVE  /\ OutcomeInv'
         /\ \A t, c, d, e : Safe(t, c, d, e) => Safe(t, c, d, e)'
<1>1. /\ Become(Now) /\ running' = running /\ func' = func /\ promise' = promise
  BY DEF vars, Become, Now
<1>2. /\ Sound(Now, FramePairs(running), FramePairs(running), ThenablePairs(running))
      /\ Good(Now) /\ WellFormed(Now)
  BY SoundFacts, Zenon
<1>3. SoundNow'
  BY <1>1, <1>2, LeadsToSound, Zenon
<1>4. IInv'
  <2>1. running' \in Seq(Frame(Len(Now.func)))
    BY <1>1, NowFacts, Zenon DEF OutcomeInv
  <2> QED
    BY <1>1, <1>2, <2>1, LeadsToIInv, Zenon
<1>5. ASSUME NEW t, NEW c, NEW d, NEW e, Safe(t, c, d, e) PROVE Safe(t, c, d, e)'
  BY <1>1, <1>2, <1>5, LeadsToSafe, Zenon DEF Safe
<1> QED
  BY <1>3, <1>4, <1>5, Zenon DEF OutcomeInv

\* A step of the engine that runs no handler of the host.
LEMMA EngineSteps ==
  ASSUME OutcomeInv,
         \/ PromiseConstructor \/ CallResolvingFunction \/ Then \/ AsyncFunctionCall
         \/ FrameEnds \/ ExecutePendingJob
  PROVE  /\ OutcomeInv'
         /\ \A t, c, d, e : Safe(t, c, d, e) => Safe(t, c, d, e)'
<1>1. OutcomeInv'
  BY ScriptStepIInv, FrameEndsIInv, ExecutePendingJobIInv,
     ScriptStepSound, FrameEndsSound, ExecutePendingJobSound, Zenon DEF OutcomeInv
<1>2. ASSUME NEW t, NEW c, NEW d, NEW e, Safe(t, c, d, e) PROVE Safe(t, c, d, e)'
  BY <1>2, ScriptStepSafe, FrameEndsSafe, ExecutePendingJobSafe, Zenon
<1> QED
  BY <1>1, <1>2, Zenon

\* Then whoever waited waits.
LEMMA WaitingStays ==
  ASSUME NEW t, Waiting(t), \A u, c, d, e : Safe(u, c, d, e) => Safe(u, c, d, e)'
  PROVE  Waiting(t)'
BY Zenon DEF Waiting

\* Before the first call.
LEMMA LoopInvInit ==
  ASSUME LoopInit
  PROVE  LoopInv
<1>1. /\ Now = [promise |-> <<>>, func |-> <<>>, job_list |-> <<>>] /\ running = <<>>
      /\ calls = <<>> /\ returned = NoOutcome /\ failures = 0 /\ nested = FALSE
      /\ func = <<>> /\ meddled = FALSE
  BY DEF LoopInit, Init, Now
<1>2. OutcomeInv
  <2>1. Good(Now)
    <3>1. WellFormed(Now)
      BY <1>1 DEF WellFormed
    <3> QED
      BY <1>1, <3>1 DEF Good, Rights, RightsArePending, RightsAreDistinct
  <2>2. IInv
    BY <1>1, <2>1 DEF IInv, FramesOK
  <2>3. FramePairs(running) = {} /\ ThenablePairs(running) = {}
    BY <1>1 DEF FramePairs, ThenablePairs
  <2>4. /\ ListsOrdered(Now) /\ JobsOrdered(Now) /\ JobsFaithful(Now)
        /\ Final(Now) /\ Agree(Now) /\ ListRoles(Now) /\ JobRoles(Now)
    BY <1>1 DEF ListsOrdered, JobsOrdered, JobsFaithful, Final, Agree, ListRoles, JobRoles
  <2>5. PairRoles(Now, {}) /\ Served(Now, {}) /\ HeldPairs(Now, {})
    BY <1>1 DEF PairRoles, Served, HeldPairs
  <2> QED
    BY <2>2, <2>3, <2>4, <2>5, Zenon DEF OutcomeInv, SoundNow, Sound
<1>3. Safe(0, 0, 0, 0)
  <2>1. WellFormed(Now)
    BY <1>2, NowFacts, Zenon DEF OutcomeInv, Good
  <2>2. EmptySettled(Now)
    BY <1>1 DEF EmptySettled
  <2>3. \A q, b, rd : ~Occurs(Now, q, b, rd)
    BY <1>1 DEF Occurs
  <2>4. 0 \notin FramePairs(running)
    BY <1>1 DEF FramePairs
  <2> QED
    BY <2>1, <2>2, <2>3, <2>4, NoHandlers, Zenon DEF Safe
<1>4. EvalReturnsOutcome
  BY <1>1 DEF EvalReturnsOutcome, NoOutcome
<1>5. failures \in Nat /\ nested \in BOOLEAN /\ meddled \in BOOLEAN
  BY <1>1, Zenon
<1> QED
  BY <1>1, <1>2, <1>3, <1>4, <1>5, Zenon DEF LoopInv, Phase, Idle
-----------------------------------------------------------------------------
(* Every action keeps the invariant                                        *)

\* What the invariant says at each place of the activation.
LEMMA PhaseAt ==
  ASSUME OutcomeInv, Phase, NEW pc, At(pc)
  PROVE  /\ returned = NoOutcome
         /\ running \in Seq(Frame(Len(func)))
         /\ pc # "attach"
         /\ \E t \in Nat :
              /\ calls = Only(pc, t)
              /\ pc = "script" => t = 0 /\ Safe(0, 0, 0, 0)
              /\ pc = "loop" => running = <<>> /\ __promiseResult = "0" /\ Waiting(t)
              /\ pc = "job" => \/ __promiseResult = "0" /\ Waiting(t)
                               \/ Answered(t)
<1>1. running \in Seq(Frame(Len(func)))
  BY NowFacts, Zenon DEF OutcomeInv
<1>2. calls # <<>> /\ Head(calls).pc = pc
  BY DEF At
<1>3. PICK t \in Nat : Busy(t)
  BY <1>2, Zenon DEF Phase, Idle
<1>4. returned = NoOutcome
  BY <1>2, Zenon DEF Phase, Idle
<1>5. \A pd, u : calls = Only(pd, u) => pd = pc
  BY <1>2, OnlyCall
<1>6. /\ "script" # "null" /\ "script" # "loop" /\ "script" # "job"
      /\ "null" # "loop" /\ "null" # "job" /\ "loop" # "job" /\ 0 \in Nat
      /\ "attach" # "script" /\ "attach" # "null" /\ "attach" # "loop" /\ "attach" # "job"
  OBVIOUS
<1>7. CASE calls = Only("script", 0) /\ Safe(0, 0, 0, 0)
  BY <1>1, <1>4, <1>5, <1>6, <1>7, Zenon
<1>8. CASE calls = Only("null", t)
  BY <1>1, <1>4, <1>5, <1>6, <1>8, Zenon
<1>9. CASE calls = Only("loop", t) /\ running = <<>> /\ __promiseResult = "0" /\ Waiting(t)
  BY <1>1, <1>4, <1>5, <1>6, <1>9, Zenon
<1>10. CASE calls = Only("job", t) /\ __promiseResult = "0" /\ Waiting(t)
  BY <1>1, <1>4, <1>5, <1>6, <1>10, Zenon
<1>11. CASE calls = Only("job", t) /\ Answered(t)
  BY <1>1, <1>4, <1>5, <1>6, <1>11, Zenon
<1> QED
  BY <1>3, <1>7, <1>8, <1>9, <1>10, <1>11, Zenon DEF Busy

\* A call of eval that is not nested starts where there is no handler.
LEMMA EvalPhase ==
  ASSUME OutcomeInv, Phase, Eval, ~nested'
  PROVE  OutcomeInv' /\ Phase'
<1>1. /\ calls = <<>> /\ returned' = NoOutcome /\ UNCHANGED vars
      /\ calls' = <<[pc |-> "script", target |-> 0, base |-> Len(running)]>> \o calls
  BY Zenon DEF Eval
<1>2. ASSUME NEW pc, NEW t PROVE calls # Only(pc, t)
  BY <1>1, OnlyCall
<1>3. running = <<>> /\ Safe(0, 0, 0, 0)
  BY <1>2, Zenon DEF Phase, Busy, Idle
<1>4. calls' = Only("script", 0)
  BY <1>1, <1>3 DEF Only
<1>5. OutcomeInv' /\ Safe(0, 0, 0, 0)'
  BY <1>1, <1>3, EngineRests, Zenon
<1>6. Busy(0)' /\ 0 \in Nat
  BY <1>4, <1>5, Zenon DEF Busy
<1> QED
  BY <1>1, <1>5, <1>6, Zenon DEF Phase

\* Script code moves no handler, whether it is that of eval or of a job.
LEMMA ScriptStepPhase ==
  ASSUME OutcomeInv, Phase, ScriptStep
  PROVE  OutcomeInv' /\ Phase'
<1>1. /\ InScript
      /\ \/ PromiseConstructor \/ CallResolvingFunction \/ Then \/ AsyncFunctionCall
         \/ FrameEnds \/ ExecutePendingJob
      /\ calls' = calls /\ returned' = returned /\ __promiseResult' = __promiseResult
  BY Zenon DEF ScriptStep, loopVars
<1>2. OutcomeInv' /\ \A u, c, d, e : Safe(u, c, d, e) => Safe(u, c, d, e)'
  BY <1>1, EngineSteps, Zenon
<1>3. CASE At("script")
  <2>1. returned = NoOutcome /\ calls = Only("script", 0) /\ Safe(0, 0, 0, 0)
    BY <1>3, PhaseAt, Zenon
  <2>2. Busy(0)' /\ 0 \in Nat
    BY <1>1, <1>2, <2>1, Zenon DEF Busy
  <2> QED
    BY <1>1, <1>2, <2>1, <2>2, Zenon DEF Phase
<1>4. CASE At("job") /\ ~AtBase
  <2>1. /\ returned = NoOutcome /\ running \in Seq(Frame(Len(func)))
        /\ \E t \in Nat : calls = Only("job", t) /\ \/ __promiseResult = "0" /\ Waiting(t)
                                                    \/ Answered(t)
    BY <1>4, PhaseAt, Zenon
  <2>2. PICK t \in Nat : calls = Only("job", t) /\ \/ __promiseResult = "0" /\ Waiting(t)
                                                   \/ Answered(t)
    BY <2>1, Zenon
  <2>3. running # <<>>
    BY <1>4, <2>1, <2>2, OnlyActivation, Zenon
  <2>4. __promiseResult = "0" /\ Waiting(t)
    BY <2>2, <2>3, Zenon DEF Answered
  <2>5. Waiting(t)'
    BY <1>2, <2>4, WaitingStays, Zenon
  <2>6. Busy(t)'
    BY <1>1, <2>2, <2>4, <2>5, Zenon DEF Busy
  <2> QED
    BY <1>1, <1>2, <2>1, <2>6, Zenon DEF Phase
<1> QED
  BY <1>1, <1>3, <1>4, PhaseAt, Zenon DEF InScript

\* What the script of eval sets the variables to is overwritten later.
LEMMA ScriptSetsPhase ==
  ASSUME OutcomeInv, Phase, ScriptSetsVariables, At("script")
  PROVE  OutcomeInv' /\ Phase'
<1>1. UNCHANGED vars /\ calls' = calls /\ returned' = returned
  BY Zenon DEF ScriptSetsVariables
<1>2. returned = NoOutcome /\ calls = Only("script", 0) /\ Safe(0, 0, 0, 0)
  BY PhaseAt, Zenon
<1>3. OutcomeInv' /\ Safe(0, 0, 0, 0)'
  BY <1>1, <1>2, EngineRests, Zenon
<1>4. Busy(0)' /\ 0 \in Nat
  BY <1>1, <1>2, <1>3, Zenon DEF Busy
<1> QED
  BY <1>1, <1>2, <1>3, <1>4, Zenon DEF Phase

\* A script that throws, or whose value is no promise, had no promise to wait
\* for; one whose value is a promise has the handlers attached to it.
LEMMA ScriptEndsPhase ==
  ASSUME OutcomeInv, Phase, ScriptThrows \/ ScriptReturns, ~meddled'
  PROVE  OutcomeInv' /\ Phase'
<1>1. At("script") /\ AtBase
  BY Zenon DEF ScriptThrows, ScriptReturns
<1>2. /\ returned = NoOutcome /\ calls = Only("script", 0) /\ Safe(0, 0, 0, 0)
      /\ running \in Seq(Frame(Len(func)))
  BY <1>1, PhaseAt, Zenon
<1>3. /\ running = <<>>
      /\ \A pd, u : SetCall(pd, u) => calls' = Only(pd, u)
      /\ \A tag, v : ReturnCall(tag, v) =>
           calls' = <<>> /\ returned' = [tag |-> tag, value |-> v, target |-> 0]
  BY <1>1, <1>2, OnlyActivation, Zenon
<1>4. ASSUME NEW tag, NEW v, ReturnCall(tag, v), UNCHANGED vars
      PROVE  OutcomeInv' /\ Phase'
  <2>1. calls' = <<>> /\ returned' = [tag |-> tag, value |-> v, target |-> 0]
    BY <1>3, <1>4, Zenon
  <2>2. OutcomeInv' /\ Safe(0, 0, 0, 0)'
    BY <1>2, <1>4, EngineRests, Zenon
  <2>3. running' = <<>>
    BY <1>3, <1>4 DEF vars
  <2>4. EvalReturnsOutcome'
    <3>1. returned'.target = 0
      BY <2>1
    <3> QED
      BY <3>1, Zenon DEF EvalReturnsOutcome
  <2> QED
    BY <2>1, <2>2, <2>3, <2>4, Zenon DEF Phase, Idle
<1>5. CASE ScriptThrows
  BY <1>4, <1>5, Zenon DEF ScriptThrows
<1>6. CASE ScriptReturns
  <2>1. PICK v \in Input : ResolveValue(v)
    BY <1>6, Zenon DEF ScriptReturns
  <2>2. CASE v.kind # "promise"
    BY <1>4, <2>1, <2>2, Zenon DEF ResolveValue
  <2>3. CASE v.kind = "promise"
    <3> DEFINE t == v.ref
               T == AttachHandlers(Now, t)
               R == FramePairs(running)
               H == ThenablePairs(running)
    <3>1. /\ Become(T) /\ __promiseResult' = "0" /\ SetCall("loop", t)
          /\ running' = running /\ returned' = returned
      BY <2>1, <2>3, Zenon DEF ResolveValue, IsPromise
    <3>2. t \in 1..Len(Now.promise) /\ t \in Nat
      <4>1. Now.promise = promise /\ Input \subseteq ValOf(Len(promise)) /\ Len(promise) \in Nat
        BY <1>2, SafeFacts, Zenon
      <4>2. t \in 1..Len(promise)
        BY <2>3, <4>1, Zenon DEF ValOf
      <4> QED
        BY <4>1, <4>2
    <3>3. /\ Good(Now) /\ Sound(Now, R, R, H) /\ R \subseteq 1..Len(Now.func)
          /\ Calm(Now, 0, 0, 0, 0)
      <4>1. Good(Now) /\ Sound(Now, R, R, H) /\ R \subseteq 1..Len(func)
        BY SoundFacts, Zenon
      <4>2. Calm(Now, 0, 0, 0, 0) /\ Now.func = func
        BY <1>2, SafeFacts, Zenon
      <4> QED
        BY <4>1, <4>2, Zenon
    <3> HIDE DEF t, R, H
    <3>4. Attached(Now, T, t, R, R, H)
      BY <3>2, <3>3, AttachHandlersEffect, Zenon
    <3> HIDE DEF T
    <3>5. Good(T) /\ Sound(T, R, R, H) /\ WellFormed(T)
      BY <3>4, Zenon DEF Attached, Good
    <3>6. PICK c, d, e \in Nat \ {0} : Calm(T, t, c, d, e) /\ c \notin R
      BY <3>4, Zenon DEF Attached
    <3>7. running' = <<>> /\ FramePairs(running') = R /\ ThenablePairs(running') = H
      BY <1>3, <3>1 DEF R, H
    <3>8. OutcomeInv'
      <4>1. running' \in Seq(Frame(Len(T.func)))
        BY <3>7
      <4>2. IInv'
        BY <3>1, <3>5, <4>1, LeadsToIInv, Zenon
      <4>3. SoundNow'
        BY <3>1, <3>5, <3>7, LeadsToSound, Zenon
      <4> QED
        BY <4>2, <4>3, Zenon DEF OutcomeInv
    <3>9. Safe(t, c, d, e)'
      BY <3>1, <3>5, <3>6, <3>7, LeadsToSafe, Zenon
    <3>10. Waiting(t)'
      BY <3>6, <3>9, Zenon DEF Waiting
    <3>11. Busy(t)'
      BY <1>3, <3>1, <3>7, <3>10, Zenon DEF Busy
    <3> QED
      BY <1>2, <3>1, <3>2, <3>8, <3>11, Zenon DEF Phase
  <2> QED
    BY <2>2, <2>3, Zenon
<1> QED
  BY <1>5, <1>6
\* The steps of the loop before a result is there.
LEMMA LoopWaitsPhase ==
  ASSUME OutcomeInv, Phase, LoopFindsNoJob \/ LoopRunsJob
  PROVE  OutcomeInv' /\ Phase'
<1>1. At("loop")
  BY Zenon DEF LoopFindsNoJob, LoopRunsJob
<1>2. /\ returned = NoOutcome /\ running \in Seq(Frame(Len(func)))
      /\ \E t \in Nat : /\ calls = Only("loop", t)
                        /\ running = <<>> /\ __promiseResult = "0" /\ Waiting(t)
  BY <1>1, PhaseAt, Zenon
<1>3. PICK t \in Nat : /\ calls = Only("loop", t)
                       /\ running = <<>> /\ __promiseResult = "0" /\ Waiting(t)
  BY <1>2, Zenon
<1>4. Head(calls).target = t /\ \A pd, u : SetCall(pd, u) => calls' = Only(pd, u)
  BY <1>2, <1>3, OnlyActivation, Zenon
<1>5. CASE LoopFindsNoJob
  <2>1. SetCall("null", t) /\ UNCHANGED vars /\ returned' = returned
    BY <1>4, <1>5, Zenon DEF LoopFindsNoJob
  <2>2. Busy(t)'
    BY <1>4, <2>1, Zenon DEF Busy
  <2> QED
    BY <1>2, <2>1, <2>2, EngineRests, Zenon DEF Phase
<1>6. CASE LoopRunsJob
  <2>1. /\ ExecutePendingJob /\ SetCall("job", t)
        /\ __promiseResult' = __promiseResult /\ returned' = returned
    BY <1>4, <1>6, Zenon DEF LoopRunsJob, globals
  <2>2. OutcomeInv' /\ \A u, c, d, e : Safe(u, c, d, e) => Safe(u, c, d, e)'
    BY <2>1, EngineSteps, Zenon
  <2>3. Waiting(t)'
    BY <1>3, <2>2, WaitingStays, Zenon
  <2>4. Busy(t)'
    BY <1>3, <1>4, <2>1, <2>3, Zenon DEF Busy
  <2> QED
    BY <1>2, <2>1, <2>2, <2>4, Zenon DEF Phase
<1> QED
  BY <1>5, <1>6

\* The handler that runs is one of this activation, and the last one.
LEMMA LoopRunsHandlerPhase ==
  ASSUME OutcomeInv, Phase, LoopRunsHandler
  PROVE  OutcomeInv' /\ Phase'
<1> DEFINE job == Head(job_list)
           kind == job.rd.handler.kind
           S == ResolveFunctionCall(Dequeue, job.rd.fn, 0, Undefined)
<1>1. /\ At("loop") /\ job_list # <<>> /\ job.kind = "reaction" /\ kind \in {"ok", "err"}
      /\ __promiseResult' = (IF kind = "ok" THEN "true" ELSE "false")
      /\ __promiseValue' = job.arg /\ Become(S)
      /\ SetCall("job", Head(calls).target)
      /\ running' = running /\ returned' = returned
  BY Zenon DEF LoopRunsHandler, JobReady
<1>2. /\ returned = NoOutcome /\ running \in Seq(Frame(Len(func)))
      /\ \E t \in Nat : /\ calls = Only("loop", t)
                        /\ running = <<>> /\ __promiseResult = "0" /\ Waiting(t)
  BY <1>1, PhaseAt, Zenon
<1>3. PICK t \in Nat : /\ calls = Only("loop", t)
                       /\ running = <<>> /\ __promiseResult = "0" /\ Waiting(t)
  BY <1>2, Zenon
<1>4. calls' = Only("job", t)
  BY <1>1, <1>2, <1>3, OnlyActivation, Zenon
<1>5. PICK c, d, e \in Nat \ {0} : Safe(t, c, d, e)
  BY <1>3, Zenon DEF Waiting
<1>6. c # 0
  BY <1>5
<1>7. HandlerJob
  BY <1>1, Zenon DEF HandlerJob
<1>8. OutcomeInv'
  BY <1>5, <1>7, HandlerJobOutcome, Zenon
<1>9. /\ Safe(0, 0, 0, 0)' /\ t \in 1..Len(S.promise)
      /\ S.promise[t].state = IF kind = "ok" THEN "fulfilled" ELSE "rejected"
      /\ S.promise[t].result = job.arg
  BY <1>3, <1>5, <1>6, <1>7, HandlerJobQuiet, Zenon
<1> HIDE DEF S, job, kind
<1>10. promise' = S.promise
  BY <1>1, Zenon DEF Become
<1>11. Answered(t)'
  BY <1>1, <1>3, <1>9, <1>10, Zenon DEF Answered
<1>12. Busy(t)'
  BY <1>4, <1>11, Zenon DEF Busy
<1> QED
  BY <1>1, <1>2, <1>8, <1>12, Zenon DEF Phase

\* The loop goes on while __promiseResult is 0, and returns the outcome of its
\* promise once it is not; the value is no promise that it would wait for.
LEMMA LoopReadsResultPhase ==
  ASSUME OutcomeInv, Phase, LoopReadsResult, ~meddled'
  PROVE  OutcomeInv' /\ Phase'
<1>1. At("job") /\ AtBase
  BY Zenon DEF LoopReadsResult
<1>2. /\ returned = NoOutcome /\ running \in Seq(Frame(Len(func)))
      /\ \E t \in Nat : calls = Only("job", t) /\ \/ __promiseResult = "0" /\ Waiting(t)
                                                  \/ Answered(t)
  BY <1>1, PhaseAt, Zenon
<1>3. PICK t \in Nat : calls = Only("job", t) /\ \/ __promiseResult = "0" /\ Waiting(t)
                                                 \/ Answered(t)
  BY <1>2, Zenon
<1>4. /\ running = <<>> /\ Head(calls).target = t
      /\ \A pd, u : SetCall(pd, u) => calls' = Only(pd, u)
      /\ \A tag, v : ReturnCall(tag, v) =>
           calls' = <<>> /\ returned' = [tag |-> tag, value |-> v, target |-> t]
  BY <1>1, <1>2, <1>3, OnlyActivation, Zenon
<1>5. UNCHANGED vars => /\ running' = running /\ promise' = promise
                        /\ OutcomeInv'
                        /\ \A u, c, d, e : Safe(u, c, d, e) => Safe(u, c, d, e)'
  <2>1. UNCHANGED vars => running' = running /\ promise' = promise
    BY DEF vars
  <2> QED
    BY <2>1, EngineRests, Zenon
<1>6. CASE __promiseResult = "0" /\ Waiting(t)
  <2>1. /\ SetCall("loop", t) /\ UNCHANGED vars
        /\ __promiseResult' = __promiseResult /\ returned' = returned
    BY <1>4, <1>6 DEF LoopReadsResult, globals
  <2>2. Waiting(t)'
    BY <1>5, <1>6, <2>1, WaitingStays, Zenon
  <2>3. Busy(t)'
    BY <1>4, <1>5, <1>6, <2>1, <2>2, Zenon DEF Busy
  <2> QED
    BY <1>2, <1>5, <2>1, <2>3, Zenon DEF Phase
<1>7. CASE Answered(t)
  <2>1. /\ Safe(0, 0, 0, 0) /\ t \in 1..Len(promise) /\ promise[t].result = __promiseValue
        /\ \/ __promiseResult = "true" /\ promise[t].state = "fulfilled"
           \/ __promiseResult = "false" /\ promise[t].state = "rejected"
    BY <1>7, Zenon DEF Answered
  <2>2. promise[t].state = "fulfilled" => __promiseValue.kind # "promise"
    <3>1. Final(Now) /\ Now.promise = promise
      BY <2>1, SoundFacts, SafeFacts, Zenon DEF Sound
    <3>2. promise[t].state = "fulfilled" => __promiseValue.kind \in FinalKinds
      BY <2>1, <3>1, Zenon DEF Final
    <3> QED
      BY <3>2 DEF FinalKinds
  <2>3. /\ UNCHANGED vars
        /\ \/ __promiseValue = Undefined /\ ReturnCall("internal", Undefined)
           \/ __promiseResult = "true" /\ ReturnCall("ok", __promiseValue)
           \/ __promiseResult = "false" /\ ReturnCall("exception", __promiseValue)
    <3>1. /\ "true" # "false" /\ "fulfilled" # "rejected"
          /\ "true" # "0" /\ "false" # "0" /\ "true" # "unset" /\ "false" # "unset"
      OBVIOUS
    <3>2. __promiseResult # "0" /\ __promiseResult # "unset"
      BY <2>1, <3>1, Zenon
    <3>3. CASE __promiseResult = "true" /\ ResolveValue(__promiseValue)
      <4>1. __promiseValue.kind # "promise"
        BY <2>1, <2>2, <3>1, <3>3, Zenon
      <4> QED
        BY <3>3, <4>1, Zenon DEF ResolveValue
    <3> QED
      BY <3>2, <3>3, Zenon DEF LoopReadsResult
  <2>4. calls' = <<>> /\ \E tag, v : returned' = [tag |-> tag, value |-> v, target |-> t]
    BY <1>4, <2>3, Zenon
  <2>5. EvalReturnsOutcome'
    <3>1. /\ "true" # "false" /\ "ok" # "exception" /\ "internal" # "ok"
          /\ "internal" # "exception" /\ "fulfilled" # "pending" /\ "rejected" # "pending"
      OBVIOUS
    <3>2. ASSUME NEW tag, NEW v, ReturnCall(tag, v)
          PROVE  returned'.tag = tag /\ returned'.value = v /\ returned'.target = t
      <4>1. returned' = [tag |-> tag, value |-> v, target |-> t]
        BY <1>4, <3>2, Zenon
      <4> QED
        BY <4>1
    <3>3. promise' = promise
      BY <1>5, <2>3, Zenon
    <3>4. CASE __promiseValue = Undefined /\ ReturnCall("internal", Undefined)
      BY <2>1, <3>1, <3>2, <3>3, <3>4, Zenon DEF EvalReturnsOutcome
    <3>5. CASE __promiseResult = "true" /\ ReturnCall("ok", __promiseValue)
      BY <2>1, <3>1, <3>2, <3>3, <3>5, Zenon DEF EvalReturnsOutcome
    <3>6. CASE __promiseResult = "false" /\ ReturnCall("exception", __promiseValue)
      BY <2>1, <3>1, <3>2, <3>3, <3>6, Zenon DEF EvalReturnsOutcome
    <3> QED
      BY <2>3, <3>4, <3>5, <3>6, Zenon
  <2> QED
    BY <1>4, <1>5, <2>1, <2>3, <2>4, <2>5, Zenon DEF Phase, Idle
<1> QED
  BY <1>3, <1>6, <1>7, Zenon

\* LoopInv is inductive.
LEMMA LoopInvInductive == LoopSpec => []LoopInv
<1>1. LoopInit => LoopInv
  BY LoopInvInit
<1>2. LoopInv /\ [LoopNext]_allVars => LoopInv'
  <2>1. SUFFICES ASSUME LoopInv, [LoopNext]_allVars PROVE LoopInv'
    OBVIOUS
  <2>2. /\ failures \in Nat /\ nested \in BOOLEAN /\ meddled \in BOOLEAN
        /\ Undisturbed => OutcomeInv /\ Phase
    BY <2>1, Zenon DEF LoopInv
  <2>3. CASE UNCHANGED allVars
    <3>1. /\ UNCHANGED vars /\ failures' = failures /\ nested' = nested /\ calls' = calls
          /\ returned' = returned /\ __promiseResult' = __promiseResult
          /\ __promiseValue' = __promiseValue /\ running' = running /\ promise' = promise
          /\ meddled' = meddled
      BY <2>3 DEF allVars, loopVars, vars
    <3>2. ASSUME OutcomeInv, Phase PROVE OutcomeInv' /\ Phase'
      <4>1. OutcomeInv' /\ \A u, c, d, e : Safe(u, c, d, e) => Safe(u, c, d, e)'
        BY <3>1, <3>2, EngineRests, Zenon
      <4>2. EvalReturnsOutcome => EvalReturnsOutcome'
        BY <3>1, Zenon DEF EvalReturnsOutcome
      <4>3. Idle => Idle'
        BY <3>1, <4>1, <4>2, Zenon DEF Idle
      <4>4. ASSUME NEW t \in Nat, Busy(t) PROVE Busy(t)'
        <5>1. Waiting(t) => Waiting(t)'
          BY <4>1, WaitingStays, Zenon
        <5>2. Answered(t) => Answered(t)'
          BY <3>1, <4>1, Zenon DEF Answered
        <5> QED
          BY <3>1, <4>1, <4>4, <5>1, <5>2, Zenon DEF Busy
      <4> QED
        BY <3>1, <3>2, <4>1, <4>3, <4>4, Zenon DEF Phase
    <3> QED
      BY <2>2, <3>1, <3>2, Zenon DEF LoopInv, Undisturbed
  <2>4. CASE LoopRunsFailingJob
    <3>1. failures' \in Nat /\ failures' # 0 /\ nested' \in BOOLEAN /\ meddled' \in BOOLEAN
      BY <2>2, <2>4 DEF LoopRunsFailingJob
    <3> QED
      BY <3>1, Zenon DEF LoopInv, Undisturbed
  <2>5. CASE Eval
    <3>1. /\ failures' = failures /\ nested' = (nested \/ calls # <<>>)
          /\ nested' \in BOOLEAN /\ (~nested' => ~nested) /\ meddled' = meddled
      BY <2>2, <2>5 DEF Eval
    <3> QED
      BY <2>2, <2>5, <3>1, EvalPhase, Zenon DEF LoopInv, Undisturbed
  <2>6. CASE ScriptSetsVariables
    <3>1. /\ failures' = failures /\ nested' = nested /\ meddled' \in BOOLEAN
          /\ ~meddled' => ~meddled /\ At("script")
      BY <2>2, <2>6 DEF ScriptSetsVariables
    <3> QED
      BY <2>2, <2>6, <3>1, ScriptSetsPhase, Zenon DEF LoopInv, Undisturbed
  <2>7. CASE LookalikeReturns \/ LookalikeThrows
    <3>1. At("attach") /\ failures' = failures /\ nested' = nested /\ meddled' = meddled
      BY <2>7, Zenon DEF LookalikeReturns, LookalikeThrows
    <3> QED
      BY <2>2, <3>1, PhaseAt, Zenon DEF LoopInv, Undisturbed
  <2>8. CASE ScriptReturns \/ LoopReadsResult
    <3>1. failures' = failures /\ nested' = nested
      BY <2>8, Zenon DEF ScriptReturns, LoopReadsResult
    <3>2. meddled' = meddled \/ meddled' = TRUE
      BY <2>8, Zenon DEF ScriptReturns, LoopReadsResult, ResolveValue
    <3>3. meddled' \in BOOLEAN /\ (~meddled' => ~meddled)
      BY <2>2, <3>2
    <3>4. OutcomeInv /\ Phase /\ ~meddled' => OutcomeInv' /\ Phase'
      BY <2>8, ScriptEndsPhase, LoopReadsResultPhase, Zenon
    <3> QED
      BY <2>2, <3>1, <3>3, <3>4, Zenon DEF LoopInv, Undisturbed
  <2>9. ASSUME ScriptStep \/ ScriptThrows \/ LoopFindsNoJob \/ LoopRunsJob \/ LoopRunsHandler
        PROVE  LoopInv'
    <3>1. failures' = failures /\ nested' = nested /\ meddled' = meddled
      BY <2>9, Zenon DEF ScriptStep, ScriptThrows, LoopFindsNoJob, LoopRunsJob,
         LoopRunsHandler, loopVars
    <3>2. OutcomeInv /\ Phase /\ ~meddled' => OutcomeInv' /\ Phase'
      BY <2>9, ScriptStepPhase, ScriptEndsPhase, LoopWaitsPhase, LoopRunsHandlerPhase, Zenon
    <3> QED
      BY <2>2, <3>1, <3>2, Zenon DEF LoopInv, Undisturbed
  <2> QED
    BY <2>1, <2>3, <2>4, <2>5, <2>6, <2>7, <2>8, <2>9, Zenon DEF LoopNext
<1> QED
  BY <1>1, <1>2, PTL DEF LoopSpec

-----------------------------------------------------------------------------
(* Theorems                                                                *)

\* Calls of eval that are not nested, meet no failing job and are not interfered
\* with return the outcome of their own promises (an internal error when that is
\* undefined), although all that resolve_value goes by are two global variables
\* and handlers that run among the jobs of any other promise.
THEOREM EvalsReturnTheirOutcome == LoopSpec => []EvalReturnsOwnOutcome
<1>1. LoopInv => EvalReturnsOwnOutcome
  <2>1. SUFFICES ASSUME LoopInv, Undisturbed PROVE EvalReturnsOutcome
    BY Zenon DEF EvalReturnsOwnOutcome
  <2>2. CASE returned = NoOutcome
    BY <2>2 DEF EvalReturnsOutcome, NoOutcome
  <2> QED
    BY <2>1, <2>2, Zenon DEF LoopInv, Phase, Idle
<1> QED
  BY <1>1, LoopInvInductive, PTL

\* Between such calls neither the reaction lists nor the job queue hold a
\* handler that resolve_value attached.
THEOREM HandlersDoNotOutliveTheCall == LoopSpec => []NoStaleHandler
<1>1. LoopInv => NoStaleHandler
  <2>1. SUFFICES ASSUME LoopInv, calls = <<>>, Undisturbed
                 PROVE  /\ \A i \in 1..Len(job_list) : ~IsHostHandler(job_list[i].rd)
                        /\ \A p \in 1..Len(promise), b \in 0..1 :
                             \A i \in 1..Len(promise[p].reactions[b]) :
                               ~IsHostHandler(promise[p].reactions[b][i])
    BY Zenon DEF NoStaleHandler
  <2>2. OutcomeInv /\ Phase
    BY <2>1, Zenon DEF LoopInv
  <2>3. ASSUME NEW pc, NEW t PROVE calls # Only(pc, t)
    BY <2>1, OnlyCall
  <2>4. Safe(0, 0, 0, 0)
    BY <2>2, <2>3, Zenon DEF Phase, Busy, Idle
  <2>5. /\ Calm(Now, 0, 0, 0, 0) /\ WellFormed(Now)
        /\ Now.promise = promise /\ Now.job_list = job_list
    BY <2>2, <2>4, SafeFacts, Zenon
  <2>6. \A q, b, rd : Occurs(Now, q, b, rd) => ~IsHostHandler(rd)
    BY <2>5, NoHandlers, Zenon
  <2>7. ASSUME NEW i \in 1..Len(job_list) PROVE ~IsHostHandler(job_list[i].rd)
    <3>1. CASE job_list[i].kind = "reaction"
      BY <2>5, <2>6, <3>1, Zenon DEF Occurs, IsReactionJob
    <3>2. CASE job_list[i].kind # "reaction"
      <4>1. job_list[i] \in Job(Len(promise), Len(func))
        <5>1. Now.func = func
          BY <2>2, NowFacts, Zenon DEF OutcomeInv
        <5> QED
          BY <2>5, <5>1, Parts, Zenon
      <4>2. job_list[i].rd = NoReaction
        BY <3>2, <4>1 DEF Job
      <4> QED
        BY <4>2 DEF NoReaction, None, IsHostHandler
    <3> QED
      BY <3>1, <3>2
  <2>8. \A p \in 1..Len(promise), b \in 0..1 :
          \A i \in 1..Len(promise[p].reactions[b]) : ~IsHostHandler(promise[p].reactions[b][i])
    BY <2>5, <2>6, Zenon DEF Occurs
  <2> QED
    BY <2>7, <2>8
<1> QED
  BY <1>1, LoopInvInductive, PTL
=============================================================================
