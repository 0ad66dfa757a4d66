---------------------------- MODULE HandlerProofs ----------------------------
(***************************************************************************)
(* Where the two handlers that resolve_value attaches can be: in the       *)
(* reaction lists and the jobs where it put them, and nowhere else,        *)
(* whatever the engine does until it calls one of them.  EventLoopProofs   *)
(* rests on these lemmas.                                                  *)
(***************************************************************************)
EXTENDS PromiseOutcomeProofs, EventLoop

-----------------------------------------------------------------------------
(* Where the handlers of resolve_value are, on an engine state S           *)

\* The reaction rd is in list b of the promise q, or in a job of q.
Occurs(S, q, b, rd) ==
  \/ /\ q \in 1..Len(S.promise) /\ b \in 0..1
     /\ \E i \in 1..Len(S.promise[q].reactions[b]) : S.promise[q].reactions[b][i] = rd
  \/ \E i \in 1..Len(S.job_list) :
       /\ IsReactionJob(S, i)
       /\ S.job_list[i].promise = q /\ S.job_list[i].is_reject = b
       /\ S.job_list[i].rd = rd

(***************************************************************************)
(* resolve_value ran p.then(ok).catch(err) on the promise t: d is the      *)
(* promise that 'then' returned, c the pair that settles d, and e the      *)
(* capability of 'catch'.  The handlers are nowhere but where that put     *)
(* them, and only the reactions of t call c.  With zeros for all four      *)
(* there are no handlers.                                                  *)
(***************************************************************************)
Placed(t, c, d, e, q, b, rd) ==
  /\ IsHostHandler(rd) =>
       \/ q = t /\ b = 0 /\ rd = [fn |-> c, handler |-> HostOk]
       \/ q = d /\ b = 1 /\ rd = [fn |-> e, handler |-> HostErr]
  /\ c # 0 /\ rd.fn = c => q = t /\ rd.handler = IF b = 0 THEN HostOk ELSE None
  /\ c # 0 => rd.handler.fn # c

PlacedAll(S, t, c, d, e) ==
  \A q, b, rd : Occurs(S, q, b, rd) => Placed(t, c, d, e, q, b, rd)

\* The reactions of a settled promise are taken off its lists.
EmptySettled(S) ==
  \A q \in 1..Len(S.promise) :
    S.promise[q].state # "pending" => S.promise[q].reactions = NoReactions

\* The promise d is rejected only for the reason that t is.
Verdict(S, t, c, d) ==
  /\ c \in 1..Len(S.func) /\ ~S.func[c].held /\ S.func[c].promise = d
  /\ t \in 1..Len(S.promise) /\ d \in 1..Len(S.promise)
  /\ S.promise[d].state = "pending" => Unresolved(S, c)
  /\ S.promise[d].state = "rejected" =>
       /\ S.promise[t].state = "rejected"
       /\ S.promise[d].result = S.promise[t].result

Calm(S, t, c, d, e) ==
  /\ PlacedAll(S, t, c, d, e) /\ EmptySettled(S)
  /\ c # 0 => Verdict(S, t, c, d)

-----------------------------------------------------------------------------
(* Operations that settle no promise                                       *)

\* N holds the reactions that are new.
Mild(S, T, N) ==
  /\ \A q \in 1..Len(S.promise) :
       /\ q \in 1..Len(T.promise)
       /\ T.promise[q].state = S.promise[q].state
       /\ S.promise[q].state # "pending" => T.promise[q] = S.promise[q]
  /\ \A q \in 1..Len(T.promise) :
       q \notin 1..Len(S.promise) => T.promise[q].state = "pending"
  /\ \A g \in 1..Len(S.func) : g \in 1..Len(T.func) /\ T.func[g] = S.func[g]
  /\ \A q, b, rd : Occurs(T, q, b, rd) => Occurs(S, q, b, rd) \/ <<q, b, rd>> \in N

\* Such an operation leaves the handlers where they are.
LEMMA MildCalm ==
  ASSUME NEW S, NEW T, NEW N, Mild(S, T, N),
         NEW t, NEW c, NEW d, NEW e, Calm(S, t, c, d, e),
         \A q, b, rd : <<q, b, rd>> \in N => Placed(t, c, d, e, q, b, rd)
  PROVE  Calm(T, t, c, d, e)
<1>1. PlacedAll(T, t, c, d, e)
  BY Zenon DEF Mild, Calm, PlacedAll
<1>2. EmptySettled(T)
  <2>1. EmptySettled(S)
    BY Zenon DEF Calm
  <2> QED
    BY <2>1, Zenon DEF Mild, EmptySettled
<1>3. c # 0 => Verdict(T, t, c, d)
  <2>1. ASSUME c # 0 PROVE Verdict(T, t, c, d)
    <3>1. Verdict(S, t, c, d)
      BY <2>1, Zenon DEF Calm
    <3>2. "pending" # "rejected"
      OBVIOUS
    <3> QED
      BY <3>1, <3>2, Zenon DEF Mild, Verdict, Unresolved
  <2> QED
    BY <2>1
<1> QED
  BY <1>1, <1>2, <1>3, Zenon DEF Calm

\* Making a pair of resolving functions is one.
LEMMA AddsPairMild ==
  ASSUME NEW S, NEW T, NEW p, NEW held, WellFormed(S), AddsPair(S, T, p, held)
  PROVE  Mild(S, T, {})
<1>1. T.promise = S.promise /\ T.job_list = S.job_list
  BY Zenon DEF AddsPair
<1>2. Len(S.func) \in Nat /\ Len(T.func) = Len(S.func) + 1
      /\ \A g \in 1..Len(S.func) : T.func[g] = S.func[g]
  BY Parts, Zenon DEF AddsPair
<1>3. \A m \in Nat : \A g \in 1..m : g \in 1..(m + 1)
  OBVIOUS
<1>4. \A g \in 1..Len(S.func) : g \in 1..Len(T.func)
  BY <1>2, <1>3, Zenon
<1>5. \A q, b, rd : Occurs(T, q, b, rd) => Occurs(S, q, b, rd)
  BY <1>1, Zenon DEF Occurs, IsReactionJob
<1> QED
  BY <1>1, <1>2, <1>4, <1>5, Zenon DEF Mild

\* So is making a promise.
LEMMA AddsPromiseMild ==
  ASSUME NEW S, NEW T, NEW held, WellFormed(S), AddsPromise(S, T, held)
  PROVE  Mild(S, T, {})
<1> DEFINE np == Len(S.promise)
           nf == Len(S.func)
<1>1. /\ T.job_list = S.job_list /\ Len(T.promise) = np + 1 /\ Len(T.func) = nf + 1
      /\ \A q \in 1..np : T.promise[q] = S.promise[q]
      /\ T.promise[np + 1].state = "pending" /\ T.promise[np + 1].reactions = NoReactions
      /\ \A g \in 1..nf : T.func[g] = S.func[g]
  BY Zenon DEF AddsPromise
<1>2. np \in Nat /\ nf \in Nat
  BY Parts, Zenon
<1> HIDE DEF np, nf
<1>3. \A m \in Nat : /\ \A g \in 1..m : g \in 1..(m + 1)
                     /\ \A g \in 1..(m + 1) : g \in 1..m \/ g = m + 1
  OBVIOUS
<1>4. /\ \A q \in 1..np : q \in 1..Len(T.promise)
      /\ \A g \in 1..nf : g \in 1..Len(T.func)
      /\ \A q \in 1..Len(T.promise) : q \in 1..np \/ q = np + 1
  BY <1>1, <1>2, <1>3, Zenon
<1>5. \A b \in 0..1 : 1..Len(T.promise[np + 1].reactions[b]) = {}
  BY <1>1 DEF NoReactions
<1>6. ASSUME NEW q, NEW b, NEW rd, Occurs(T, q, b, rd) PROVE Occurs(S, q, b, rd)
  <2>1. CASE \E i \in 1..Len(T.job_list) :
               /\ IsReactionJob(T, i)
               /\ T.job_list[i].promise = q /\ T.job_list[i].is_reject = b
               /\ T.job_list[i].rd = rd
    BY <1>1, <2>1, Zenon DEF Occurs, IsReactionJob
  <2>2. CASE /\ q \in 1..Len(T.promise) /\ b \in 0..1
             /\ \E i \in 1..Len(T.promise[q].reactions[b]) : T.promise[q].reactions[b][i] = rd
    <3>1. q \in 1..np
      BY <1>4, <1>5, <2>2, Zenon
    <3> QED
      BY <1>1, <2>2, <3>1, Zenon DEF Occurs, np
  <2> QED
    BY <1>6, <2>1, <2>2, Zenon DEF Occurs
<1> QED
  BY <1>1, <1>4, <1>6, Zenon DEF Mild, np, nf

\* So is taking a job off the queue.
LEMMA TailOfMild ==
  ASSUME NEW S, WellFormed(S), S.job_list # <<>>
  PROVE  Mild(S, TailOf(S), {})
<1> DEFINE T == TailOf(S)
           n == Len(S.job_list)
<1>1. /\ T.promise = S.promise /\ T.func = S.func
      /\ n \in Nat \ {0} /\ Len(T.job_list) = n - 1
      /\ \A i \in 1..(n - 1) : T.job_list[i] = S.job_list[i + 1]
  BY TailOfType, Zenon
<1> HIDE DEF T, n
<1>2. \A m \in Nat \ {0} : \A i \in 1..(m - 1) : i + 1 \in 1..m
  OBVIOUS
<1>3. \A i \in 1..Len(T.job_list) :
        i + 1 \in 1..Len(S.job_list) /\ T.job_list[i] = S.job_list[i + 1]
  <2>1. \A i \in 1..(n - 1) : i + 1 \in 1..n /\ T.job_list[i] = S.job_list[i + 1]
    BY <1>1, <1>2, Zenon
  <2> QED
    BY <1>1, <2>1, Zenon DEF n
<1>4. ASSUME NEW q, NEW b, NEW rd, Occurs(T, q, b, rd) PROVE Occurs(S, q, b, rd)
  <2>1. CASE \E i \in 1..Len(T.job_list) :
               /\ IsReactionJob(T, i)
               /\ T.job_list[i].promise = q /\ T.job_list[i].is_reject = b
               /\ T.job_list[i].rd = rd
    BY <1>3, <2>1, Zenon DEF Occurs, IsReactionJob
  <2> QED
    BY <1>1, <1>4, <2>1, Zenon DEF Occurs
<1>5. Mild(S, T, {})
  BY <1>1, <1>4, Zenon DEF Mild
<1> QED
  BY <1>5, Zenon DEF T

\* The reactions that perform_promise_then makes.
NewReactions(p, handlers, fn) ==
  {<<p, b, [fn |-> fn, handler |-> handlers[b]]>> : b \in 0..1}

\* One for each list of p.
LEMMA NewReactionsAre ==
  ASSUME NEW p, NEW handlers, NEW fn, NEW q, NEW b, NEW rd
  PROVE  <<q, b, rd>> \in NewReactions(p, handlers, fn) <=>
           q = p /\ b \in 0..1 /\ rd = [fn |-> fn, handler |-> handlers[b]]
BY DEF NewReactions

\* perform_promise_then settles no promise either.
LEMMA PerformPromiseThenMild ==
  ASSUME NEW S, WellFormed(S), NEW p \in 1..Len(S.promise), NEW handlers, NEW fn,
         HandlersFor(Len(S.func), handlers, fn)
  PROVE  Mild(S, PerformPromiseThen(S, p, handlers, fn), NewReactions(p, handlers, fn))
<1> DEFINE T == PerformPromiseThen(S, p, handlers, fn)
           rd(b) == [fn |-> fn, handler |-> handlers[b]]
<1>1. CASE S.promise[p].state = "pending"
  <2>1. Registers(S, T, p, handlers, fn)
    BY <1>1, ThenPending, Zenon
  <2> HIDE DEF T
  <2>2. /\ T.func = S.func /\ T.job_list = S.job_list /\ Len(T.promise) = Len(S.promise)
        /\ \A q \in 1..Len(S.promise) : q # p => T.promise[q] = S.promise[q]
        /\ T.promise[p].state = "pending"
    BY <2>1, Zenon DEF Registers
  <2>3. ASSUME NEW b \in 0..1, NEW i \in 1..Len(T.promise[p].reactions[b])
        PROVE  \/ /\ i \in 1..Len(S.promise[p].reactions[b])
                  /\ T.promise[p].reactions[b][i] = S.promise[p].reactions[b][i]
               \/ T.promise[p].reactions[b][i] = rd(b)
    <3> DEFINE l == S.promise[p].reactions[b]
               m == T.promise[p].reactions[b]
    <3>1. m = Append(l, rd(b))
      BY <2>1, Zenon DEF Registers
    <3>2. l \in Seq(Reaction(Len(S.func))) /\ rd(b) \in Reaction(Len(S.func)) /\ Len(l) \in Nat
      BY Parts, Zenon DEF HandlersFor
    <3> HIDE DEF l, rd
    <3>3. /\ Len(m) = Len(l) + 1
          /\ \A j \in 1..Len(l) : m[j] = l[j]
          /\ m[Len(l) + 1] = rd(b)
      BY <3>1, <3>2, AppendProperties
    <3> HIDE DEF m
    <3>4. \A k \in Nat : \A j \in 1..(k + 1) : j \in 1..k \/ j = k + 1
      OBVIOUS
    <3>5. i \in 1..Len(m)
      BY Zenon DEF m
    <3>6. i \in 1..Len(l) \/ i = Len(l) + 1
      BY <3>2, <3>3, <3>4, <3>5, Zenon
    <3>7. (i \in 1..Len(l) /\ m[i] = l[i]) \/ m[i] = rd(b)
      BY <3>3, <3>6, Zenon
    <3> QED
      BY <3>7, Zenon DEF l, m
  <2> HIDE DEF rd
  <2>4. ASSUME NEW q, NEW b, NEW r, Occurs(T, q, b, r)
        PROVE  Occurs(S, q, b, r) \/ (q = p /\ b \in 0..1 /\ r = rd(b))
    <3>1. CASE \E i \in 1..Len(T.job_list) :
                 /\ IsReactionJob(T, i)
                 /\ T.job_list[i].promise = q /\ T.job_list[i].is_reject = b
                 /\ T.job_list[i].rd = r
      BY <2>2, <3>1, Zenon DEF Occurs, IsReactionJob
    <3>2. CASE /\ q \in 1..Len(T.promise) /\ b \in 0..1
               /\ \E i \in 1..Len(T.promise[q].reactions[b]) : T.promise[q].reactions[b][i] = r
      <4>1. CASE q # p
        BY <2>2, <3>2, <4>1, Zenon DEF Occurs
      <4>2. CASE q = p
        BY <2>2, <2>3, <3>2, <4>2, Zenon DEF Occurs
      <4> QED
        BY <4>1, <4>2
    <3> QED
      BY <2>4, <3>1, <3>2, Zenon DEF Occurs
  <2>5. ASSUME NEW q, NEW b, NEW r, Occurs(T, q, b, r)
        PROVE  Occurs(S, q, b, r) \/ <<q, b, r>> \in NewReactions(p, handlers, fn)
    <3>1. <<q, b, r>> \in NewReactions(p, handlers, fn) <=> q = p /\ b \in 0..1 /\ r = rd(b)
      BY NewReactionsAre DEF rd
    <3> QED
      BY <2>4, <2>5, <3>1, Zenon
  <2>6. \A q \in 1..Len(S.promise) :
          /\ T.promise[q].state = S.promise[q].state
          /\ S.promise[q].state # "pending" => T.promise[q] = S.promise[q]
    BY <1>1, <2>2, Zenon
  <2>7. Mild(S, T, NewReactions(p, handlers, fn))
    BY <2>2, <2>5, <2>6, Zenon DEF Mild
  <2> QED
    BY <2>7, Zenon DEF T
<1>2. CASE S.promise[p].state # "pending"
  <2>1. Queues(S, T, p, handlers, fn)
    BY <1>2, ThenSettled, Zenon
  <2> HIDE DEF T
  <2>2. T.func = S.func /\ T.promise = S.promise
    BY <2>1, Zenon DEF Queues
  <2>3. PICK x \in 0..1 : T.job_list = Append(S.job_list,
          ReactionJob(p, rd(x), x, S.promise[p].result))
    BY <2>1, Zenon DEF Queues
  <2> DEFINE J == ReactionJob(p, rd(x), x, S.promise[p].result)
             n == Len(S.job_list)
  <2>4. J.promise = p /\ J.is_reject = x /\ J.rd = rd(x)
    BY DEF ReactionJob
  <2>5. ASSUME NEW i \in 1..Len(T.job_list)
        PROVE  \/ i \in 1..n /\ T.job_list[i] = S.job_list[i]
               \/ T.job_list[i] = J
    <3>1. S.job_list \in Seq(Job(Len(S.promise), Len(S.func))) /\ n \in Nat
      BY DEF WellFormed
    <3> HIDE DEF J
    <3>2. T.job_list = Append(S.job_list, J)
      BY <2>3, Zenon DEF J
    <3>3. /\ Len(T.job_list) = n + 1
          /\ \A j \in 1..n : T.job_list[j] = S.job_list[j]
          /\ T.job_list[n + 1] = J
      BY <3>1, <3>2
    <3> HIDE DEF n
    <3>4. \A k \in Nat : \A j \in 1..(k + 1) : j \in 1..k \/ j = k + 1
      OBVIOUS
    <3>5. i \in 1..n \/ i = n + 1
      BY <3>1, <3>3, <3>4, Zenon
    <3> QED
      BY <3>3, <3>5, Zenon
  <2> HIDE DEF J, n, rd
  <2>6. ASSUME NEW q, NEW b, NEW r, Occurs(T, q, b, r)
        PROVE  Occurs(S, q, b, r) \/ (q = p /\ b \in 0..1 /\ r = rd(b))
    BY <2>2, <2>4, <2>5, <2>6, ZenonT(30) DEF Occurs, IsReactionJob, n
  <2>7. ASSUME NEW q, NEW b, NEW r, Occurs(T, q, b, r)
        PROVE  Occurs(S, q, b, r) \/ <<q, b, r>> \in NewReactions(p, handlers, fn)
    <3>1. <<q, b, r>> \in NewReactions(p, handlers, fn) <=> q = p /\ b \in 0..1 /\ r = rd(b)
      BY NewReactionsAre DEF rd
    <3> QED
      BY <2>6, <2>7, <3>1, Zenon
  <2>8. Mild(S, T, NewReactions(p, handlers, fn))
    BY <2>2, <2>7, Zenon DEF Mild
  <2> QED
    BY <2>8, Zenon DEF T
<1> QED
  BY <1>1, <1>2, Zenon
-----------------------------------------------------------------------------
(* The first call of a pair                                                *)

\* The reactions of the promise p, and no others, may become jobs.
Moves(S, T, p) ==
  /\ Len(T.promise) = Len(S.promise)
  /\ \A q \in 1..Len(S.promise) : q # p => T.promise[q] = S.promise[q]
  /\ T.promise[p].state # "pending" => T.promise[p].reactions = NoReactions
  /\ \A q, b, rd : Occurs(T, q, b, rd) => Occurs(S, q, b, rd)
  /\ \A i \in 1..Len(T.job_list) :
       \/ i \in 1..Len(S.job_list) /\ T.job_list[i] = S.job_list[i]
       \/ T.job_list[i].promise = p

\* fulfill_or_reject_promise does that.
LEMMA SettlesMoves ==
  ASSUME NEW S, NEW T, NEW p \in 1..Len(S.promise), NEW v, NEW b \in 0..1,
         Settles(S, T, p, v, b), Len(T.promise) = Len(S.promise)
  PROVE  Moves(S, T, p)
<1> DEFINE rds == S.promise[p].reactions[b]
           n == Len(S.job_list)
<1>1. /\ \A q \in 1..Len(S.promise) : q # p => T.promise[q] = S.promise[q]
      /\ T.promise[p].reactions = NoReactions
      /\ n \in Nat /\ Len(rds) \in Nat
      /\ Len(T.job_list) = n + Len(rds)
      /\ \A i \in 1..n : T.job_list[i] = S.job_list[i]
      /\ \A i \in 1..Len(rds) : T.job_list[n + i] = ReactionJob(p, rds[i], b, v)
  BY Zenon DEF Settles
<1> HIDE DEF rds, n
<1>2. ASSUME NEW i \in 1..Len(T.job_list)
      PROVE  \/ i \in 1..n /\ T.job_list[i] = S.job_list[i]
             \/ \E j \in 1..Len(rds) : T.job_list[i] = ReactionJob(p, rds[j], b, v)
  <2> DEFINE m == Len(rds)
  <2>1. n \in Nat /\ m \in Nat /\ i \in 1..(n + m)
    BY <1>1, Zenon
  <2> HIDE DEF m
  <2>3. i \in 1..n \/ (i - n \in 1..m /\ n + (i - n) = i)
    BY <2>1
  <2>2. i \in 1..n \/ (i - n \in 1..Len(rds) /\ n + (i - n) = i)
    BY <2>3, Zenon DEF m
  <2> QED
    BY <1>1, <2>2, Zenon
<1>3. \A rd : LET J == ReactionJob(p, rd, b, v)
              IN  J.promise = p /\ J.is_reject = b /\ J.rd = rd
  BY DEF ReactionJob
<1>4. \A x \in 0..1 : 1..Len(T.promise[p].reactions[x]) = {}
  BY <1>1 DEF NoReactions
<1>5. ASSUME NEW q, NEW x, NEW rd, Occurs(T, q, x, rd) PROVE Occurs(S, q, x, rd)
  <2>1. CASE /\ q \in 1..Len(T.promise) /\ x \in 0..1
             /\ \E i \in 1..Len(T.promise[q].reactions[x]) : T.promise[q].reactions[x][i] = rd
    BY <1>1, <1>4, <2>1, Zenon DEF Occurs
  <2>2. CASE \E i \in 1..Len(T.job_list) :
               /\ IsReactionJob(T, i)
               /\ T.job_list[i].promise = q /\ T.job_list[i].is_reject = x
               /\ T.job_list[i].rd = rd
    <3>1. PICK i \in 1..Len(T.job_list) :
               /\ IsReactionJob(T, i)
               /\ T.job_list[i].promise = q /\ T.job_list[i].is_reject = x
               /\ T.job_list[i].rd = rd
      BY <2>2, Zenon
    <3>2. CASE i \in 1..n /\ T.job_list[i] = S.job_list[i]
      BY <3>1, <3>2, Zenon DEF Occurs, IsReactionJob, n
    <3>3. CASE \E j \in 1..Len(rds) : T.job_list[i] = ReactionJob(p, rds[j], b, v)
      <4>1. PICK j \in 1..Len(rds) : T.job_list[i] = ReactionJob(p, rds[j], b, v)
        BY <3>3, Zenon
      <4>2. q = p /\ x = b /\ rd = rds[j]
        BY <1>3, <3>1, <4>1, Zenon
      <4> QED
        BY <4>2, Zenon DEF Occurs, rds
    <3> QED
      BY <1>2, <3>2, <3>3, Zenon
  <2> QED
    BY <1>5, <2>1, <2>2, Zenon DEF Occurs
<1>6. \A i \in 1..Len(T.job_list) :
        \/ i \in 1..Len(S.job_list) /\ T.job_list[i] = S.job_list[i]
        \/ T.job_list[i].promise = p
  BY <1>2, <1>3, Zenon DEF n
<1> QED
  BY <1>1, <1>5, <1>6, Zenon DEF Moves

\* So does queueing a thenable job.
LEMMA DefersMoves ==
  ASSUME NEW S, NEW T, NEW p \in 1..Len(S.promise), NEW v, WellFormed(S),
         Defers(S, T, p, v), S.promise[p].state = "pending"
  PROVE  /\ Moves(S, T, p)
         /\ T.promise[p].state = "pending"
<1> DEFINE n == Len(S.job_list)
           J == ThenableJob(p, v)
<1>1. /\ Len(T.promise) = Len(S.promise)
      /\ \A r \in 1..Len(S.promise) : r # p => T.promise[r] = S.promise[r]
      /\ n \in Nat /\ Len(T.job_list) = n + 1
      /\ \A i \in 1..n : T.job_list[i] = S.job_list[i]
      /\ T.job_list[n + 1] = J
  BY Zenon DEF Defers
<1>2. T.promise[p].state = "pending" /\ T.promise[p].reactions = S.promise[p].reactions
  <2>1. S.promise[p] \in PromiseData(Len(S.promise), Len(S.func))
    BY Parts, Zenon
  <2>2. \E q : T.promise[p] = [S.promise[p] EXCEPT !.follows = q]
    BY Zenon DEF Defers
  <2> QED
    BY <2>1, <2>2 DEF PromiseData
<1>3. J.promise = p /\ J.kind # "reaction"
  BY DEF ThenableJob
<1> HIDE DEF n, J
<1>4. \A i \in 1..Len(T.job_list) :
        (i \in 1..n /\ T.job_list[i] = S.job_list[i]) \/ T.job_list[i] = J
  <2>1. \A k \in Nat : \A j \in 1..(k + 1) : j \in 1..k \/ j = k + 1
    OBVIOUS
  <2> QED
    BY <1>1, <2>1, Zenon
<1>5. ASSUME NEW q, NEW x, NEW rd, Occurs(T, q, x, rd) PROVE Occurs(S, q, x, rd)
  <2>1. CASE /\ q \in 1..Len(T.promise) /\ x \in 0..1
             /\ \E i \in 1..Len(T.promise[q].reactions[x]) : T.promise[q].reactions[x][i] = rd
    BY <1>1, <1>2, <2>1, Zenon DEF Occurs
  <2>2. CASE \E i \in 1..Len(T.job_list) :
               /\ IsReactionJob(T, i)
               /\ T.job_list[i].promise = q /\ T.job_list[i].is_reject = x
               /\ T.job_list[i].rd = rd
    BY <1>3, <1>4, <2>2, Zenon DEF Occurs, IsReactionJob, n
  <2> QED
    BY <1>5, <2>1, <2>2, Zenon DEF Occurs
<1>6. \A i \in 1..Len(T.job_list) :
        \/ i \in 1..Len(S.job_list) /\ T.job_list[i] = S.job_list[i]
        \/ T.job_list[i].promise = p
  BY <1>3, <1>4, Zenon DEF n
<1>7. Moves(S, T, p)
  BY <1>1, <1>2, <1>5, <1>6, Zenon DEF Moves
<1> QED
  BY <1>2, <1>7
\* js_promise_resolve_function_call on a pair f that was not called yet.
FirstCall(S, T, f, v, b) ==
  LET p == S.func[f].promise
  IN  /\ Unresolved(S, f) /\ p \in 1..Len(S.promise) /\ S.promise[p].state = "pending"
      /\ Moves(S, T, p)
      /\ \A g \in 1..Len(S.func) :
           /\ g \in 1..Len(T.func)
           /\ T.func[g].promise = S.func[g].promise /\ T.func[g].held = S.func[g].held
           /\ g # f => (Unresolved(T, g) <=> Unresolved(S, g))
      /\ b = 1 => T.promise[p].state = "rejected" /\ T.promise[p].result = v
      /\ b = 0 /\ v = Undefined => T.promise[p].state = "fulfilled"

\* The first call of a pair does that, a later one nothing.
LEMMA ResolveFunctionCallEffect ==
  ASSUME NEW S, Good(S), NEW f \in 1..Len(S.func),
         NEW v \in ValOf(Len(S.promise)), NEW b \in 0..1
  PROVE  LET T == ResolveFunctionCall(S, f, b, v)
         IN  \/ T = S /\ ~Unresolved(S, f)
             \/ FirstCall(S, T, f, v, b)
<1> DEFINE np == Len(S.promise)
           p == S.func[f].promise
           U == MarkResolved(S, f)
           T == ResolveFunctionCall(S, f, b, v)
<1>0. /\ WellFormed(S) /\ p \in 1..np /\ S.func[f] \in FuncData(np)
  BY Parts, Zenon DEF Good
<1>1. CASE S.func[f].already_resolved = 1
  BY <1>1 DEF ResolveFunctionCall, Unresolved
<1>2. CASE S.func[f].already_resolved # 1
  <2>1. Unresolved(S, f)
    BY <1>0, <1>2 DEF FuncData, Unresolved
  <2>2. GoodBut(U, p)
    BY <2>1, MarkResolvedGood, Zenon
  <2>3. /\ WellFormed(U) /\ U.promise = S.promise /\ U.job_list = S.job_list
        /\ Len(U.func) = Len(S.func)
        /\ \A g \in 1..Len(S.func) : /\ U.func[g].promise = S.func[g].promise
                                     /\ U.func[g].held = S.func[g].held
                                     /\ Unresolved(U, g) <=> (g # f /\ Unresolved(S, g))
    BY <1>0, MarkResolvedType, Zenon
  <2>4. T = Resolve(U, p, b, v)
    BY <1>2, SMTT(30) DEF ResolveFunctionCall
  <2>5. p \in 1..Len(U.promise) /\ U.promise[p].state = "pending" /\ S.promise[p].state = "pending"
    BY <2>2, <2>3, Zenon DEF GoodBut
  <2>6. SelfError \in ValOf(np) /\ ThenError \in ValOf(np)
    BY DEF SelfError, ThenError, ValOf, Val
  <2>7. v \in ValOf(Len(U.promise)) /\ SelfError \in ValOf(Len(U.promise))
        /\ ThenError \in ValOf(Len(U.promise)) /\ 1 \in 0..1
    BY <2>3, <2>6
  <2> HIDE DEF U, p, T
  <2>8. T.func = U.func /\ Len(T.promise) = Len(U.promise)
    <3>1. LET R == Resolve(U, p, b, v)
          IN  R.func = U.func /\ Len(R.promise) = Len(U.promise)
      BY <2>3, <2>5, <2>7, ResolveType, Zenon
    <3> QED
      BY <2>4, <3>1, Zenon
  <2>9. ASSUME NEW w \in ValOf(Len(U.promise)), NEW x \in 0..1, T = FulfillOrReject(U, p, w, x)
        PROVE  /\ Moves(U, T, p) /\ T.promise[p].result = w
               /\ T.promise[p].state = IF x = 1 THEN "rejected" ELSE "fulfilled"
    <3>1. Settles(U, T, p, w, x)
      BY <2>3, <2>5, <2>9, FulfillOrRejectEffect, Zenon
    <3>2. Moves(U, T, p)
      BY <2>5, <2>8, <3>1, SettlesMoves, Zenon
    <3> QED
      BY <3>1, <3>2, Zenon DEF Settles
  <2>10. /\ Moves(U, T, p)
         /\ b = 1 => T.promise[p].state = "rejected" /\ T.promise[p].result = v
         /\ b = 0 /\ v = Undefined => T.promise[p].state = "fulfilled"
    <3>1. CASE b = 1 \/ v.kind \in FinalKinds
      <4>1. T = FulfillOrReject(U, p, v, b)
        BY <2>4, <3>1 DEF Resolve, FinalKinds
      <4> QED
        BY <2>7, <2>9, <4>1
    <3>2. CASE b = 0 /\ v.kind \notin FinalKinds
      <4>0. b # 1 /\ v # Undefined
        BY <3>2 DEF Undefined, FinalKinds
      <4>1. CASE v = PromiseObj(p)
        <5>1. T = FulfillOrReject(U, p, SelfError, 1)
          BY <2>4, <3>2, <4>1 DEF Resolve, FinalKinds
        <5> QED
          BY <2>7, <2>9, <4>0, <5>1, Zenon
      <4>2. CASE v # PromiseObj(p) /\ v.kind = "poisoned"
        <5>1. T = FulfillOrReject(U, p, ThenError, 1)
          BY <2>4, <3>2, <4>2 DEF Resolve, FinalKinds
        <5> QED
          BY <2>7, <2>9, <4>0, <5>1, Zenon
      <4>3. CASE v # PromiseObj(p) /\ v.kind # "poisoned"
        <5>1. Chains(v)
          BY <3>2, <4>3 DEF Chains, FinalKinds, ValOf, Val
        <5>2. Defers(U, T, p, v)
          BY <2>3, <2>4, <2>5, <2>7, <3>2, <4>3, <5>1, ResolveDefers, ZenonT(30)
        <5> QED
          BY <2>3, <2>5, <4>0, <5>2, DefersMoves, Zenon
      <4> QED
        BY <4>1, <4>2, <4>3, Zenon
    <3> QED
      BY <3>1, <3>2
  <2>11. Moves(S, T, p)
    <3>1. \A q, x, rd : Occurs(U, q, x, rd) => Occurs(S, q, x, rd)
      BY <2>3, Zenon DEF Occurs, IsReactionJob
    <3> QED
      BY <2>3, <2>10, <3>1, Zenon DEF Moves
  <2>12. \A g \in 1..Len(S.func) :
           /\ g \in 1..Len(T.func)
           /\ T.func[g].promise = S.func[g].promise /\ T.func[g].held = S.func[g].held
           /\ g # f => (Unresolved(T, g) <=> Unresolved(S, g))
    BY <2>3, <2>8, Zenon DEF Unresolved
  <2>13. FirstCall(S, T, f, v, b)
    BY <1>0, <2>1, <2>5, <2>10, <2>11, <2>12, Zenon DEF FirstCall, p
  <2> QED
    BY <2>13, Zenon DEF T
<1> QED
  BY <1>1, <1>2

\* What the pair c, which settles d, is called with: the reason that t was
\* rejected for, or what the handler returns.
RightCall(S, t, c, f, v, b) ==
  c # 0 /\ f = c =>
    \/ b = 1 /\ S.promise[t].state = "rejected" /\ S.promise[t].result = v
    \/ b = 0 /\ v = Undefined

\* Such calls leave the handlers in their places.
LEMMA FirstCallCalm ==
  ASSUME NEW S, NEW T, Good(S), NEW f \in 1..Len(S.func), NEW v, NEW b,
         FirstCall(S, T, f, v, b),
         NEW t, NEW c, NEW d, NEW e, Calm(S, t, c, d, e), RightCall(S, t, c, f, v, b)
  PROVE  Calm(T, t, c, d, e)
<1> DEFINE p == S.func[f].promise
<1>1. /\ Unresolved(S, f) /\ p \in 1..Len(S.promise) /\ S.promise[p].state = "pending"
      /\ Moves(S, T, p)
      /\ \A g \in 1..Len(S.func) :
           /\ g \in 1..Len(T.func)
           /\ T.func[g].promise = S.func[g].promise /\ T.func[g].held = S.func[g].held
           /\ g # f => (Unresolved(T, g) <=> Unresolved(S, g))
      /\ b = 1 => T.promise[p].state = "rejected" /\ T.promise[p].result = v
      /\ b = 0 /\ v = Undefined => T.promise[p].state = "fulfilled"
  BY Zenon DEF FirstCall
<1> HIDE DEF p
<1>2. /\ Len(T.promise) = Len(S.promise)
      /\ \A q \in 1..Len(S.promise) : q # p => T.promise[q] = S.promise[q]
      /\ T.promise[p].state # "pending" => T.promise[p].reactions = NoReactions
      /\ \A q, x, rd : Occurs(T, q, x, rd) => Occurs(S, q, x, rd)
  BY <1>1, Zenon DEF Moves
<1>3. PlacedAll(T, t, c, d, e)
  BY <1>2, Zenon DEF Calm, PlacedAll
<1>4. EmptySettled(T)
  <2>1. EmptySettled(S)
    BY Zenon DEF Calm
  <2> QED
    BY <1>2, <2>1, Zenon DEF EmptySettled
<1>5. ASSUME c # 0 PROVE Verdict(T, t, c, d)
  <2>1. /\ c \in 1..Len(S.func) /\ ~S.func[c].held /\ S.func[c].promise = d
        /\ t \in 1..Len(S.promise) /\ d \in 1..Len(S.promise)
        /\ S.promise[d].state = "pending" => Unresolved(S, c)
        /\ S.promise[d].state = "rejected" =>
             /\ S.promise[t].state = "rejected"
             /\ S.promise[d].result = S.promise[t].result
    BY <1>5, Zenon DEF Calm, Verdict
  <2>2. /\ c \in 1..Len(T.func) /\ ~T.func[c].held /\ T.func[c].promise = d
        /\ t \in 1..Len(T.promise) /\ d \in 1..Len(T.promise)
    BY <1>1, <1>2, <2>1, Zenon
  <2>3. "pending" # "rejected" /\ "pending" # "fulfilled" /\ "fulfilled" # "rejected"
    OBVIOUS
  <2>4. S.promise[t].state = "rejected" => T.promise[t] = S.promise[t]
    BY <1>1, <1>2, <2>1, <2>3, Zenon
  <2>5. CASE f = c
    <3>1. p = d
      BY <2>1, <2>5, Zenon DEF p
    <3>2. CASE b = 1 /\ S.promise[t].state = "rejected" /\ S.promise[t].result = v
      BY <1>1, <2>2, <2>3, <2>4, <3>1, <3>2, Zenon DEF Verdict
    <3>3. CASE b = 0 /\ v = Undefined
      BY <1>1, <2>2, <2>3, <3>1, <3>3, Zenon DEF Verdict
    <3> QED
      BY <1>5, <2>5, <3>2, <3>3, Zenon DEF RightCall
  <2>6. CASE f # c
    <3>1. p # d
      <4>1. Unresolved(S, c) => S.func[f].promise # S.func[c].promise
        BY <1>1, <2>1, <2>6, Zenon DEF Good, Rights, RightsAreDistinct
      <4> QED
        BY <1>1, <2>1, <4>1, Zenon DEF p
    <3>2. T.promise[d] = S.promise[d]
      BY <1>2, <2>1, <3>1, Zenon
    <3>3. Unresolved(T, c) <=> Unresolved(S, c)
      BY <1>1, <2>1, <2>6, Zenon
    <3> QED
      BY <2>1, <2>2, <2>4, <3>2, <3>3, Zenon DEF Verdict
  <2> QED
    BY <2>5, <2>6
<1> QED
  BY <1>3, <1>4, <1>5, Zenon DEF Calm

\* The same for all calls of a resolving function.
LEMMA ResolveFunctionCallCalm ==
  ASSUME NEW S, Good(S), NEW f \in 1..Len(S.func),
         NEW v \in ValOf(Len(S.promise)), NEW b \in 0..1,
         NEW t, NEW c, NEW d, NEW e, Calm(S, t, c, d, e), RightCall(S, t, c, f, v, b)
  PROVE  Calm(ResolveFunctionCall(S, f, b, v), t, c, d, e)
<1> DEFINE T == ResolveFunctionCall(S, f, b, v)
<1>1. T = S \/ FirstCall(S, T, f, v, b)
  BY ResolveFunctionCallEffect, Zenon
<1> HIDE DEF T
<1>2. Calm(T, t, c, d, e)
  BY <1>1, FirstCallCalm, Zenon
<1> QED
  BY <1>2, Zenon DEF T
-----------------------------------------------------------------------------
(* The engine's steps                                                      *)

\* An operation without new reactions leaves the handlers where they are.
LEMMA NothingNewCalm ==
  ASSUME NEW S, NEW T, Mild(S, T, {}),
         NEW t, NEW c, NEW d, NEW e, Calm(S, t, c, d, e)
  PROVE  Calm(T, t, c, d, e)
<1> DEFINE N == {}
<1>1. Mild(S, T, N) /\ \A q, b, rd : <<q, b, rd>> \in N => Placed(t, c, d, e, q, b, rd)
  BY Zenon
<1> HIDE DEF N
<1> QED
  BY <1>1, MildCalm, Zenon

\* Registering reactions that are neither handlers of the host nor hold c.
LEMMA OtherReactionsCalm ==
  ASSUME NEW S, WellFormed(S), NEW p \in 1..Len(S.promise), NEW handlers, NEW fn,
         HandlersFor(Len(S.func), handlers, fn),
         NEW t, NEW c, NEW d, NEW e, Calm(S, t, c, d, e),
         \A b \in 0..1 : handlers[b].kind \notin {"ok", "err"},
         c # 0 => fn # c /\ \A b \in 0..1 : handlers[b].fn # c
  PROVE  Calm(PerformPromiseThen(S, p, handlers, fn), t, c, d, e)
<1>1. ASSUME NEW q, NEW b, NEW rd, <<q, b, rd>> \in NewReactions(p, handlers, fn)
      PROVE  Placed(t, c, d, e, q, b, rd)
  <2>1. b \in 0..1 /\ rd.fn = fn /\ rd.handler = handlers[b]
    BY <1>1, NewReactionsAre
  <2> QED
    BY <2>1, Zenon DEF Placed, IsHostHandler
<1>2. Mild(S, PerformPromiseThen(S, p, handlers, fn), NewReactions(p, handlers, fn))
  BY PerformPromiseThenMild, Zenon
<1> QED
  BY <1>1, <1>2, MildCalm, Zenon

\* The handlers that 'then' is given, which with the new capability make reactions.
ThenArgs(S, handlers) ==
  /\ handlers \in [0..1 -> Handler]
  /\ \A b \in 0..1 : /\ handlers[b].kind # "async"
                     /\ handlers[b].fn \in 0..Len(S.func)
                     /\ handlers[b].kind \in {"resolve", "reject"} <=> handlers[b].fn # 0

\* They do.
LEMMA ThenArgsMakeReactions ==
  ASSUME NEW S, WellFormed(S), NEW handlers, ThenArgs(S, handlers),
         NEW nf, nf = Len(S.func) + 1
  PROVE  HandlersFor(nf, handlers, nf)
<1>1. Len(S.func) \in Nat
  BY Parts, Zenon
<1> DEFINE m == Len(S.func)
<1>2. /\ handlers \in [0..1 -> Handler]
      /\ \A b \in 0..1 : /\ handlers[b].kind # "async"
                         /\ handlers[b].fn \in 0..m
                         /\ handlers[b].kind \in {"resolve", "reject"} <=> handlers[b].fn # 0
  BY Zenon DEF ThenArgs
<1> HIDE DEF m
<1>3. m \in Nat /\ nf = m + 1
  BY <1>1 DEF m
<1> QED
  BY <1>2, <1>3 DEF HandlersFor, Reaction

\* 'then' with handlers that are not the host's and do not hold c.
LEMMA PromiseThenCalm ==
  ASSUME NEW S, WellFormed(S), NEW p \in 1..Len(S.promise), NEW shared \in BOOLEAN,
         NEW handlers, ThenArgs(S, handlers),
         NEW t, NEW c, NEW d, NEW e, Calm(S, t, c, d, e),
         \A b \in 0..1 : handlers[b].kind \notin {"ok", "err"},
         c # 0 => \A b \in 0..1 : handlers[b].fn # c
  PROVE  Calm(PromiseThen(S, p, handlers, shared), t, c, d, e)
<1> DEFINE T == NewPromise(S, shared, FALSE)
           nf == Len(S.func)
<1>1. AddsPromise(S, T, FALSE)
  BY NewPromiseType, Zenon
<1>2. PromiseThen(S, p, handlers, shared) = PerformPromiseThen(T, p, handlers, Len(T.func))
  BY Zenon DEF PromiseThen
<1> HIDE DEF T
<1>3. /\ WellFormed(T) /\ Len(T.func) = nf + 1 /\ Len(T.promise) = Len(S.promise) + 1
  BY <1>1, Zenon DEF AddsPromise
<1>4. nf \in Nat /\ Len(S.promise) \in Nat
  BY Parts, Zenon
<1>5. p \in 1..Len(T.promise)
  BY <1>3, <1>4
<1>6. Calm(T, t, c, d, e)
  BY <1>1, AddsPromiseMild, NothingNewCalm, Zenon
<1>7. HandlersFor(Len(T.func), handlers, Len(T.func))
  BY <1>3, ThenArgsMakeReactions, Zenon
<1>8. c # 0 => Len(T.func) # c
  <2>1. c # 0 => c \in 1..nf
    BY Zenon DEF Calm, Verdict
  <2> HIDE DEF nf
  <2> QED
    BY <1>3, <1>4, <2>1
<1>9. Calm(PerformPromiseThen(T, p, handlers, Len(T.func)), t, c, d, e)
  BY <1>3, <1>5, <1>6, <1>7, <1>8, OtherReactionsCalm, Zenon
<1> QED
  BY <1>2, <1>9, Zenon

\* The handlers are in their places, and no running frame is to call c.
Safe(t, c, d, e) == Calm(Now, t, c, d, e) /\ c \notin FramePairs(running)

\* A step to such a state.
LEMMA LeadsToSafe ==
  ASSUME NEW S, WellFormed(S), Become(S), NEW t, NEW c, NEW d, NEW e,
         Calm(S, t, c, d, e), c \notin FramePairs(running')
  PROVE  Safe(t, c, d, e)'
<1>1. S = [promise |-> S.promise, func |-> S.func, job_list |-> S.job_list]
  BY DEF WellFormed
<1>2. Now' = S
  BY <1>1 DEF Now, Become
<1>3. PlacedAll(Now', t, c, d, e) /\ EmptySettled(Now') /\ (c # 0 => Verdict(Now', t, c, d))
  BY <1>2, Zenon DEF Calm
<1>4. PlacedAll(Now, t, c, d, e)'
  BY <1>3, Zenon DEF PlacedAll, Occurs, IsReactionJob, Placed, IsHostHandler, HostOk, HostErr, None
<1>5. EmptySettled(Now)'
  BY <1>3, Zenon DEF EmptySettled, NoReactions
<1>6. (c # 0 => Verdict(Now, t, c, d))'
  BY <1>3, Zenon DEF Verdict, Unresolved
<1>7. (c \notin FramePairs(running))'
  BY Zenon DEF FramePairs
<1> QED
  BY <1>4, <1>5, <1>6, <1>7, Zenon DEF Safe, Calm

\* Facts about the current state that the steps use.
LEMMA SafeFacts ==
  ASSUME OutcomeInv, NEW t, NEW c, NEW d, NEW e, Safe(t, c, d, e)
  PROVE  /\ Calm(Now, t, c, d, e) /\ c \notin FramePairs(running)
         /\ Good(Now) /\ WellFormed(Now)
         /\ Now.promise = promise /\ Now.func = func /\ Now.job_list = job_list
         /\ Len(func) \in Nat /\ Len(promise) \in Nat
         /\ c # 0 => c \in 1..Len(func) /\ ~func[c].held
         /\ c # Len(func) + 1
         /\ Input \subseteq ValOf(Len(promise))
         /\ running \in Seq(Frame(Len(func))) /\ running \in Seq(Frame(Len(func) + 1))
<1>1. Calm(Now, t, c, d, e) /\ c \notin FramePairs(running)
  BY Zenon DEF Safe
<1>2. /\ Good(Now) /\ WellFormed(Now)
      /\ Now.promise = promise /\ Now.func = func /\ Now.job_list = job_list
      /\ Len(func) \in Nat /\ Len(promise) \in Nat
      /\ Input \subseteq ValOf(Len(promise))
      /\ running \in Seq(Frame(Len(func))) /\ running \in Seq(Frame(Len(func) + 1))
  BY NowFacts, Zenon DEF OutcomeInv
<1>3. c # 0 => c \in 1..Len(func) /\ ~func[c].held
  BY <1>1, <1>2, Zenon DEF Calm, Verdict
<1>4. \A m \in Nat : m + 1 # 0 /\ \A x \in 1..m : x # m + 1
  OBVIOUS
<1>5. c # Len(func) + 1
  BY <1>2, <1>3, <1>4, Zenon
<1> QED
  BY <1>1, <1>2, <1>3, <1>5, Zenon
\* The script code's operations leave the handlers in their places: script code
\* has neither the pair c nor the promises of resolve_value.
LEMMA ScriptStepSafe ==
  ASSUME OutcomeInv, NEW t, NEW c, NEW d, NEW e, Safe(t, c, d, e),
         PromiseConstructor \/ CallResolvingFunction \/ Then \/ AsyncFunctionCall
  PROVE  Safe(t, c, d, e)'
<1> DEFINE nf == Len(func)
<1>0. /\ Calm(Now, t, c, d, e) /\ c \notin FramePairs(running)
      /\ Good(Now) /\ WellFormed(Now)
      /\ Now.promise = promise /\ Now.func = func /\ nf \in Nat
      /\ c # 0 => c \in 1..nf /\ ~func[c].held
      /\ c # nf + 1
      /\ Input \subseteq ValOf(Len(promise))
      /\ running \in Seq(Frame(nf + 1))
  BY SafeFacts, Zenon
<1>1. TRUE \in BOOLEAN /\ FALSE \in BOOLEAN
  OBVIOUS
<1> HIDE DEF nf
<1>2. running' = running => c \notin FramePairs(running')
  BY <1>0, Zenon
<1>3. CASE PromiseConstructor
  <2> DEFINE S == NewPromise(Now, TRUE, TRUE)
  <2>1. AddsPromise(Now, S, TRUE)
    BY <1>0, <1>1, NewPromiseType, Zenon
  <2>2. Become(S) /\ running' = running
    BY <1>3, Zenon DEF PromiseConstructor
  <2> HIDE DEF S
  <2>3. Calm(S, t, c, d, e) /\ WellFormed(S)
    BY <1>0, <2>1, AddsPromiseMild, NothingNewCalm, Zenon DEF AddsPromise
  <2> QED
    BY <1>2, <2>2, <2>3, LeadsToSafe, Zenon
<1>4. CASE CallResolvingFunction
  <2>1. PICK f \in 1..nf, b \in 0..1, v \in Input :
          /\ func[f].held
          /\ Become(ResolveFunctionCall(Now, f, b, v)) /\ running' = running
    BY <1>4, Zenon DEF CallResolvingFunction, nf
  <2> DEFINE S == ResolveFunctionCall(Now, f, b, v)
  <2>2. f \in 1..Len(Now.func) /\ v \in ValOf(Len(Now.promise))
    BY <1>0, Zenon DEF nf
  <2>3. RightCall(Now, t, c, f, v, b)
    BY <1>0, <2>1, Zenon DEF RightCall
  <2>4. Calm(S, t, c, d, e)
    BY <1>0, <2>2, <2>3, ResolveFunctionCallCalm, Zenon
  <2>5. WellFormed(S)
    BY <1>0, <2>2, ResolveFunctionCallType, Zenon
  <2> HIDE DEF S
  <2> QED
    BY <1>2, <2>1, <2>4, <2>5, LeadsToSafe, Zenon DEF S
<1>5. CASE Then
  <2>1. PICK p \in SharedPromises, handlers \in [0..1 -> {None, Script}] :
          Become(PromiseThen(Now, p, handlers, TRUE)) /\ running' = running
    BY <1>5, Zenon DEF Then
  <2> DEFINE S == PromiseThen(Now, p, handlers, TRUE)
  <2>2. p \in 1..Len(Now.promise)
    BY <1>0 DEF SharedPromises
  <2>3. /\ handlers \in [0..1 -> Handler]
        /\ \A b \in 0..1 : handlers[b].kind \in {"none", "script"} /\ handlers[b].fn = 0
    BY DEF None, Script, Handler
  <2>4. ThenArgs(Now, handlers)
    BY <1>0, <2>3 DEF ThenArgs, nf
  <2>5. /\ \A b \in 0..1 : handlers[b].kind \notin {"ok", "err"}
        /\ c # 0 => \A b \in 0..1 : handlers[b].fn # c
    BY <2>3
  <2>6. Calm(S, t, c, d, e)
    BY <1>0, <1>1, <2>2, <2>4, <2>5, PromiseThenCalm, Zenon
  <2>7. WellFormed(S)
    <3>1. Good(S)
      BY <1>0, <1>1, <2>2, <2>4, PromiseThenGood, Zenon DEF ThenArgs
    <3> QED
      BY <3>1, Zenon DEF Good
  <2> HIDE DEF S
  <2> QED
    BY <1>2, <2>1, <2>6, <2>7, LeadsToSafe, Zenon DEF S
<1>6. CASE AsyncFunctionCall
  <2> DEFINE S == NewPromise(Now, TRUE, FALSE)
  <2>1. AddsPromise(Now, S, FALSE)
    BY <1>0, <1>1, NewPromiseType, Zenon
  <2>2. Become(S) /\ running' = <<[kind |-> "async", fn |-> nf + 1]>> \o running
    BY <1>6, Zenon DEF AsyncFunctionCall, nf
  <2> HIDE DEF S
  <2>3. Calm(S, t, c, d, e) /\ WellFormed(S)
    BY <1>0, <2>1, AddsPromiseMild, NothingNewCalm, Zenon DEF AddsPromise
  <2>4. c \notin FramePairs(running')
    <3>1. nf + 1 \in Nat /\ nf + 1 \in 1..(nf + 1) /\ "async" \in {"script", "async", "thenable"}
      BY <1>0
    <3>2. PushesFrame(running', running, "async", nf + 1)
      BY <1>0, <2>2, <3>1, FramesOfPush, Zenon
    <3> QED
      BY <1>0, <3>2, Zenon DEF PushesFrame
  <2> QED
    BY <2>2, <2>3, <2>4, LeadsToSafe, Zenon
<1> QED
  BY <1>3, <1>4, <1>5, <1>6, Zenon

\* So do the ends of the script code that the engine called.
LEMMA FrameEndsSafe ==
  ASSUME OutcomeInv, NEW t, NEW c, NEW d, NEW e, Safe(t, c, d, e), FrameEnds
  PROVE  Safe(t, c, d, e)'
<1> DEFINE F == FramePairs(running)
           nf == Len(func)
           f == Head(running).fn
<1>0. /\ Calm(Now, t, c, d, e) /\ c \notin F
      /\ Good(Now) /\ WellFormed(Now)
      /\ Now.promise = promise /\ Now.func = func
      /\ nf \in Nat /\ Len(promise) \in Nat /\ c # nf + 1
      /\ Input \subseteq ValOf(Len(promise))
      /\ running \in Seq(Frame(nf))
  BY SafeFacts, Zenon
<1>1. F \subseteq 1..nf
  BY SoundFacts, Zenon
<1>2. running # <<>> /\ running' = Tail(running)
  BY Zenon DEF FrameEnds, Return, Throw, Await, Pop
<1>3. FramePairs(running') \subseteq F /\ f \in F
  BY <1>0, <1>2, FramesOfTail, Zenon
<1> HIDE DEF F, f
<1>4. c \notin FramePairs(running') /\ f # c /\ f \in 1..Len(Now.func)
  BY <1>0, <1>1, <1>3, Zenon
<1> HIDE DEF nf
<1>5. \A S, v, b : RightCall(S, t, c, f, v, b)
  BY <1>4, Zenon DEF RightCall
<1>6. CASE Return \/ Throw
  <2>1. PICK v \in Input, b \in 0..1 :
          Become(Now) \/ Become(ResolveFunctionCall(Now, f, b, v))
    BY <1>6 DEF Return, Throw, f
  <2> DEFINE S == ResolveFunctionCall(Now, f, b, v)
  <2>2. v \in ValOf(Len(Now.promise))
    BY <1>0, Zenon
  <2>3. Calm(S, t, c, d, e)
    BY <1>0, <1>4, <1>5, <2>2, ResolveFunctionCallCalm, Zenon
  <2>4. WellFormed(S)
    BY <1>0, <1>4, <2>2, ResolveFunctionCallType, Zenon
  <2> HIDE DEF S
  <2>5. CASE Become(Now)
    BY <1>0, <1>4, <2>5, LeadsToSafe, Zenon
  <2>6. CASE Become(S)
    BY <1>4, <2>3, <2>4, <2>6, LeadsToSafe, Zenon
  <2> QED
    BY <2>1, <2>5, <2>6, Zenon DEF S
<1>7. CASE Await
  <2> DEFINE fresh == NewPromise(Now, FALSE, FALSE)
             handlers == [b \in 0..1 |-> Resume(f)]
  <2>1. PICK v \in Input :
          Become(PerformPromiseThen(
            IF v.kind = "promise" THEN Now ELSE ResolveFunctionCall(fresh, Len(fresh.func), 0, v),
            IF v.kind = "promise" THEN v.ref ELSE Len(fresh.promise), handlers, 0))
    BY <1>7, Zenon DEF Await, f
  <2>2. /\ \A b \in 0..1 : handlers[b].kind \notin {"ok", "err"} /\ handlers[b].fn = f
        /\ handlers \in [0..1 -> Handler]
        /\ \A b \in 0..1 : handlers[b].kind = "async"
    <3>1. f \in Nat
      BY <1>0, <1>4
    <3> QED
      BY <3>1 DEF Resume, Handler
  <2> HIDE DEF handlers
  <2>3. ASSUME NEW S, WellFormed(S), Calm(S, t, c, d, e), NEW p \in 1..Len(S.promise),
               f \in 1..Len(S.func), Become(PerformPromiseThen(S, p, handlers, 0))
        PROVE  Safe(t, c, d, e)'
    <3> DEFINE T == PerformPromiseThen(S, p, handlers, 0)
    <3>1. HandlersFor(Len(S.func), handlers, 0)
      <4>1. Len(S.func) \in Nat
        BY <2>3, Parts, Zenon
      <4> DEFINE m == Len(S.func)
      <4> HIDE DEF m
      <4>2. m \in Nat /\ f \in 1..m
        BY <2>3, <4>1 DEF m
      <4>3. HandlersFor(m, handlers, 0)
        BY <2>2, <4>2 DEF HandlersFor, Reaction
      <4> QED
        BY <4>3, Zenon DEF m
    <3>2. c # 0 => 0 # c /\ \A b \in 0..1 : handlers[b].fn # c
      BY <1>4, <2>2, Zenon
    <3>3. Calm(T, t, c, d, e)
      BY <2>2, <2>3, <3>1, <3>2, OtherReactionsCalm, Zenon
    <3>4. WellFormed(T)
      <4>1. CASE S.promise[p].state = "pending"
        BY <2>3, <3>1, <4>1, ThenPending, ZenonT(30) DEF Registers
      <4>2. CASE S.promise[p].state # "pending"
        BY <2>3, <3>1, <4>2, ThenSettled, Zenon DEF Queues
      <4> QED
        BY <4>1, <4>2, Zenon
    <3> HIDE DEF T
    <3> QED
      BY <1>4, <2>3, <3>3, <3>4, LeadsToSafe, Zenon DEF T
  <2>4. CASE v.kind = "promise"
    <3>1. v.ref \in 1..Len(Now.promise)
      BY <1>0, <2>4 DEF ValOf
    <3>2. Become(PerformPromiseThen(Now, v.ref, handlers, 0))
      BY <2>1, <2>4, Zenon
    <3> QED
      BY <1>0, <1>4, <2>3, <3>1, <3>2, Zenon
  <2>5. CASE v.kind # "promise"
    <3> DEFINE g == Len(fresh.func)
               S == ResolveFunctionCall(fresh, g, 0, v)
    <3>1. Good(fresh) /\ AddsPromise(Now, fresh, FALSE)
      BY <1>0, NewPromiseGood, NewPromiseType, Zenon
    <3>2. Become(PerformPromiseThen(S, Len(fresh.promise), handlers, 0))
      BY <2>1, <2>5, Zenon
    <3> HIDE DEF fresh
    <3>3. /\ WellFormed(fresh) /\ Len(fresh.promise) = Len(promise) + 1 /\ g = nf + 1
      BY <1>0, <3>1, Zenon DEF AddsPromise, nf
    <3>4. Calm(fresh, t, c, d, e)
      BY <1>0, <3>1, AddsPromiseMild, NothingNewCalm, Zenon
    <3>5. g \in 1..Len(fresh.func) /\ v \in ValOf(Len(fresh.promise)) /\ 0 \in 0..1
      BY <1>0, <2>5, <3>3 DEF ValOf
    <3> HIDE DEF g
    <3>6. RightCall(fresh, t, c, g, v, 0)
      BY <1>0, <3>3, Zenon DEF RightCall
    <3>7. Calm(S, t, c, d, e)
      BY <3>1, <3>4, <3>5, <3>6, ResolveFunctionCallCalm, Zenon
    <3>8. WellFormed(S) /\ Len(S.promise) = Len(fresh.promise) /\ Len(S.func) = Len(fresh.func)
      BY <3>3, <3>5, ResolveFunctionCallType, Zenon
    <3> HIDE DEF S
    <3>9. Len(fresh.promise) \in 1..Len(S.promise) /\ f \in 1..Len(S.func)
      <4>1. /\ Len(promise) \in Nat /\ nf \in Nat /\ f \in 1..nf
            /\ Len(S.promise) = Len(promise) + 1 /\ Len(fresh.promise) = Len(promise) + 1
            /\ Len(S.func) = nf + 1
        BY <1>0, <1>4, <3>3, <3>8, Zenon DEF g, nf
      <4>2. \A m \in Nat : m + 1 \in 1..(m + 1) /\ \A x \in 1..m : x \in 1..(m + 1)
        OBVIOUS
      <4> QED
        BY <4>1, <4>2, Zenon
    <3> QED
      BY <2>3, <3>2, <3>7, <3>8, <3>9, Zenon
  <2> QED
    BY <2>4, <2>5, Zenon
<1> QED
  BY <1>6, <1>7, Zenon DEF FrameEnds
\* What is known of the first job and of the state without it.
FirstJob(t, c, d, e) ==
  LET job == Head(job_list)
      nf == Len(func)
  IN  /\ job = Now.job_list[1] /\ 1 \in 1..Len(Now.job_list) /\ Dequeue = TailOf(Now)
      /\ WellFormed(Dequeue) /\ Dequeue.promise = promise /\ Dequeue.func = func
      /\ Calm(Dequeue, t, c, d, e)
      /\ job.kind = "thenable" => GoodBut(Dequeue, job.promise)
      /\ job.promise \in 1..Len(promise) /\ job.is_reject \in 0..1
      /\ job.arg \in ValOf(Len(promise))
      /\ job.kind = "reaction" =>
           /\ Good(Dequeue)
           /\ Placed(t, c, d, e, job.promise, job.is_reject, job.rd)
           /\ job.rd \in Reaction(nf)
           /\ promise[job.promise].state = SettledState(job.is_reject)
           /\ promise[job.promise].result = job.arg

\* Taking the job off the queue moves no handler.
LEMMA FirstJobFacts ==
  ASSUME OutcomeInv, NEW t, NEW c, NEW d, NEW e, Safe(t, c, d, e), job_list # <<>>
  PROVE  FirstJob(t, c, d, e)
<1> DEFINE nf == Len(func)
           job == Head(job_list)
<1>0. /\ Calm(Now, t, c, d, e) /\ Good(Now) /\ WellFormed(Now)
      /\ Now.promise = promise /\ Now.func = func /\ Now.job_list = job_list
  BY SafeFacts, Zenon
<1>1. /\ job \in Job(Len(promise), nf) /\ WellFormed(Dequeue)
      /\ job.kind = "reaction" => Good(Dequeue)
      /\ job.kind = "thenable" => GoodBut(Dequeue, job.promise)
  BY DequeueFacts, Zenon DEF OutcomeInv
<1>2. Dequeue = TailOf(Now)
  BY DEF Dequeue, TailOf, Now
<1>3. /\ TailOf(Now).promise = promise /\ TailOf(Now).func = func
      /\ job = Now.job_list[1] /\ Len(Now.job_list) \in Nat \ {0}
  BY <1>0, TailOfType, Zenon
<1>4. 1 \in 1..Len(Now.job_list)
  BY <1>3
<1>5. Calm(TailOf(Now), t, c, d, e)
  BY <1>0, TailOfMild, NothingNewCalm, Zenon
<1> HIDE DEF nf, job
<1>6. /\ job.promise \in 1..Len(promise) /\ job.is_reject \in 0..1
      /\ job.arg \in ValOf(Len(promise))
      /\ job.kind = "reaction" => job.rd \in Reaction(nf)
  BY <1>1 DEF Job
<1>7. ASSUME job.kind = "reaction"
      PROVE  Placed(t, c, d, e, job.promise, job.is_reject, job.rd)
  <2>1. Occurs(Now, job.promise, job.is_reject, job.rd)
    BY <1>3, <1>4, <1>7, Zenon DEF Occurs, IsReactionJob
  <2> QED
    BY <1>0, <2>1, Zenon DEF Calm, PlacedAll
<1>8. job.kind = "reaction" => /\ promise[job.promise].state = SettledState(job.is_reject)
                               /\ promise[job.promise].result = job.arg
  <2>1. JobsFaithful(Now)
    BY SoundFacts, Zenon DEF Sound
  <2> QED
    BY <1>0, <1>3, <1>4, <2>1, Zenon DEF JobsFaithful, IsReactionJob
<1> QED
  BY <1>1, <1>2, <1>3, <1>4, <1>5, <1>6, <1>7, <1>8, Zenon DEF FirstJob, nf, job

\* The execution of a job that is not one of the host's leaves the handlers in
\* their places.  It calls c only to pass on the reason that t was rejected for.
LEMMA ExecutePendingJobSafe ==
  ASSUME OutcomeInv, NEW t, NEW c, NEW d, NEW e, Safe(t, c, d, e), ExecutePendingJob
  PROVE  Safe(t, c, d, e)'
<1> DEFINE nf == Len(func)
           job == Head(job_list)
           rd == job.rd
<1>0. /\ c \notin FramePairs(running) /\ nf \in Nat /\ c # nf + 1
      /\ running \in Seq(Frame(nf)) /\ running \in Seq(Frame(nf + 1))
  BY SafeFacts, Zenon
<1>a. job_list # <<>>
  BY Zenon DEF ExecutePendingJob, JobReady, ReactionJobPassThrough, ReactionJobResolving,
     ReactionJobScript, ThenableJobPromise, ThenableJobScript
<1>1. /\ WellFormed(Dequeue) /\ Dequeue.promise = promise /\ Dequeue.func = func
      /\ Calm(Dequeue, t, c, d, e)
      /\ job.kind = "thenable" => GoodBut(Dequeue, job.promise)
      /\ job.promise \in 1..Len(promise) /\ job.is_reject \in 0..1
      /\ job.arg \in ValOf(Len(promise))
      /\ job.kind = "reaction" =>
           /\ Good(Dequeue)
           /\ Placed(t, c, d, e, job.promise, job.is_reject, rd)
           /\ rd \in Reaction(nf)
           /\ promise[job.promise].state = SettledState(job.is_reject)
           /\ promise[job.promise].result = job.arg
  BY <1>a, FirstJobFacts, Zenon DEF FirstJob
<1> HIDE DEF nf, job, rd
<1>2. job.kind = "reaction" =>
         /\ rd.handler.kind \in {"none", "script"} => rd.fn \in 1..nf
         /\ rd.handler.kind \in {"resolve", "reject"} => rd.handler.fn \in 1..nf /\ rd.fn \in 1..nf
         /\ rd.handler.kind = "async" => rd.handler.fn \in 1..nf
  BY <1>0, <1>1 DEF Reaction
<1>3. running' = running => c \notin FramePairs(running')
  BY <1>0, Zenon
<1>4. ASSUME job.kind = "reaction", c # 0
      PROVE  /\ rd.handler.fn # c
             /\ rd.fn = c => /\ rd.handler.kind \in {"none", "ok"}
                             /\ rd.handler.kind = "none" => /\ job.promise = t
                                                            /\ job.is_reject = 1
  <2>1. /\ c # 0 /\ rd.fn = c => /\ job.promise = t
                                 /\ rd.handler = IF job.is_reject = 0 THEN HostOk ELSE None
        /\ c # 0 => rd.handler.fn # c
    BY <1>1, <1>4, Zenon DEF Placed
  <2> QED
    BY <1>1, <1>4, <2>1 DEF HostOk, None
<1>5. CASE ReactionJobPassThrough
  <2> DEFINE S == ResolveFunctionCall(Dequeue, rd.fn, job.is_reject, job.arg)
  <2>1. /\ job.kind = "reaction" /\ rd.handler.kind = "none" /\ Become(S) /\ running' = running
    BY <1>5, Zenon DEF ReactionJobPassThrough, JobReady, rd, job
  <2>2. rd.fn \in 1..Len(Dequeue.func) /\ job.arg \in ValOf(Len(Dequeue.promise))
    BY <1>1, <1>2, <2>1, Zenon DEF nf
  <2>3. RightCall(Dequeue, t, c, rd.fn, job.arg, job.is_reject)
    <3>1. ASSUME c # 0, rd.fn = c PROVE /\ job.is_reject = 1
                                        /\ promise[t].state = "rejected"
                                        /\ promise[t].result = job.arg
      <4>1. job.promise = t /\ job.is_reject = 1
        BY <1>4, <2>1, <3>1, Zenon
      <4> QED
        BY <1>1, <2>1, <4>1 DEF SettledState
    <3> QED
      BY <1>1, <3>1, Zenon DEF RightCall
  <2>4. Calm(S, t, c, d, e)
    BY <1>1, <2>1, <2>2, <2>3, ResolveFunctionCallCalm, Zenon
  <2>5. WellFormed(S)
    BY <1>1, <2>2, ResolveFunctionCallType, Zenon
  <2> HIDE DEF S
  <2> QED
    BY <1>3, <2>1, <2>4, <2>5, LeadsToSafe, Zenon
<1>6. CASE ReactionJobResolving
  <2> DEFINE h == rd.handler.fn
             b == IF rd.handler.kind = "reject" THEN 1 ELSE 0
             S == ResolveFunctionCall(Dequeue, h, b, job.arg)
             T == ResolveFunctionCall(S, rd.fn, 0, Undefined)
  <2>1. /\ job.kind = "reaction" /\ rd.handler.kind \in {"resolve", "reject"}
        /\ Become(T) /\ running' = running
    BY <1>6, Zenon DEF ReactionJobResolving, JobReady, rd, job
  <2>2. /\ h \in 1..Len(Dequeue.func) /\ rd.fn \in 1..Len(Dequeue.func)
        /\ job.arg \in ValOf(Len(Dequeue.promise))
    BY <1>1, <1>2, <2>1, Zenon DEF nf
  <2>3. b \in 0..1 /\ 0 \in 0..1
    OBVIOUS
  <2>4. RightCall(Dequeue, t, c, h, job.arg, b)
    BY <1>4, <2>1, Zenon DEF RightCall
  <2> HIDE DEF h, b
  <2>5. Calm(S, t, c, d, e)
    BY <1>1, <2>1, <2>2, <2>3, <2>4, ResolveFunctionCallCalm, Zenon
  <2>6. Good(S)
    BY <1>1, <2>1, <2>2, <2>3, ResolveFunctionCallGood, Zenon
  <2>7. Len(S.func) = Len(Dequeue.func) /\ WellFormed(S)
    BY <1>1, <2>2, <2>3, ResolveFunctionCallType, Zenon
  <2> HIDE DEF S
  <2>8. rd.fn \in 1..Len(S.func)
    BY <2>2, <2>7, Zenon
  <2>9. Undefined \in ValOf(Len(S.promise))
    BY DEF Undefined, ValOf, Val
  <2>10. RightCall(S, t, c, rd.fn, Undefined, 0)
    BY Zenon DEF RightCall
  <2>11. Calm(T, t, c, d, e)
    BY <2>3, <2>5, <2>6, <2>8, <2>9, <2>10, ResolveFunctionCallCalm, Zenon
  <2>12. WellFormed(T)
    BY <2>3, <2>7, <2>8, <2>9, ResolveFunctionCallType, Zenon
  <2> HIDE DEF T
  <2> QED
    BY <1>3, <2>1, <2>11, <2>12, LeadsToSafe, Zenon
<1>7. CASE ReactionJobScript
  <2>1. PICK f \in {rd.fn, rd.handler.fn}, kind \in {"script", "async"} :
          /\ job.kind = "reaction"
          /\ \/ kind = "script" /\ rd.handler.kind = "script" /\ f = rd.fn
             \/ kind = "async" /\ rd.handler.kind = "async" /\ f = rd.handler.fn
          /\ running' = <<[kind |-> kind, fn |-> f]>> \o running
          /\ Become(Dequeue)
    BY <1>7 DEF ReactionJobScript, JobReady, Push, rd, job
  <2>2. f \in 1..nf
    BY <1>2, <2>1, Zenon
  <2>3. f # c
    <3>1. f # 0
      BY <1>0, <2>2
    <3>2. CASE kind = "script" /\ rd.handler.kind = "script" /\ f = rd.fn
      BY <1>4, <2>1, <3>1, <3>2
    <3>3. CASE kind = "async" /\ rd.handler.kind = "async" /\ f = rd.handler.fn
      BY <1>4, <2>1, <3>1, <3>3, Zenon
    <3> QED
      BY <2>1, <3>2, <3>3, Zenon
  <2>4. c \notin FramePairs(running')
    <3>1. kind \in {"script", "async", "thenable"}
      BY <2>1
    <3>2. running' = <<[kind |-> kind, fn |-> f]>> \o running
      BY <2>1
    <3>3. PushesFrame(running', running, kind, f)
      BY <1>0, <2>2, <3>1, <3>2, FramesOfPush, Zenon
    <3> QED
      BY <1>0, <2>3, <3>3, Zenon DEF PushesFrame
  <2> QED
    BY <1>1, <2>1, <2>4, LeadsToSafe, Zenon
<1>8. CASE ThenableJobPromise \/ ThenableJobScript
  <2> DEFINE p == job.promise
             f == nf + 1
  <2>1. p \in 1..Len(Dequeue.promise) /\ Len(Dequeue.func) = nf
    BY <1>1, Zenon DEF nf
  <2>2. ASSUME NEW held \in BOOLEAN, NEW S, S = CreateResolvingFunctions(Dequeue, p, held)
        PROVE  /\ Calm(S, t, c, d, e) /\ WellFormed(S) /\ Len(S.func) = f
               /\ S.promise = promise
    <3>1. AddsPair(Dequeue, S, p, held)
      BY <1>1, <2>1, <2>2, CreateResolvingFunctionsType, Zenon
    <3>2. Calm(S, t, c, d, e)
      BY <1>1, <3>1, AddsPairMild, NothingNewCalm, Zenon
    <3> QED
      BY <1>1, <2>1, <3>1, <3>2, Zenon DEF AddsPair
  <2>3. f # 0 /\ f # c /\ f \in Nat /\ f \in 1..f
    BY <1>0
  <2> HIDE DEF f, p
  <2>4. CASE ThenableJobPromise
    <3> DEFINE S == CreateResolvingFunctions(Dequeue, p, FALSE)
               handlers == [b \in 0..1 |-> IF b = 0 THEN Resolver(f) ELSE Rejecter(f)]
               T == PromiseThen(S, job.arg.ref, handlers, FALSE)
    <3>0. FALSE \in BOOLEAN
      OBVIOUS
    <3>1. Calm(S, t, c, d, e) /\ WellFormed(S) /\ Len(S.func) = f /\ S.promise = promise
      BY <2>2, <3>0, Zenon
    <3>2. /\ job.kind = "thenable" /\ job.arg.kind = "promise"
          /\ running' = running /\ Become(T)
      BY <2>4, <3>1, Zenon DEF ThenableJobPromise, JobReady, job, p
    <3>3. Good(S)
      BY <1>1, <3>0, <3>2, CreateResolvingFunctionsGood, Zenon DEF p
    <3> HIDE DEF S
    <3>4. job.arg.ref \in 1..Len(S.promise)
      BY <1>1, <3>1, <3>2, Zenon DEF ValOf
    <3>5. /\ handlers \in [0..1 -> Handler]
          /\ \A b \in 0..1 : /\ handlers[b].fn = f
                             /\ handlers[b].kind \in {"resolve", "reject"}
      BY <2>3 DEF Resolver, Rejecter, Handler
    <3> HIDE DEF handlers
    <3>6. ThenArgs(S, handlers)
      <4>1. f \in 0..Len(S.func)
        BY <2>3, <3>1
      <4>2. \A b \in 0..1 : handlers[b].kind # "async"
        BY <3>5
      <4> QED
        BY <2>3, <3>5, <4>1, <4>2, Zenon DEF ThenArgs
    <3>7. /\ \A b \in 0..1 : handlers[b].kind \notin {"ok", "err"}
          /\ c # 0 => \A b \in 0..1 : handlers[b].fn # c
      BY <2>3, <3>5
    <3>8. Calm(T, t, c, d, e)
      BY <3>0, <3>1, <3>4, <3>6, <3>7, PromiseThenCalm, Zenon
    <3>9. WellFormed(T)
      <4>1. Good(T)
        BY <3>0, <3>3, <3>4, <3>6, PromiseThenGood, Zenon DEF ThenArgs
      <4> QED
        BY <4>1, Zenon DEF Good
    <3> HIDE DEF T
    <3> QED
      BY <1>3, <3>2, <3>8, <3>9, LeadsToSafe, Zenon
  <2>5. CASE ThenableJobScript
    <3> DEFINE S == CreateResolvingFunctions(Dequeue, p, TRUE)
    <3>0. TRUE \in BOOLEAN
      OBVIOUS
    <3>1. Calm(S, t, c, d, e) /\ WellFormed(S) /\ Len(S.func) = f
      BY <2>2, <3>0, Zenon
    <3>2. Become(S) /\ running' = <<[kind |-> "thenable", fn |-> f]>> \o running
      BY <2>5, <3>1, Zenon DEF ThenableJobScript, Push, job, p
    <3> HIDE DEF S
    <3>3. c \notin FramePairs(running')
      <4>1. running \in Seq(Frame(f)) /\ "thenable" \in {"script", "async", "thenable"}
        BY <1>0 DEF f
      <4>2. PushesFrame(running', running, "thenable", f)
        BY <2>3, <3>2, <4>1, FramesOfPush, Zenon
      <4> QED
        BY <1>0, <2>3, <4>2, Zenon DEF PushesFrame
    <3> QED
      BY <3>1, <3>2, <3>3, LeadsToSafe, Zenon
  <2> QED
    BY <1>8, <2>4, <2>5, Zenon
<1> QED
  BY <1>5, <1>6, <1>7, <1>8, Zenon DEF ExecutePendingJob
====
