------------------------- MODULE PromiseMachineProofs -------------------------
(***************************************************************************)
(* Proofs about PromiseMachine, for every number of promises, pairs and    *)
(* jobs and every set of script values.                                    *)
(***************************************************************************)
EXTENDS PromiseMachine, SequenceTheorems, TLAPS

-----------------------------------------------------------------------------
(* Sequences                                                               *)

\* The elements of a concatenation.
LEMMA ConcatElements ==
  ASSUME NEW R, NEW x \in Seq(R), NEW y \in Seq(R)
  PROVE  /\ x \o y \in Seq(R)
         /\ Len(x \o y) = Len(x) + Len(y)
         /\ \A i \in 1..Len(x) : (x \o y)[i] = x[i]
         /\ \A i \in 1..Len(y) : (x \o y)[Len(x) + i] = y[i]
<1>1. Len(x) \in Nat /\ Len(y) \in Nat
  BY LenProperties
<1>2. /\ x \o y \in Seq(R)
      /\ Len(x \o y) = Len(x) + Len(y)
      /\ \A i \in 1..(Len(x) + Len(y)) :
           (x \o y)[i] = IF i <= Len(x) THEN x[i] ELSE y[i - Len(x)]
  BY ConcatProperties
<1>3. ASSUME NEW i \in 1..Len(x) PROVE (x \o y)[i] = x[i]
  BY <1>1, <1>2
<1>4. ASSUME NEW i \in 1..Len(y) PROVE (x \o y)[Len(x) + i] = y[i]
  <2>1. Len(x) + i \in 1..(Len(x) + Len(y)) /\ ~(Len(x) + i <= Len(x)) /\ (Len(x) + i) - Len(x) = i
    BY <1>1
  <2> QED
    BY <1>2, <2>1
<1> QED
  BY <1>2, <1>3, <1>4

-----------------------------------------------------------------------------
(* Types                                                                   *)

\* The types grow with the numbers of promises and pairs.
LEMMA TypesGrow ==
  ASSUME NEW np \in Nat, NEW nf \in Nat, NEW mp \in Nat, NEW mf \in Nat,
         np <= mp, nf <= mf
  PROVE  /\ ValOf(np) \subseteq ValOf(mp)
         /\ Reaction(nf) \subseteq Reaction(mf)
         /\ PromiseData(np, nf) \subseteq PromiseData(mp, mf)
         /\ FuncData(np) \subseteq FuncData(mp)
         /\ Job(np, nf) \subseteq Job(mp, mf)
         /\ Frame(nf) \subseteq Frame(mf)
<1>1. ValOf(np) \subseteq ValOf(mp)
  BY DEF ValOf
<1>2. Reaction(nf) \subseteq Reaction(mf)
  BY DEF Reaction
<1>3. Seq(Reaction(nf)) \subseteq Seq(Reaction(mf))
  BY <1>2, SeqMonotonic
<1>4. PromiseData(np, nf) \subseteq PromiseData(mp, mf)
  BY <1>1, <1>3 DEF PromiseData
<1>5. FuncData(np) \subseteq FuncData(mp)
  BY DEF FuncData
<1>6. Job(np, nf) \subseteq Job(mp, mf)
  BY <1>1, <1>2 DEF Job
<1>7. Frame(nf) \subseteq Frame(mf)
  BY DEF Frame
<1> QED
  BY <1>1, <1>2, <1>4, <1>5, <1>6, <1>7

\* The two kinds of job that the engine queues are well formed.
LEMMA JobTypes ==
  ASSUME NEW np \in Nat, NEW nf \in Nat, NEW p \in 1..np, NEW v \in ValOf(np)
  PROVE  /\ \A rd \in Reaction(nf), b \in 0..1 : ReactionJob(p, rd, b, v) \in Job(np, nf)
         /\ Chains(v) => ThenableJob(p, v) \in Job(np, nf)
<1>1. ASSUME NEW rd \in Reaction(nf), NEW b \in 0..1
      PROVE  ReactionJob(p, rd, b, v) \in Job(np, nf)
  <2>1. rd.handler.kind = "async" \/ rd.fn # 0
    BY DEF Reaction
  <2>2. rd # NoReaction
    BY <2>1 DEF NoReaction, None
  <2> QED
    BY <2>2 DEF ReactionJob, Job
<1>2. ASSUME Chains(v) PROVE ThenableJob(p, v) \in Job(np, nf)
  BY <1>2 DEF ThenableJob, Job
<1> QED
  BY <1>1, <1>2

\* FulfillOrReject keeps the state well formed, and the numbers of promises
\* and pairs.
LEMMA FulfillOrRejectType ==
  ASSUME NEW S, WellFormed(S), NEW p \in 1..Len(S.promise),
         NEW v \in ValOf(Len(S.promise)), NEW b \in 0..1
  PROVE  LET T == FulfillOrReject(S, p, v, b)
         IN  /\ WellFormed(T)
             /\ Len(T.promise) = Len(S.promise)
             /\ T.func = S.func
<1> DEFINE np == Len(S.promise)
           nf == Len(S.func)
           T == FulfillOrReject(S, p, v, b)
           rds == S.promise[p].reactions[b]
           jobs == [i \in 1..Len(rds) |-> ReactionJob(p, rds[i], b, v)]
           data == [state |-> IF b = 1 THEN "rejected" ELSE "fulfilled",
                    result |-> v, reactions |-> NoReactions,
                    shared |-> S.promise[p].shared,
                    follows |-> S.promise[p].follows]
<1>0. np \in Nat /\ nf \in Nat
  BY LenProperties DEF WellFormed
<1>1. CASE S.promise[p].state # "pending"
  BY <1>1, SMTT(30) DEF FulfillOrReject
<1>2. CASE S.promise[p].state = "pending"
  <2>1. S.promise[p] \in PromiseData(np, nf)
    BY ElementOfSeq DEF WellFormed
  <2>2. rds \in Seq(Reaction(nf))
    BY <2>1 DEF PromiseData
  <2>3. \A i \in 1..Len(rds) : ReactionJob(p, rds[i], b, v) \in Job(np, nf)
    BY <1>0, <2>2, ElementOfSeq, JobTypes, SMTT(30)
  <2>4. jobs \in Seq(Job(np, nf))
    <3>1. Len(rds) \in Nat
      BY <2>2, LenProperties
    <3>2. jobs \in [1..Len(rds) -> Job(np, nf)]
      BY <2>3
    <3> QED
      BY <3>1, <3>2, SeqDef
  <2>5. NoReactions \in [0..1 -> Seq(Reaction(nf))]
    BY DEF NoReactions
  <2>6. data \in PromiseData(np, nf)
    BY <2>1, <2>5 DEF PromiseData
  <2>7. T = [promise |-> [S.promise EXCEPT ![p] = data], func |-> S.func,
             job_list |-> S.job_list \o jobs]
    BY <1>2 DEF FulfillOrReject
  <2>8. /\ [S.promise EXCEPT ![p] = data] \in Seq(PromiseData(np, nf))
        /\ Len([S.promise EXCEPT ![p] = data]) = np
    BY <2>6, ExceptSeq DEF WellFormed
  <2>9. S.job_list \o jobs \in Seq(Job(np, nf))
    BY <2>4, ConcatProperties DEF WellFormed
  <2> QED
    BY <2>7, <2>8, <2>9 DEF WellFormed
<1> QED
  BY <1>1, <1>2
\* So does Resolve.
LEMMA ResolveType ==
  ASSUME NEW S, WellFormed(S), NEW p \in 1..Len(S.promise),
         NEW v \in ValOf(Len(S.promise)), NEW b \in 0..1
  PROVE  LET T == Resolve(S, p, b, v)
         IN  /\ WellFormed(T)
             /\ Len(T.promise) = Len(S.promise)
             /\ T.func = S.func
<1> DEFINE np == Len(S.promise)
           nf == Len(S.func)
           T == Resolve(S, p, b, v)
           q == IF v.kind = "promise" THEN v.ref ELSE 0
           data == [S.promise[p] EXCEPT !.follows = q]
<1>0. np \in Nat /\ nf \in Nat
  BY LenProperties DEF WellFormed
<1>1. SelfError \in ValOf(np) /\ ThenError \in ValOf(np)
  BY DEF SelfError, ThenError, ValOf, Val
<1>2. CASE b = 1 \/ v.kind \in {"undefined", "plain", "error"}
  BY <1>2, FulfillOrRejectType DEF Resolve
<1>3. CASE ~(b = 1 \/ v.kind \in {"undefined", "plain", "error"}) /\ v = PromiseObj(p)
  BY <1>1, <1>3, FulfillOrRejectType DEF Resolve
<1>4. CASE /\ ~(b = 1 \/ v.kind \in {"undefined", "plain", "error"})
           /\ v # PromiseObj(p) /\ v.kind = "poisoned"
  BY <1>1, <1>4, FulfillOrRejectType DEF Resolve
<1>5. CASE /\ ~(b = 1 \/ v.kind \in {"undefined", "plain", "error"})
           /\ v # PromiseObj(p) /\ v.kind # "poisoned"
  <2>1. T = [promise |-> [S.promise EXCEPT ![p] = data], func |-> S.func,
             job_list |-> Append(S.job_list, ThenableJob(p, v))]
    BY <1>5 DEF Resolve
  <2>2. Chains(v) /\ q \in 0..np
    BY <1>0, <1>5 DEF Chains, ValOf, Val
  <2>3. S.promise[p] \in PromiseData(np, nf)
    BY ElementOfSeq DEF WellFormed
  <2>4. data \in PromiseData(np, nf)
    BY <2>2, <2>3, Zenon DEF PromiseData
  <2>5. /\ [S.promise EXCEPT ![p] = data] \in Seq(PromiseData(np, nf))
        /\ Len([S.promise EXCEPT ![p] = data]) = np
    BY <2>4, ExceptSeq DEF WellFormed
  <2>6. Append(S.job_list, ThenableJob(p, v)) \in Seq(Job(np, nf))
    BY <1>0, <2>2, JobTypes, AppendProperties DEF WellFormed
  <2> QED
    BY <2>1, <2>5, <2>6 DEF WellFormed
<1> QED
  BY <1>2, <1>3, <1>4, <1>5

\* So does marking a pair as called.
LEMMA MarkResolvedType ==
  ASSUME NEW S, WellFormed(S), NEW f \in 1..Len(S.func)
  PROVE  LET T == MarkResolved(S, f)
         IN  /\ WellFormed(T)
             /\ T.promise = S.promise
             /\ T.job_list = S.job_list
             /\ Len(T.func) = Len(S.func)
             /\ \A g \in 1..Len(S.func) :
                  /\ T.func[g].promise = S.func[g].promise
                  /\ T.func[g].held = S.func[g].held
                  /\ Unresolved(T, g) <=> (g # f /\ Unresolved(S, g))
<1> DEFINE np == Len(S.promise)
           nf == Len(S.func)
           T == MarkResolved(S, f)
           data == [S.func[f] EXCEPT !.already_resolved = 1]
<1>1. S.func[f] \in FuncData(np)
  BY ElementOfSeq DEF WellFormed
<1>2. data \in FuncData(np)
  BY <1>1 DEF FuncData
<1>3. /\ T.func = [S.func EXCEPT ![f] = data]
      /\ T.promise = S.promise /\ T.job_list = S.job_list
      /\ T = [promise |-> S.promise, func |-> T.func, job_list |-> S.job_list]
  <2>1. S = [promise |-> S.promise, func |-> S.func, job_list |-> S.job_list]
    BY DEF WellFormed
  <2> HIDE DEF data
  <2>2. T = [S EXCEPT !.func = [S.func EXCEPT ![f] = data]]
    BY DEF MarkResolved, data
  <2> QED
    BY <2>1, <2>2, Zenon
<1>4. /\ T.func \in Seq(FuncData(np))
      /\ Len(T.func) = nf
      /\ \A g \in 1..nf : T.func[g] = IF g = f THEN data ELSE S.func[g]
  BY <1>2, <1>3, ExceptSeq DEF WellFormed
<1>5. WellFormed(T)
  BY <1>3, <1>4, Zenon DEF WellFormed
<1>6. ASSUME NEW g \in 1..nf
      PROVE  /\ T.func[g].promise = S.func[g].promise
             /\ T.func[g].held = S.func[g].held
             /\ Unresolved(T, g) <=> (g # f /\ Unresolved(S, g))
  <2>1. S.func[g] \in FuncData(np)
    BY ElementOfSeq DEF WellFormed
  <2>2. data.promise = S.func[f].promise /\ data.held = S.func[f].held
        /\ data.already_resolved = 1
    BY <1>1 DEF FuncData
  <2> HIDE DEF data, T
  <2> QED
    BY <1>4, <2>2 DEF Unresolved
<1> QED
  BY <1>3, <1>4, <1>5, <1>6
\* A call of a resolving function keeps the state well formed.
LEMMA ResolveFunctionCallType ==
  ASSUME NEW S, WellFormed(S), NEW f \in 1..Len(S.func),
         NEW v \in ValOf(Len(S.promise)), NEW b \in 0..1
  PROVE  LET T == ResolveFunctionCall(S, f, b, v)
         IN  /\ WellFormed(T)
             /\ Len(T.promise) = Len(S.promise)
             /\ Len(T.func) = Len(S.func)
<1> DEFINE U == MarkResolved(S, f)
<1>1. WellFormed(U) /\ U.promise = S.promise /\ Len(U.func) = Len(S.func)
  BY MarkResolvedType
<1>2. S.func[f].promise \in 1..Len(U.promise)
  <2>1. S.func[f] \in FuncData(Len(S.promise))
    BY ElementOfSeq DEF WellFormed
  <2> QED
    BY <1>1, <2>1 DEF FuncData
<1> HIDE DEF U
<1>3. LET T == Resolve(U, S.func[f].promise, b, v)
      IN  WellFormed(T) /\ Len(T.promise) = Len(U.promise) /\ T.func = U.func
  BY <1>1, <1>2, ResolveType
<1> QED
  BY <1>1, <1>3 DEF ResolveFunctionCall, U

\* Making a pair of resolving functions adds one pair and changes nothing else.
AddsPair(S, T, p, held) ==
  /\ WellFormed(T)
  /\ T.promise = S.promise
  /\ T.job_list = S.job_list
  /\ Len(T.func) = Len(S.func) + 1
  /\ \A g \in 1..Len(S.func) : T.func[g] = S.func[g]
  /\ T.func[Len(S.func) + 1] = [promise |-> p, already_resolved |-> 0, held |-> held]

\* CreateResolvingFunctions does that.
LEMMA CreateResolvingFunctionsType ==
  ASSUME NEW S, WellFormed(S), NEW p \in 1..Len(S.promise), NEW held \in BOOLEAN
  PROVE  AddsPair(S, CreateResolvingFunctions(S, p, held), p, held)
<1> DEFINE np == Len(S.promise)
           nf == Len(S.func)
           T == CreateResolvingFunctions(S, p, held)
           data == [promise |-> p, already_resolved |-> 0, held |-> held]
<1>0. np \in Nat /\ nf \in Nat
  BY LenProperties DEF WellFormed
<1>1. data \in FuncData(np)
  BY DEF FuncData
<1>2. T = [promise |-> S.promise, func |-> Append(S.func, data),
           job_list |-> S.job_list]
  <2>1. S = [promise |-> S.promise, func |-> S.func, job_list |-> S.job_list]
    BY DEF WellFormed
  <2>2. T = [S EXCEPT !.func = Append(S.func, data)]
    BY DEF CreateResolvingFunctions
  <2> HIDE DEF data
  <2> QED
    BY <2>1, <2>2, Zenon
<1>3. /\ T.func \in Seq(FuncData(np)) /\ Len(T.func) = nf + 1
      /\ \A g \in 1..nf : T.func[g] = S.func[g]
      /\ T.func[nf + 1] = data
  BY <1>1, <1>2, AppendProperties DEF WellFormed
<1>4. /\ PromiseData(np, nf) \subseteq PromiseData(np, nf + 1)
      /\ Job(np, nf) \subseteq Job(np, nf + 1)
  <2>1. nf + 1 \in Nat /\ nf <= nf + 1 /\ np <= np
    BY <1>0
  <2> HIDE DEF np, nf
  <2> QED
    BY <1>0, <2>1, TypesGrow
<1>5. /\ S.promise \in Seq(PromiseData(np, nf + 1))
      /\ S.job_list \in Seq(Job(np, nf + 1))
  BY <1>4, SeqMonotonic DEF WellFormed
<1>6. WellFormed(T)
  BY <1>2, <1>3, <1>5 DEF WellFormed
<1> QED
  BY <1>2, <1>3, <1>6 DEF AddsPair

\* A new promise is pending and has a new pair.
AddsPromise(S, T, held) ==
  LET np == Len(S.promise)
      nf == Len(S.func)
  IN  /\ WellFormed(T)
      /\ T.job_list = S.job_list
      /\ Len(T.promise) = np + 1
      /\ \A q \in 1..np : T.promise[q] = S.promise[q]
      /\ T.promise[np + 1].state = "pending"
      /\ T.promise[np + 1].reactions = NoReactions
      /\ T.promise[np + 1].follows = 0
      /\ Len(T.func) = nf + 1
      /\ \A g \in 1..nf : T.func[g] = S.func[g]
      /\ T.func[nf + 1] = [promise |-> np + 1, already_resolved |-> 0, held |-> held]

\* NewPromise makes one.
LEMMA NewPromiseType ==
  ASSUME NEW S, WellFormed(S), NEW shared \in BOOLEAN, NEW held \in BOOLEAN
  PROVE  AddsPromise(S, NewPromise(S, shared, held), held)
<1> DEFINE np == Len(S.promise)
           nf == Len(S.func)
           data == [state |-> "pending", result |-> Undefined,
                    reactions |-> NoReactions, shared |-> shared, follows |-> 0]
           U == [promise |-> Append(S.promise, data), func |-> S.func,
                 job_list |-> S.job_list]
<1>0. np \in Nat /\ nf \in Nat
  BY LenProperties DEF WellFormed
<1>1. data \in PromiseData(np, nf)
  <2>1. NoReactions \in [0..1 -> Seq(Reaction(nf))]
    BY DEF NoReactions
  <2>2. Undefined \in ValOf(np)
    BY DEF Undefined, ValOf, Val
  <2> QED
    BY <1>0, <2>1, <2>2 DEF PromiseData
<1>2. /\ PromiseData(np, nf) \subseteq PromiseData(np + 1, nf)
      /\ FuncData(np) \subseteq FuncData(np + 1)
      /\ Job(np, nf) \subseteq Job(np + 1, nf)
  <2>1. np + 1 \in Nat /\ np <= np + 1 /\ nf <= nf
    BY <1>0
  <2> HIDE DEF np, nf
  <2> QED
    BY <1>0, <2>1, TypesGrow
<1>3. /\ S.promise \in Seq(PromiseData(np + 1, nf))
      /\ S.func \in Seq(FuncData(np + 1))
      /\ S.job_list \in Seq(Job(np + 1, nf))
      /\ data \in PromiseData(np + 1, nf)
  BY <1>1, <1>2, SeqMonotonic DEF WellFormed
<1> HIDE DEF data
<1>4. /\ U.promise \in Seq(PromiseData(np + 1, nf)) /\ Len(U.promise) = np + 1
      /\ \A q \in 1..np : U.promise[q] = S.promise[q]
      /\ U.promise[np + 1] = data
  BY <1>3, AppendProperties
<1>5. WellFormed(U)
  BY <1>3, <1>4 DEF WellFormed
<1>6. NewPromise(S, shared, held) = CreateResolvingFunctions(U, Len(U.promise), held)
  <2>1. S = [promise |-> S.promise, func |-> S.func, job_list |-> S.job_list]
    BY DEF WellFormed
  <2> DEFINE x == S.promise
             y == S.func
             z == S.job_list
             a == Append(S.promise, data)
  <2>4. S = [promise |-> x, func |-> y, job_list |-> z] /\ U = [promise |-> a, func |-> y, job_list |-> z]
    BY <2>1, Zenon DEF U
  <2> HIDE DEF x, y, z, a, U
  <2>3. [[promise |-> x, func |-> y, job_list |-> z] EXCEPT !.promise = a]
          = [promise |-> a, func |-> y, job_list |-> z]
    OBVIOUS
  <2>2. [S EXCEPT !.promise = Append(S.promise, data)] = U
    <3>1. [S EXCEPT !.promise = a] = U
      BY <2>3, <2>4
    <3> QED
      BY <3>1, Zenon DEF a
  <2> QED
    BY <2>2, Zenon DEF NewPromise, data
<1>7. Len(U.promise) \in 1..Len(U.promise)
  BY <1>0, <1>4
<1> DEFINE T == CreateResolvingFunctions(U, Len(U.promise), held)
<1>8. AddsPair(U, T, Len(U.promise), held)
  <2> HIDE DEF U
  <2> QED
    BY <1>5, <1>7, CreateResolvingFunctionsType
<1>9. data.state = "pending" /\ data.reactions = NoReactions /\ data.follows = 0
  BY DEF data
<1> HIDE DEF T
<1>10. U.func = S.func /\ U.job_list = S.job_list
  OBVIOUS
<1> HIDE DEF U
<1>11. AddsPromise(S, T, held)
  BY <1>4, <1>8, <1>9, <1>10 DEF AddsPair, AddsPromise
<1> QED
  BY <1>6, <1>11 DEF T

\* The reactions that perform_promise_then is given, as its callers build them.
HandlersFor(nf, handlers, fn) ==
  /\ handlers \in [0..1 -> Handler]
  /\ \A b \in 0..1 : [fn |-> fn, handler |-> handlers[b]] \in Reaction(nf)

\* perform_promise_then on a pending promise: both lists get a reaction.
Registers(S, T, p, handlers, fn) ==
  /\ WellFormed(T)
  /\ T.func = S.func
  /\ T.job_list = S.job_list
  /\ Len(T.promise) = Len(S.promise)
  /\ \A q \in 1..Len(S.promise) : q # p => T.promise[q] = S.promise[q]
  /\ T.promise[p].state = "pending"
  /\ T.promise[p].follows = S.promise[p].follows
  /\ T.promise[p].reactions =
       [c \in 0..1 |-> Append(S.promise[p].reactions[c],
                              [fn |-> fn, handler |-> handlers[c]])]

\* It does so.
LEMMA ThenPending ==
  ASSUME NEW S, WellFormed(S), NEW p \in 1..Len(S.promise), NEW handlers, NEW fn,
         HandlersFor(Len(S.func), handlers, fn), S.promise[p].state = "pending"
  PROVE  Registers(S, PerformPromiseThen(S, p, handlers, fn), p, handlers, fn)
<1> DEFINE np == Len(S.promise)
           nf == Len(S.func)
           T == PerformPromiseThen(S, p, handlers, fn)
           lists == [c \in 0..1 |-> Append(S.promise[p].reactions[c],
                                           [fn |-> fn, handler |-> handlers[c]])]
           data == [S.promise[p] EXCEPT !.reactions = lists]
<1>1. S.promise[p] \in PromiseData(np, nf)
  BY ElementOfSeq DEF WellFormed
<1>2. lists \in [0..1 -> Seq(Reaction(nf))]
  BY <1>1, AppendProperties DEF HandlersFor, PromiseData
<1>3. T = [promise |-> [S.promise EXCEPT ![p] = data], func |-> S.func,
           job_list |-> S.job_list]
  <2>1. S = [promise |-> S.promise, func |-> S.func, job_list |-> S.job_list]
    BY DEF WellFormed
  <2>2. T = [S EXCEPT !.promise = [S.promise EXCEPT ![p] = data]]
    BY DEF PerformPromiseThen
  <2> HIDE DEF data, T
  <2> QED
    BY <2>1, <2>2, Zenon
<1> HIDE DEF lists
<1>4. /\ data \in PromiseData(np, nf) /\ data.state = "pending" /\ data.reactions = lists
      /\ data.follows = S.promise[p].follows
  BY <1>1, <1>2, Zenon DEF PromiseData
<1> HIDE DEF data
<1>5. /\ T.promise \in Seq(PromiseData(np, nf)) /\ Len(T.promise) = np
      /\ \A q \in 1..np : T.promise[q] = IF q = p THEN data ELSE S.promise[q]
  BY <1>3, <1>4, ExceptSeq DEF WellFormed
<1>6. WellFormed(T)
  BY <1>3, <1>5 DEF WellFormed
<1> QED
  BY <1>3, <1>4, <1>5, <1>6 DEF lists, Registers

\* perform_promise_then on a settled promise: a job is queued at once.
Queues(S, T, p, handlers, fn) ==
  /\ WellFormed(T)
  /\ T.func = S.func
  /\ T.promise = S.promise
  /\ \E b \in 0..1 :
       /\ S.promise[p].state = (IF b = 1 THEN "rejected" ELSE "fulfilled")
       /\ T.job_list = Append(S.job_list,
            ReactionJob(p, [fn |-> fn, handler |-> handlers[b]], b, S.promise[p].result))

\* It does so.
LEMMA ThenSettled ==
  ASSUME NEW S, WellFormed(S), NEW p \in 1..Len(S.promise), NEW handlers, NEW fn,
         HandlersFor(Len(S.func), handlers, fn), S.promise[p].state # "pending"
  PROVE  Queues(S, PerformPromiseThen(S, p, handlers, fn), p, handlers, fn)
<1> DEFINE np == Len(S.promise)
           nf == Len(S.func)
           T == PerformPromiseThen(S, p, handlers, fn)
           b == IF S.promise[p].state = "rejected" THEN 1 ELSE 0
           rd == [fn |-> fn, handler |-> handlers[b]]
           job == ReactionJob(p, rd, b, S.promise[p].result)
<1>0. np \in Nat /\ nf \in Nat
  BY LenProperties DEF WellFormed
<1>1. b \in 0..1
  OBVIOUS
<1>2. S.promise[p] \in PromiseData(np, nf)
  BY ElementOfSeq DEF WellFormed
<1>3. S.promise[p].result \in ValOf(np)
  BY <1>2 DEF PromiseData
<1>4. rd \in Reaction(nf)
  BY <1>1 DEF HandlersFor
<1>5. job \in Job(np, nf)
  BY <1>0, <1>1, <1>3, <1>4, JobTypes
<1>6. T = [promise |-> S.promise, func |-> S.func,
           job_list |-> Append(S.job_list, job)]
  <2>1. S = [promise |-> S.promise, func |-> S.func, job_list |-> S.job_list]
    BY DEF WellFormed
  <2>2. T = [S EXCEPT !.job_list = Append(S.job_list, job)]
    BY DEF PerformPromiseThen
  <2> HIDE DEF job, T
  <2> QED
    BY <2>1, <2>2, Zenon
<1>7. T.job_list \in Seq(Job(np, nf))
  BY <1>5, <1>6, AppendProperties DEF WellFormed
<1>8. WellFormed(T)
  BY <1>6, <1>7 DEF WellFormed
<1>9. S.promise[p].state = (IF b = 1 THEN "rejected" ELSE "fulfilled")
  BY <1>2 DEF PromiseData
<1> HIDE DEF b, T
<1> QED
  BY <1>1, <1>6, <1>8, <1>9 DEF Queues, T

\* What FulfillOrReject does to a pending promise: its reactions of one list
\* become jobs at the end of the queue.
Settles(S, T, p, v, b) ==
  LET rds == S.promise[p].reactions[b]
      n == Len(S.job_list)
  IN  /\ \A q \in 1..Len(S.promise) : q # p => T.promise[q] = S.promise[q]
      /\ T.promise[p].state = (IF b = 1 THEN "rejected" ELSE "fulfilled")
      /\ T.promise[p].result = v
      /\ T.promise[p].reactions = NoReactions
      /\ T.promise[p].follows = S.promise[p].follows
      /\ n \in Nat /\ Len(rds) \in Nat
      /\ Len(T.job_list) = n + Len(rds)
      /\ \A i \in 1..n : T.job_list[i] = S.job_list[i]
      /\ \A i \in 1..Len(rds) : T.job_list[n + i] = ReactionJob(p, rds[i], b, v)

\* FulfillOrReject settles a pending promise in this sense.
LEMMA FulfillOrRejectEffect ==
  ASSUME NEW S, WellFormed(S), NEW p \in 1..Len(S.promise), NEW v, NEW b \in 0..1,
         S.promise[p].state = "pending"
  PROVE  Settles(S, FulfillOrReject(S, p, v, b), p, v, b)
<1> DEFINE np == Len(S.promise)
           nf == Len(S.func)
           n == Len(S.job_list)
           T == FulfillOrReject(S, p, v, b)
           rds == S.promise[p].reactions[b]
           jobs == [i \in 1..Len(rds) |-> ReactionJob(p, rds[i], b, v)]
           data == [state |-> IF b = 1 THEN "rejected" ELSE "fulfilled",
                    result |-> v, reactions |-> NoReactions,
                    shared |-> S.promise[p].shared,
                    follows |-> S.promise[p].follows]
<1>1. S.promise[p] \in PromiseData(np, nf)
  BY ElementOfSeq DEF WellFormed
<1>2. rds \in Seq(Reaction(nf)) /\ Len(rds) \in Nat
  BY <1>1, LenProperties, Zenon DEF PromiseData
<1>3. n \in Nat /\ S.job_list \in Seq(Job(np, nf))
  BY LenProperties DEF WellFormed
<1>4. T.promise = [S.promise EXCEPT ![p] = data] /\ T.job_list = S.job_list \o jobs
  BY Zenon DEF FulfillOrReject
<1>5. /\ data.state = (IF b = 1 THEN "rejected" ELSE "fulfilled")
      /\ data.result = v /\ data.reactions = NoReactions
      /\ data.follows = S.promise[p].follows
  BY Zenon
<1> HIDE DEF data
<1>6. \A q \in 1..np : T.promise[q] = IF q = p THEN data ELSE S.promise[q]
  <2>1. S.promise \in [1..np -> PromiseData(np, nf)]
    BY LenProperties DEF WellFormed
  <2> QED
    BY <1>4, <2>1
<1>7. \A i \in 1..Len(rds) : jobs[i] = ReactionJob(p, rds[i], b, v)
  OBVIOUS
<1> DEFINE R == {jobs[i] : i \in 1..Len(rds)} \cup Job(np, nf)
<1>8. jobs \in Seq(R) /\ Len(jobs) = Len(rds)
  <2>1. jobs \in [1..Len(rds) -> R]
    BY SMTT(30)
  <2> HIDE DEF jobs, R, rds
  <2> QED
    BY <1>2, <2>1, SeqDef
<1>9. S.job_list \in Seq(R)
  BY <1>3, SeqMonotonic
<1> HIDE DEF jobs, rds, n, R
<1>10. T.job_list = S.job_list \o jobs
  BY <1>4
<1> HIDE DEF T
<1>11. /\ Len(T.job_list) = Len(S.job_list) + Len(jobs)
       /\ \A i \in 1..Len(S.job_list) : T.job_list[i] = S.job_list[i]
       /\ \A i \in 1..Len(jobs) : T.job_list[Len(S.job_list) + i] = jobs[i]
  <2>1. \A x, y \in Seq(R) :
          /\ Len(x \o y) = Len(x) + Len(y)
          /\ \A i \in 1..Len(x) : (x \o y)[i] = x[i]
          /\ \A i \in 1..Len(y) : (x \o y)[Len(x) + i] = y[i]
    BY ConcatElements
  <2>2. S.job_list \in Seq(R) /\ jobs \in Seq(R)
    BY <1>8, <1>9
  <2>3. /\ Len(S.job_list \o jobs) = Len(S.job_list) + Len(jobs)
        /\ \A i \in 1..Len(S.job_list) : (S.job_list \o jobs)[i] = S.job_list[i]
        /\ \A i \in 1..Len(jobs) : (S.job_list \o jobs)[Len(S.job_list) + i] = jobs[i]
    BY <2>1, <2>2
  <2> QED
    BY <1>10, <2>3
<1>12. /\ Len(T.job_list) = n + Len(rds)
       /\ \A i \in 1..n : T.job_list[i] = S.job_list[i]
       /\ \A i \in 1..Len(rds) : T.job_list[n + i] = ReactionJob(p, rds[i], b, v)
  BY <1>7, <1>8, <1>11 DEF n
<1>13. /\ \A q \in 1..np : q # p => T.promise[q] = S.promise[q]
       /\ T.promise[p].state = (IF b = 1 THEN "rejected" ELSE "fulfilled")
       /\ T.promise[p].result = v
       /\ T.promise[p].reactions = NoReactions
       /\ T.promise[p].follows = S.promise[p].follows
  BY <1>5, <1>6
<1> QED
  BY <1>2, <1>3, <1>12, <1>13 DEF rds, n, T, Settles

-----------------------------------------------------------------------------
(* Rights to settle                                                        *)

Rights(S) == RightsArePending(S) /\ RightsAreDistinct(S)

\* Every promise has exactly one right while it is pending, and none after.
Good(S) ==
  /\ WellFormed(S)
  /\ Rights(S)
  /\ \A q \in 1..Len(S.promise) : S.promise[q].state = "pending" => HasRight(S, q)

\* The same, except that the right of the pending promise p was just taken.
GoodBut(S, p) ==
  /\ WellFormed(S)
  /\ Rights(S)
  /\ p \in 1..Len(S.promise)
  /\ S.promise[p].state = "pending"
  /\ ~HasRight(S, p)
  /\ \A q \in 1..Len(S.promise) :
       q # p /\ S.promise[q].state = "pending" => HasRight(S, q)

\* The first call of a pair takes the right of its promise.
LEMMA MarkResolvedGood ==
  ASSUME NEW S, Good(S), NEW f \in 1..Len(S.func), Unresolved(S, f)
  PROVE  GoodBut(MarkResolved(S, f), S.func[f].promise)
<1> DEFINE T == MarkResolved(S, f)
           p == S.func[f].promise
<1>rights. RightsArePending(S) /\ RightsAreDistinct(S)
  BY DEF Good, Rights
<1>1. /\ WellFormed(T) /\ T.promise = S.promise /\ T.job_list = S.job_list
      /\ Len(T.func) = Len(S.func)
      /\ \A g \in 1..Len(S.func) :
           /\ T.func[g].promise = S.func[g].promise
           /\ T.func[g].held = S.func[g].held
           /\ Unresolved(T, g) <=> (g # f /\ Unresolved(S, g))
  BY MarkResolvedType DEF Good
<1>2. \A g \in 1..Len(S.func) :
        /\ T.func[g].promise = S.func[g].promise
        /\ Unresolved(T, g) <=> (g # f /\ Unresolved(S, g))
  BY <1>1
<1>3. p \in 1..Len(S.promise)
  <2>1. S.func[f] \in FuncData(Len(S.promise))
    BY ElementOfSeq DEF Good, WellFormed
  <2> QED
    BY <2>1 DEF FuncData
<1> HIDE DEF T
<1>4. \A i \in 1..Len(T.job_list) : IsThenableJob(T, i) <=> IsThenableJob(S, i)
  BY <1>1 DEF IsThenableJob
<1>5. Rights(T)
  <2>0. T.promise = S.promise /\ T.job_list = S.job_list /\ Len(T.func) = Len(S.func)
    BY <1>1
  <2>1. RightsArePending(T)
    BY <1>rights, <1>2, <1>4, <2>0, Zenon DEF RightsArePending
  <2>2. RightsAreDistinct(T)
    BY <1>rights, <1>1, <1>2, <1>4 DEF RightsAreDistinct
  <2> QED
    BY <2>1, <2>2 DEF Rights
<1>6. ~HasRight(T, p)
  <2>1. \A g \in 1..Len(T.func) : Unresolved(T, g) => T.func[g].promise # p
    BY <1>rights, <1>1, <1>2 DEF RightsAreDistinct
  <2>2. \A i \in 1..Len(T.job_list) : IsThenableJob(T, i) => T.job_list[i].promise # p
    BY <1>rights, <1>1, <1>4 DEF RightsAreDistinct
  <2> QED
    BY <2>1, <2>2 DEF HasRight
<1>7. \A q \in 1..Len(S.promise) : q # p /\ HasRight(S, q) => HasRight(T, q)
  BY <1>1, <1>2, <1>4 DEF HasRight
<1>8. S.promise[p].state = "pending"
  BY <1>rights DEF RightsArePending
<1> QED
  BY <1>1, <1>3, <1>5, <1>6, <1>7, <1>8 DEF Good, GoodBut, T

\* Settling the promise whose right was taken leaves no promise without right.
LEMMA FulfillOrRejectGood ==
  ASSUME NEW S, NEW p, GoodBut(S, p), NEW v \in ValOf(Len(S.promise)), NEW b \in 0..1
  PROVE  Good(FulfillOrReject(S, p, v, b))
<1> DEFINE T == FulfillOrReject(S, p, v, b)
           n == Len(S.job_list)
<1>rights. RightsArePending(S) /\ RightsAreDistinct(S)
  BY DEF GoodBut, Rights
<1>1. WellFormed(T) /\ Len(T.promise) = Len(S.promise) /\ T.func = S.func
  BY FulfillOrRejectType DEF GoodBut
<1>2. /\ \A q \in 1..Len(S.promise) : q # p => T.promise[q] = S.promise[q]
      /\ T.promise[p].state # "pending"
      /\ n \in Nat
      /\ \A i \in 1..n : T.job_list[i] = S.job_list[i]
      /\ n <= Len(T.job_list) /\ Len(T.job_list) \in Nat
      /\ \A i \in 1..Len(T.job_list) : i > n => T.job_list[i].kind = "reaction"
  <2> DEFINE rds == S.promise[p].reactions[b]
  <2>1. /\ \A q \in 1..Len(S.promise) : q # p => T.promise[q] = S.promise[q]
        /\ T.promise[p].state # "pending"
        /\ n \in Nat /\ Len(rds) \in Nat
        /\ Len(T.job_list) = n + Len(rds)
        /\ \A i \in 1..n : T.job_list[i] = S.job_list[i]
        /\ \A i \in 1..Len(rds) : T.job_list[n + i] = ReactionJob(p, rds[i], b, v)
    <3>1. WellFormed(S) /\ p \in 1..Len(S.promise) /\ S.promise[p].state = "pending"
      BY DEF GoodBut
    <3>2. Settles(S, T, p, v, b)
      BY <3>1, FulfillOrRejectEffect
    <3> HIDE DEF T
    <3> QED
      BY <3>2 DEF Settles
  <2> HIDE DEF rds, n, T
  <2>2. ASSUME NEW i \in 1..Len(T.job_list), i > n
        PROVE  T.job_list[i].kind = "reaction"
    <3>1. i - n \in 1..Len(rds) /\ n + (i - n) = i
      BY <2>1, <2>2
    <3>2. T.job_list[i] = ReactionJob(p, rds[i - n], b, v)
      BY <2>1, <3>1
    <3> QED
      BY <3>2 DEF ReactionJob
  <2> QED
    BY <2>1, <2>2
<1> HIDE DEF T, n
<1>3. \A i \in 1..Len(T.job_list) : IsThenableJob(T, i) =>
        /\ i \in 1..n
        /\ IsThenableJob(S, i)
        /\ T.job_list[i].promise = S.job_list[i].promise
  BY <1>2 DEF IsThenableJob
<1>4. \A i \in 1..n : i \in 1..Len(T.job_list) /\ (IsThenableJob(S, i) => IsThenableJob(T, i))
  BY <1>2 DEF IsThenableJob
<1>5. \A g \in 1..Len(S.func) : Unresolved(T, g) <=> Unresolved(S, g)
  BY <1>1 DEF Unresolved
<1>6. \A g \in 1..Len(S.func) : Unresolved(S, g) =>
        S.func[g].promise # p /\ S.func[g].promise \in 1..Len(S.promise)
  <2>1. \A g \in 1..Len(S.func) : S.func[g] \in FuncData(Len(S.promise))
    BY ElementOfSeq DEF GoodBut, WellFormed
  <2> QED
    BY <2>1 DEF GoodBut, HasRight, FuncData
<1>7. \A i \in 1..n : IsThenableJob(S, i) =>
        S.job_list[i].promise # p /\ S.job_list[i].promise \in 1..Len(S.promise)
  <2>1. \A i \in 1..n : S.job_list[i] \in Job(Len(S.promise), Len(S.func))
    BY ElementOfSeq DEF GoodBut, WellFormed, n
  <2> QED
    BY <2>1 DEF GoodBut, HasRight, Job, n
<1>8. RightsArePending(T)
  <2>1. ASSUME NEW g \in 1..Len(T.func), Unresolved(T, g)
        PROVE  T.promise[T.func[g].promise].state = "pending"
    <3>1. g \in 1..Len(S.func) /\ Unresolved(S, g) /\ T.func[g] = S.func[g]
      BY <1>1, <1>5, <2>1
    <3>2. S.promise[S.func[g].promise].state = "pending"
      BY <1>rights, <3>1 DEF RightsArePending
    <3> QED
      BY <1>2, <1>6, <3>1, <3>2, Zenon
  <2>2. ASSUME NEW i \in 1..Len(T.job_list), IsThenableJob(T, i)
        PROVE  T.promise[T.job_list[i].promise].state = "pending"
    <3>1. S.promise[S.job_list[i].promise].state = "pending"
      BY <1>rights, <1>3, <2>2 DEF RightsArePending, n
    <3> QED
      BY <1>2, <1>3, <1>7, <2>2, <3>1, Zenon
  <2> QED
    BY <2>1, <2>2 DEF RightsArePending
<1>9. RightsAreDistinct(T)
  <2>0. RightsAreDistinct(S)
    BY DEF GoodBut, Rights
  <2>1. \A f, g \in 1..Len(T.func) : Unresolved(T, f) /\ Unresolved(T, g) /\ f # g =>
          T.func[f].promise # T.func[g].promise
    BY <1>1, <1>5, <2>0 DEF RightsAreDistinct
  <2>2. \A i, j \in 1..Len(T.job_list) :
          IsThenableJob(T, i) /\ IsThenableJob(T, j) /\ i # j =>
            T.job_list[i].promise # T.job_list[j].promise
    BY <1>3, <2>0 DEF RightsAreDistinct, n
  <2>3. \A f \in 1..Len(T.func), i \in 1..Len(T.job_list) :
          Unresolved(T, f) /\ IsThenableJob(T, i) =>
            T.func[f].promise # T.job_list[i].promise
    BY <1>1, <1>3, <1>5, <2>0 DEF RightsAreDistinct, n
  <2> QED
    BY <2>1, <2>2, <2>3 DEF RightsAreDistinct
<1>10. \A q \in 1..Len(S.promise) : HasRight(S, q) => HasRight(T, q)
  BY <1>1, <1>2, <1>4, <1>5, Zenon DEF HasRight, n
<1> QED
  BY <1>1, <1>2, <1>8, <1>9, <1>10, Zenon DEF GoodBut, Good, Rights, T

\* Resolve either settles the promise or queues a thenable job, which is again
\* the one right to settle it.
LEMMA ResolveGood ==
  ASSUME NEW S, NEW p, GoodBut(S, p), NEW v \in ValOf(Len(S.promise)), NEW b \in 0..1
  PROVE  Good(Resolve(S, p, b, v))
<1> DEFINE np == Len(S.promise)
           nf == Len(S.func)
           n == Len(S.job_list)
           T == Resolve(S, p, b, v)
           q == IF v.kind = "promise" THEN v.ref ELSE 0
           data == [S.promise[p] EXCEPT !.follows = q]
<1>rights. RightsArePending(S) /\ RightsAreDistinct(S)
  BY DEF GoodBut, Rights
<1>0. WellFormed(S) /\ p \in 1..np /\ S.promise[p].state = "pending"
  BY DEF GoodBut
<1>1. SelfError \in ValOf(np) /\ ThenError \in ValOf(np)
  BY DEF SelfError, ThenError, ValOf, Val
<1>2. CASE b = 1 \/ v.kind \in {"undefined", "plain", "error"}
  BY <1>2, FulfillOrRejectGood DEF Resolve
<1>3. CASE ~(b = 1 \/ v.kind \in {"undefined", "plain", "error"}) /\ v = PromiseObj(p)
  BY <1>1, <1>3, FulfillOrRejectGood DEF Resolve
<1>4. CASE /\ ~(b = 1 \/ v.kind \in {"undefined", "plain", "error"})
           /\ v # PromiseObj(p) /\ v.kind = "poisoned"
  BY <1>1, <1>4, FulfillOrRejectGood DEF Resolve
<1>5. CASE /\ ~(b = 1 \/ v.kind \in {"undefined", "plain", "error"})
           /\ v # PromiseObj(p) /\ v.kind # "poisoned"
  <2>1. /\ T.promise = [S.promise EXCEPT ![p] = data]
        /\ T.func = S.func
        /\ T.job_list = Append(S.job_list, ThenableJob(p, v))
    BY <1>5 DEF Resolve
  <2>2. WellFormed(T) /\ Len(T.promise) = np
    BY <1>0, ResolveType
  <2>3. \A r \in 1..np : T.promise[r].state = S.promise[r].state
    <3>1. S.promise \in [1..np -> PromiseData(np, nf)]
      BY <1>0, LenProperties DEF WellFormed
    <3>2. data.state = S.promise[p].state
      BY <1>0, <3>1 DEF PromiseData
    <3> HIDE DEF data, T
    <3> QED
      BY <1>0, <2>1, <3>1, <3>2
  <2>4. /\ n \in Nat /\ Len(T.job_list) = n + 1
        /\ \A i \in 1..n : T.job_list[i] = S.job_list[i]
        /\ T.job_list[n + 1].kind = "thenable" /\ T.job_list[n + 1].promise = p
    <3> DEFINE job == ThenableJob(p, v)
    <3>1. S.job_list \in Seq(Job(np, nf) \cup {job})
      BY <1>0, SeqMonotonic DEF WellFormed
    <3>2. n \in Nat
      BY <3>1, LenProperties
    <3>3. job.kind = "thenable" /\ job.promise = p
      BY DEF ThenableJob
    <3> HIDE DEF job
    <3>4. /\ Len(Append(S.job_list, job)) = n + 1
          /\ \A i \in 1..n : Append(S.job_list, job)[i] = S.job_list[i]
          /\ Append(S.job_list, job)[n + 1] = job
      BY <3>1, AppendProperties
    <3> HIDE DEF T
    <3> QED
      BY <2>1, <3>2, <3>3, <3>4 DEF job
  <2> HIDE DEF T, n
  <2>5. \A g \in 1..nf : Unresolved(T, g) <=> Unresolved(S, g)
    BY <2>1 DEF Unresolved
  <2>6. /\ IsThenableJob(T, n + 1)
        /\ \A i \in 1..n : IsThenableJob(T, i) <=> IsThenableJob(S, i)
        /\ \A i \in 1..Len(T.job_list) : i \in 1..n \/ i = n + 1
        /\ \A i \in 1..n : i \in 1..Len(T.job_list)
        /\ n + 1 \in 1..Len(T.job_list)
    BY <2>4 DEF IsThenableJob
  <2>7. /\ \A g \in 1..nf : Unresolved(S, g) => S.func[g].promise # p
        /\ \A i \in 1..n : IsThenableJob(S, i) => S.job_list[i].promise # p
    BY DEF GoodBut, HasRight, n
  <2>8. /\ \A g \in 1..nf : S.func[g].promise \in 1..np
        /\ \A i \in 1..n : S.job_list[i].promise \in 1..np
    <3>1. \A g \in 1..nf : S.func[g] \in FuncData(np)
      BY <1>0, ElementOfSeq DEF WellFormed
    <3>2. \A i \in 1..n : S.job_list[i] \in Job(np, nf)
      BY <1>0, ElementOfSeq DEF WellFormed, n
    <3> QED
      BY <3>1, <3>2 DEF FuncData, Job
  <2>9. RightsArePending(T)
    <3>1. ASSUME NEW g \in 1..Len(T.func), Unresolved(T, g)
          PROVE  T.promise[T.func[g].promise].state = "pending"
      <4>1. S.promise[S.func[g].promise].state = "pending"
        BY <1>rights, <2>1, <2>5, <3>1 DEF RightsArePending
      <4> QED
        BY <2>1, <2>3, <2>8, <4>1
    <3>2. ASSUME NEW i \in 1..Len(T.job_list), IsThenableJob(T, i)
          PROVE  T.promise[T.job_list[i].promise].state = "pending"
      <4>1. CASE i = n + 1
        BY <1>0, <2>3, <2>4, <4>1
      <4>2. CASE i \in 1..n
        <5>1. S.promise[S.job_list[i].promise].state = "pending"
          BY <1>rights, <2>6, <3>2, <4>2 DEF RightsArePending, n
        <5> QED
          BY <2>3, <2>4, <2>8, <4>2, <5>1, Zenon
      <4> QED
        BY <2>6, <4>1, <4>2
    <3> QED
      BY <3>1, <3>2 DEF RightsArePending
  <2>10. RightsAreDistinct(T)
    <3>1. \A f, g \in 1..Len(T.func) : Unresolved(T, f) /\ Unresolved(T, g) /\ f # g =>
            T.func[f].promise # T.func[g].promise
      BY <1>rights, <2>1, <2>5 DEF RightsAreDistinct
    <3>2. \A i, j \in 1..n : IsThenableJob(T, i) /\ IsThenableJob(T, j) /\ i # j =>
            T.job_list[i].promise # T.job_list[j].promise
      BY <1>rights, <2>4, <2>6, Zenon DEF RightsAreDistinct, n
    <3>3. \A i \in 1..n : IsThenableJob(T, i) => T.job_list[i].promise # p
      BY <2>4, <2>6, <2>7, Zenon
    <3>4. \A i, j \in 1..Len(T.job_list) :
            IsThenableJob(T, i) /\ IsThenableJob(T, j) /\ i # j =>
              T.job_list[i].promise # T.job_list[j].promise
      BY <2>4, <2>6, <3>2, <3>3
    <3>5. \A f \in 1..Len(T.func), i \in 1..n :
            Unresolved(T, f) /\ IsThenableJob(T, i) =>
              T.func[f].promise # T.job_list[i].promise
      BY <1>rights, <2>1, <2>4, <2>5, <2>6, SMTT(30) DEF RightsAreDistinct, n
    <3>6. \A f \in 1..Len(T.func), i \in 1..Len(T.job_list) :
            Unresolved(T, f) /\ IsThenableJob(T, i) =>
              T.func[f].promise # T.job_list[i].promise
      BY <2>1, <2>4, <2>5, <2>6, <2>7, <3>5, SMTT(30)
    <3> QED
      BY <3>1, <3>4, <3>6 DEF RightsAreDistinct
  <2>11. ASSUME NEW r \in 1..np, T.promise[r].state = "pending"
         PROVE  HasRight(T, r)
    <3>1. CASE r = p
      BY <2>4, <2>6, <3>1 DEF HasRight
    <3>2. CASE r # p
      <4>1. HasRight(S, r)
        BY <2>3, <2>11, <3>2 DEF GoodBut
      <4> QED
        BY <2>1, <2>4, <2>5, <2>6, <4>1 DEF HasRight, n
    <3> QED
      BY <3>1, <3>2
  <2> QED
    BY <2>2, <2>9, <2>10, <2>11 DEF Good, Rights, T
<1> QED
  BY <1>2, <1>3, <1>4, <1>5

\* A call of a resolving function, the first or a later one.
LEMMA ResolveFunctionCallGood ==
  ASSUME NEW S, Good(S), NEW f \in 1..Len(S.func),
         NEW v \in ValOf(Len(S.promise)), NEW b \in 0..1
  PROVE  Good(ResolveFunctionCall(S, f, b, v))
<1>1. CASE S.func[f].already_resolved = 1
  BY <1>1 DEF ResolveFunctionCall
<1>2. CASE S.func[f].already_resolved # 1
  <2> DEFINE U == MarkResolved(S, f)
             p == S.func[f].promise
  <2>1. Unresolved(S, f)
    <3>1. S.func[f] \in FuncData(Len(S.promise))
      BY ElementOfSeq DEF Good, WellFormed
    <3> QED
      BY <1>2, <3>1 DEF FuncData, Unresolved
  <2>2. GoodBut(U, p)
    BY <2>1, MarkResolvedGood
  <2>3. U.promise = S.promise
    BY MarkResolvedType DEF Good
  <2>4. Good(Resolve(U, p, b, v))
    <3> HIDE DEF U, p
    <3> QED
      BY <2>2, <2>3, ResolveGood
  <2> QED
    BY <1>2, <2>4 DEF ResolveFunctionCall
<1> QED
  BY <1>1, <1>2

\* A new pair is a right for the promise whose right was taken.
LEMMA CreateResolvingFunctionsGood ==
  ASSUME NEW S, NEW p, GoodBut(S, p), NEW held \in BOOLEAN
  PROVE  Good(CreateResolvingFunctions(S, p, held))
<1> DEFINE T == CreateResolvingFunctions(S, p, held)
           nf == Len(S.func)
<1>rights. RightsArePending(S) /\ RightsAreDistinct(S)
  BY DEF GoodBut, Rights
<1>0. WellFormed(S) /\ p \in 1..Len(S.promise) /\ S.promise[p].state = "pending"
  BY DEF GoodBut
<1>1. /\ WellFormed(T) /\ T.promise = S.promise /\ T.job_list = S.job_list
      /\ Len(T.func) = nf + 1
      /\ \A g \in 1..nf : T.func[g] = S.func[g]
      /\ T.func[nf + 1].promise = p /\ Unresolved(T, nf + 1)
  <2>1. AddsPair(S, T, p, held)
    BY <1>0, CreateResolvingFunctionsType
  <2> HIDE DEF T
  <2> QED
    BY <2>1 DEF AddsPair, Unresolved
<1>2. nf \in Nat
  BY <1>0, LenProperties DEF WellFormed
<1> HIDE DEF T, nf
<1>3. /\ \A g \in 1..Len(T.func) : g \in 1..nf \/ g = nf + 1
      /\ \A g \in 1..nf : g \in 1..Len(T.func)
      /\ nf + 1 \in 1..Len(T.func)
  BY <1>1, <1>2
<1>4. \A g \in 1..nf : Unresolved(T, g) <=> Unresolved(S, g)
  BY <1>1 DEF Unresolved
<1>5. \A i : IsThenableJob(T, i) <=> IsThenableJob(S, i)
  BY <1>1 DEF IsThenableJob
<1>6. /\ \A g \in 1..nf : Unresolved(S, g) => S.func[g].promise # p
      /\ \A i \in 1..Len(S.job_list) : IsThenableJob(S, i) => S.job_list[i].promise # p
  BY DEF GoodBut, HasRight, nf
<1>7. RightsArePending(T)
  <2>1. ASSUME NEW g \in 1..Len(T.func), Unresolved(T, g)
        PROVE  T.promise[T.func[g].promise].state = "pending"
    <3>1. CASE g = nf + 1
      BY <1>0, <1>1, <3>1
    <3>2. CASE g \in 1..nf
      BY <1>rights, <1>1, <1>4, <2>1, <3>2 DEF RightsArePending, nf
    <3> QED
      BY <1>3, <3>1, <3>2
  <2>2. \A i \in 1..Len(T.job_list) : IsThenableJob(T, i) =>
          T.promise[T.job_list[i].promise].state = "pending"
    BY <1>rights, <1>1, <1>5 DEF RightsArePending
  <2> QED
    BY <2>1, <2>2 DEF RightsArePending
<1>8. RightsAreDistinct(T)
  <2>1. \A f, g \in 1..nf : Unresolved(T, f) /\ Unresolved(T, g) /\ f # g =>
          T.func[f].promise # T.func[g].promise
    BY <1>rights, <1>1, <1>4, ZenonT(30) DEF RightsAreDistinct, nf
  <2>2. \A f \in 1..nf : Unresolved(T, f) => T.func[f].promise # p
    BY <1>1, <1>4, <1>6
  <2>3. \A f, g \in 1..Len(T.func) : Unresolved(T, f) /\ Unresolved(T, g) /\ f # g =>
          T.func[f].promise # T.func[g].promise
    BY <1>1, <1>3, <2>1, <2>2
  <2>4. \A i, j \in 1..Len(T.job_list) :
          IsThenableJob(T, i) /\ IsThenableJob(T, j) /\ i # j =>
            T.job_list[i].promise # T.job_list[j].promise
    BY <1>rights, <1>1, <1>5 DEF RightsAreDistinct
  <2>5. \A f \in 1..nf, i \in 1..Len(T.job_list) :
          Unresolved(T, f) /\ IsThenableJob(T, i) =>
            T.func[f].promise # T.job_list[i].promise
    <3>1. ASSUME NEW f \in 1..nf, NEW i \in 1..Len(T.job_list), Unresolved(T, f), IsThenableJob(T, i)
          PROVE  T.func[f].promise # T.job_list[i].promise
      <4>1. /\ f \in 1..Len(S.func) /\ i \in 1..Len(S.job_list)
            /\ T.func[f] = S.func[f] /\ T.job_list[i] = S.job_list[i]
            /\ Unresolved(S, f) /\ IsThenableJob(S, i)
        BY <1>1, <1>4, <1>5, <3>1, Zenon DEF nf
      <4>2. S.func[f].promise # S.job_list[i].promise
        BY <1>rights, <4>1, Zenon DEF RightsAreDistinct
      <4> QED
        BY <4>1, <4>2, Zenon
    <3> QED
      BY <3>1, Zenon
  <2>6. \A f \in 1..Len(T.func), i \in 1..Len(T.job_list) :
          Unresolved(T, f) /\ IsThenableJob(T, i) =>
            T.func[f].promise # T.job_list[i].promise
    BY <1>1, <1>3, <1>5, <1>6, <2>5
  <2> QED
    BY <2>3, <2>4, <2>6 DEF RightsAreDistinct
<1>9. ASSUME NEW r \in 1..Len(T.promise), T.promise[r].state = "pending"
      PROVE  HasRight(T, r)
  <2>1. CASE r = p
    BY <1>1, <1>3, <2>1 DEF HasRight
  <2>2. CASE r # p
    <3>1. HasRight(S, r)
      BY <1>1, <1>9, <2>2 DEF GoodBut
    <3> QED
      BY <1>1, <1>3, <1>4, <1>5, <3>1, Zenon DEF HasRight, nf
  <2> QED
    BY <2>1, <2>2
<1> QED
  BY <1>1, <1>7, <1>8, <1>9 DEF Good, Rights, T

\* A new promise starts with its one right, the new pair.
LEMMA NewPromiseGood ==
  ASSUME NEW S, Good(S), NEW shared \in BOOLEAN, NEW held \in BOOLEAN
  PROVE  Good(NewPromise(S, shared, held))
<1> DEFINE T == NewPromise(S, shared, held)
           np == Len(S.promise)
           nf == Len(S.func)
<1>rights. RightsArePending(S) /\ RightsAreDistinct(S)
  BY DEF Good, Rights
<1>0. WellFormed(S)
  BY DEF Good
<1>1. /\ WellFormed(T) /\ T.job_list = S.job_list
      /\ Len(T.promise) = np + 1
      /\ \A q \in 1..np : T.promise[q] = S.promise[q]
      /\ T.promise[np + 1].state = "pending"
      /\ Len(T.func) = nf + 1
      /\ \A g \in 1..nf : T.func[g] = S.func[g]
      /\ T.func[nf + 1].promise = np + 1 /\ Unresolved(T, nf + 1)
  <2>1. AddsPromise(S, T, held)
    BY <1>0, NewPromiseType
  <2> HIDE DEF T
  <2> QED
    BY <2>1 DEF AddsPromise, Unresolved
<1>2. np \in Nat /\ nf \in Nat
  BY <1>0, LenProperties DEF WellFormed
<1>3. /\ \A g \in 1..nf : S.func[g].promise \in 1..np
      /\ \A i \in 1..Len(S.job_list) : S.job_list[i].promise \in 1..np
  <2>1. \A g \in 1..nf : S.func[g] \in FuncData(np)
    BY <1>0, ElementOfSeq DEF WellFormed
  <2>2. \A i \in 1..Len(S.job_list) : S.job_list[i] \in Job(np, nf)
    BY <1>0, ElementOfSeq DEF WellFormed
  <2> QED
    BY <2>1, <2>2 DEF FuncData, Job
<1> HIDE DEF T, nf, np
<1>4. /\ \A g \in 1..Len(T.func) : g \in 1..nf \/ g = nf + 1
      /\ \A g \in 1..nf : g \in 1..Len(T.func)
      /\ nf + 1 \in 1..Len(T.func)
      /\ \A r \in 1..Len(T.promise) : r \in 1..np \/ r = np + 1
      /\ ~(np + 1 \in 1..np)
  BY <1>1, <1>2
<1>5. \A g \in 1..nf : Unresolved(T, g) <=> Unresolved(S, g)
  BY <1>1 DEF Unresolved
<1>6. \A i : IsThenableJob(T, i) <=> IsThenableJob(S, i)
  BY <1>1 DEF IsThenableJob
<1>7. RightsArePending(T)
  <2>1. ASSUME NEW g \in 1..Len(T.func), Unresolved(T, g)
        PROVE  T.promise[T.func[g].promise].state = "pending"
    <3>1. CASE g = nf + 1
      BY <1>1, <3>1
    <3>2. CASE g \in 1..nf
      <4>1. S.promise[S.func[g].promise].state = "pending"
        BY <1>rights, <1>5, <2>1, <3>2 DEF RightsArePending, nf
      <4>2. T.func[g] = S.func[g] /\ T.promise[S.func[g].promise] = S.promise[S.func[g].promise]
        BY <1>1, <1>3, <3>2
      <4> QED
        BY <4>1, <4>2
    <3> QED
      BY <1>4, <3>1, <3>2
  <2>2. ASSUME NEW i \in 1..Len(T.job_list), IsThenableJob(T, i)
        PROVE  T.promise[T.job_list[i].promise].state = "pending"
    BY <1>rights, <1>1, <1>3, <1>6, <2>2, ZenonT(30) DEF RightsArePending
  <2> QED
    BY <2>1, <2>2 DEF RightsArePending
<1>8. RightsAreDistinct(T)
  <2>1. \A f, g \in 1..nf : Unresolved(T, f) /\ Unresolved(T, g) /\ f # g =>
          T.func[f].promise # T.func[g].promise
    <3>1. ASSUME NEW f \in 1..nf, NEW g \in 1..nf, Unresolved(T, f), Unresolved(T, g), f # g
          PROVE  T.func[f].promise # T.func[g].promise
      <4>1. /\ Unresolved(S, f) /\ Unresolved(S, g)
            /\ T.func[f] = S.func[f] /\ T.func[g] = S.func[g]
        BY <1>1, <1>5, <3>1, Zenon
      <4>2. S.func[f].promise # S.func[g].promise
        BY <1>rights, <3>1, <4>1, Zenon DEF RightsAreDistinct, nf
      <4> QED
        BY <4>1, <4>2, Zenon
    <3> QED
      BY <3>1, Zenon
  <2>2. \A f \in 1..nf : T.func[f].promise # np + 1
    BY <1>1, <1>3, <1>4
  <2>3. \A f, g \in 1..Len(T.func) : Unresolved(T, f) /\ Unresolved(T, g) /\ f # g =>
          T.func[f].promise # T.func[g].promise
    BY <1>1, <1>4, <2>1, <2>2
  <2>4. \A i, j \in 1..Len(T.job_list) :
          IsThenableJob(T, i) /\ IsThenableJob(T, j) /\ i # j =>
            T.job_list[i].promise # T.job_list[j].promise
    BY <1>rights, <1>1, <1>6 DEF RightsAreDistinct
  <2>5. \A f \in 1..nf, i \in 1..Len(T.job_list) :
          Unresolved(T, f) /\ IsThenableJob(T, i) =>
            T.func[f].promise # T.job_list[i].promise
    <3>1. ASSUME NEW f \in 1..nf, NEW i \in 1..Len(T.job_list), Unresolved(T, f), IsThenableJob(T, i)
          PROVE  T.func[f].promise # T.job_list[i].promise
      <4>1. /\ f \in 1..Len(S.func) /\ i \in 1..Len(S.job_list)
            /\ T.func[f] = S.func[f] /\ T.job_list[i] = S.job_list[i]
            /\ Unresolved(S, f) /\ IsThenableJob(S, i)
        BY <1>1, <1>5, <1>6, <3>1, Zenon DEF nf
      <4>2. S.func[f].promise # S.job_list[i].promise
        BY <1>rights, <4>1, Zenon DEF RightsAreDistinct
      <4> QED
        BY <4>1, <4>2, Zenon
    <3> QED
      BY <3>1, Zenon
  <2>6. \A f \in 1..Len(T.func), i \in 1..Len(T.job_list) :
          Unresolved(T, f) /\ IsThenableJob(T, i) =>
            T.func[f].promise # T.job_list[i].promise
    BY <1>1, <1>3, <1>4, <2>5, SMTT(30)
  <2> QED
    BY <2>3, <2>4, <2>6 DEF RightsAreDistinct
<1>9. ASSUME NEW r \in 1..Len(T.promise), T.promise[r].state = "pending"
      PROVE  HasRight(T, r)
  <2>1. CASE r = np + 1
    BY <1>1, <1>4, <2>1 DEF HasRight
  <2>2. CASE r \in 1..np
    <3>1. HasRight(S, r)
      BY <1>1, <1>9, <2>2 DEF Good, np
    <3> QED
      BY <1>1, <1>4, <1>5, <1>6, <3>1, Zenon DEF HasRight, nf
  <2> QED
    BY <1>4, <2>1, <2>2
<1> QED
  BY <1>1, <1>7, <1>8, <1>9 DEF Good, Rights, T

\* Registering a reaction touches no right.
LEMMA PerformPromiseThenGood ==
  ASSUME NEW S, Good(S), NEW p \in 1..Len(S.promise), NEW handlers, NEW fn,
         HandlersFor(Len(S.func), handlers, fn)
  PROVE  LET T == PerformPromiseThen(S, p, handlers, fn)
         IN  Good(T) /\ Len(T.promise) = Len(S.promise) /\ T.func = S.func
<1> DEFINE T == PerformPromiseThen(S, p, handlers, fn)
           n == Len(S.job_list)
<1>0. WellFormed(S) /\ n \in Nat
  BY LenProperties DEF Good, WellFormed
<1>1. /\ WellFormed(T) /\ T.func = S.func /\ Len(T.promise) = Len(S.promise)
      /\ \A q \in 1..Len(S.promise) : T.promise[q].state = S.promise[q].state
      /\ \A i \in 1..n : i \in 1..Len(T.job_list) /\ T.job_list[i] = S.job_list[i]
      /\ \A i \in 1..Len(T.job_list) : i \in 1..n \/ T.job_list[i].kind # "thenable"
  <2>1. CASE S.promise[p].state = "pending"
    <3>1. /\ WellFormed(T) /\ T.func = S.func /\ T.job_list = S.job_list
          /\ Len(T.promise) = Len(S.promise) /\ T.promise[p].state = "pending"
          /\ \A q \in 1..Len(S.promise) : q # p => T.promise[q] = S.promise[q]
      <4>1. Registers(S, T, p, handlers, fn)
        BY <1>0, <2>1, ThenPending
      <4> HIDE DEF T
      <4> QED
        BY <4>1 DEF Registers
    <3> HIDE DEF T
    <3> QED
      BY <2>1, <3>1, Zenon
  <2>2. CASE S.promise[p].state # "pending"
    <3>1. /\ WellFormed(T) /\ T.func = S.func /\ T.promise = S.promise
          /\ \E b \in 0..1 : T.job_list = Append(S.job_list,
               ReactionJob(p, [fn |-> fn, handler |-> handlers[b]], b,
                           S.promise[p].result))
      <4>1. Queues(S, T, p, handlers, fn)
        BY <1>0, <2>2, ThenSettled
      <4> HIDE DEF T
      <4> QED
        BY <4>1 DEF Queues
    <3>2. PICK b \in 0..1 : T.job_list = Append(S.job_list,
            ReactionJob(p, [fn |-> fn, handler |-> handlers[b]], b, S.promise[p].result))
      BY <3>1
    <3> DEFINE job == ReactionJob(p, [fn |-> fn, handler |-> handlers[b]], b,
                                  S.promise[p].result)
               R == Job(Len(S.promise), Len(S.func)) \cup {job}
    <3>3. job.kind # "thenable"
      BY DEF ReactionJob
    <3>4. S.job_list \in Seq(Job(Len(S.promise), Len(S.func)))
      BY <1>0 DEF WellFormed
    <3> HIDE DEF job, T
    <3>5. S.job_list \in Seq(R) /\ job \in R
      BY <3>4, SeqMonotonic
    <3> HIDE DEF R
    <3>6. /\ Len(T.job_list) = n + 1 /\ T.job_list[n + 1] = job
          /\ \A i \in 1..n : T.job_list[i] = S.job_list[i]
      BY <3>2, <3>5, AppendProperties DEF job
    <3> HIDE DEF n
    <3> QED
      BY <1>0, <3>1, <3>3, <3>6
  <2> QED
    BY <2>1, <2>2
<1>2. /\ \A g \in 1..Len(S.func) : S.func[g].promise \in 1..Len(S.promise)
      /\ \A i \in 1..n : S.job_list[i].promise \in 1..Len(S.promise)
  <2>1. \A g \in 1..Len(S.func) : S.func[g] \in FuncData(Len(S.promise))
    BY <1>0, ElementOfSeq DEF WellFormed
  <2>2. \A i \in 1..n : S.job_list[i] \in Job(Len(S.promise), Len(S.func))
    BY <1>0, ElementOfSeq DEF WellFormed
  <2> QED
    BY <2>1, <2>2 DEF FuncData, Job
<1> HIDE DEF T
<1>3. /\ \A g : Unresolved(T, g) <=> Unresolved(S, g)
      /\ \A i \in 1..Len(T.job_list) : IsThenableJob(T, i) =>
           i \in 1..n /\ IsThenableJob(S, i) /\ T.job_list[i] = S.job_list[i]
      /\ \A i \in 1..n : IsThenableJob(S, i) => IsThenableJob(T, i)
  BY <1>1, SMTT(30) DEF Unresolved, IsThenableJob
<1>4. RightsArePending(S) /\ RightsAreDistinct(S)
  BY DEF Good, Rights
<1>5. RightsArePending(T)
  <2>1. ASSUME NEW g \in 1..Len(T.func), Unresolved(T, g)
        PROVE  T.promise[T.func[g].promise].state = "pending"
    <3>1. S.promise[S.func[g].promise].state = "pending"
      BY <1>1, <1>3, <1>4, <2>1 DEF RightsArePending
    <3>2. S.func[g].promise \in 1..Len(S.promise)
      BY <1>1, <1>2
    <3> QED
      BY <1>1, <3>1, <3>2, Zenon
  <2>2. ASSUME NEW i \in 1..Len(T.job_list), IsThenableJob(T, i)
        PROVE  T.promise[T.job_list[i].promise].state = "pending"
    <3>1. S.promise[S.job_list[i].promise].state = "pending" /\ T.job_list[i] = S.job_list[i]
      BY <1>3, <1>4, <2>2 DEF RightsArePending
    <3>2. S.job_list[i].promise \in 1..Len(S.promise)
      BY <1>2, <1>3, <2>2
    <3> QED
      BY <1>1, <3>1, <3>2, Zenon
  <2> QED
    BY <2>1, <2>2 DEF RightsArePending
<1>6. RightsAreDistinct(T)
  <2>1. \A f, g \in 1..Len(T.func) : Unresolved(T, f) /\ Unresolved(T, g) /\ f # g =>
          T.func[f].promise # T.func[g].promise
    BY <1>1, <1>3, <1>4 DEF RightsAreDistinct
  <2>2. \A i, j \in 1..Len(T.job_list) :
          IsThenableJob(T, i) /\ IsThenableJob(T, j) /\ i # j =>
            T.job_list[i].promise # T.job_list[j].promise
    BY <1>3, <1>4, Zenon DEF RightsAreDistinct
  <2>3. \A f \in 1..Len(T.func), i \in 1..Len(T.job_list) :
          Unresolved(T, f) /\ IsThenableJob(T, i) =>
            T.func[f].promise # T.job_list[i].promise
    <3>1. ASSUME NEW f \in 1..Len(T.func), NEW i \in 1..Len(T.job_list), Unresolved(T, f), IsThenableJob(T, i)
          PROVE  T.func[f].promise # T.job_list[i].promise
      <4>1. /\ f \in 1..Len(S.func) /\ i \in 1..Len(S.job_list)
            /\ T.func[f] = S.func[f] /\ T.job_list[i] = S.job_list[i]
            /\ Unresolved(S, f) /\ IsThenableJob(S, i)
        BY <1>1, <1>3, <3>1, Zenon
      <4>2. S.func[f].promise # S.job_list[i].promise
        BY <1>4, <4>1, Zenon DEF RightsAreDistinct
      <4> QED
        BY <4>1, <4>2, Zenon
    <3> QED
      BY <3>1, Zenon
  <2> QED
    BY <2>1, <2>2, <2>3, Zenon DEF RightsAreDistinct
<1>7. ASSUME NEW r \in 1..Len(T.promise), T.promise[r].state = "pending"
      PROVE  HasRight(T, r)
  <2>1. HasRight(S, r)
    BY <1>1, <1>7 DEF Good
  <2> QED
    BY <1>1, <1>3, <2>1, Zenon DEF HasRight
<1> QED
  BY <1>1, <1>5, <1>6, <1>7 DEF Good, Rights, T

\* Nor does then: the promise it makes comes with its own right.
LEMMA PromiseThenGood ==
  ASSUME NEW S, Good(S), NEW p \in 1..Len(S.promise), NEW shared \in BOOLEAN,
         NEW handlers \in [0..1 -> Handler],
         \A b \in 0..1 : /\ handlers[b].kind # "async"
                         /\ handlers[b].fn \in 0..Len(S.func)
                         /\ handlers[b].kind \in {"resolve", "reject"} <=>
                              handlers[b].fn # 0
  PROVE  LET T == PromiseThen(S, p, handlers, shared)
         IN  Good(T) /\ Len(T.func) = Len(S.func) + 1
<1> DEFINE U == NewPromise(S, shared, FALSE)
           nf == Len(S.func)
           T == PerformPromiseThen(U, p, handlers, Len(U.func))
<1>0. WellFormed(S)
  BY DEF Good
<1>1. Good(U)
  BY NewPromiseGood, Zenon
<1>2. Len(U.promise) = Len(S.promise) + 1 /\ Len(U.func) = nf + 1
  <2>1. AddsPromise(S, U, FALSE)
    BY <1>0, NewPromiseType, Zenon
  <2> HIDE DEF U
  <2> QED
    BY <2>1 DEF AddsPromise
<1>3. nf \in Nat /\ Len(S.promise) \in Nat
  BY <1>0, LenProperties DEF WellFormed
<1> HIDE DEF U
<1>4. p \in 1..Len(U.promise)
  BY <1>2, <1>3
<1>5. HandlersFor(Len(U.func), handlers, Len(U.func))
  BY <1>2, <1>3 DEF HandlersFor, Reaction
<1>6. Good(T) /\ T.func = U.func
  BY <1>1, <1>4, <1>5, PerformPromiseThenGood
<1> QED
  BY <1>2, <1>6, Zenon DEF PromiseThen, U

\* The queue without its first job.
TailOf(S) == [S EXCEPT !.job_list = Tail(S.job_list)]

\* Taking a job from the queue keeps the state well formed.
LEMMA TailOfType ==
  ASSUME NEW S, WellFormed(S), S.job_list # <<>>
  PROVE  LET T == TailOf(S)
             n == Len(S.job_list)
         IN  /\ WellFormed(T) /\ T.promise = S.promise /\ T.func = S.func
             /\ n \in Nat \ {0} /\ Len(T.job_list) = n - 1
             /\ \A i \in 1..(n - 1) : T.job_list[i] = S.job_list[i + 1]
             /\ Head(S.job_list) = S.job_list[1]
             /\ S.job_list[1] \in Job(Len(S.promise), Len(S.func))
<1> DEFINE T == TailOf(S)
           n == Len(S.job_list)
           J == Job(Len(S.promise), Len(S.func))
<1>1. S = [promise |-> S.promise, func |-> S.func, job_list |-> S.job_list]
      /\ S.job_list \in Seq(J)
  BY DEF WellFormed
<1>2. T = [promise |-> S.promise, func |-> S.func, job_list |-> Tail(S.job_list)]
  <2>1. \A x : [S EXCEPT !.job_list = x] =
                 [promise |-> S.promise, func |-> S.func, job_list |-> x]
    BY <1>1
  <2> QED
    BY <2>1 DEF TailOf
<1>3. /\ Tail(S.job_list) \in Seq(J) /\ Len(Tail(S.job_list)) = n - 1
      /\ \A i \in 1..Len(Tail(S.job_list)) : Tail(S.job_list)[i] = S.job_list[i + 1]
  <2> HIDE DEF J
  <2> QED
    BY <1>1, HeadTailProperties
<1>4. n \in Nat \ {0}
  BY <1>1, EmptySeq
<1>5. WellFormed(T)
  BY <1>2, <1>3 DEF WellFormed
<1>6. S.job_list[1] \in J
  BY <1>1, <1>4, ElementOfSeq
<1>7. Head(S.job_list) = S.job_list[1]
  <2> HIDE DEF J
  <2> QED
    BY <1>1
<1> QED
  BY <1>2, <1>3, <1>4, <1>5, <1>6, <1>7

\* Taking a reaction job off the queue takes no right; taking a thenable job
\* takes the right of its promise.
LEMMA TailOfGood ==
  ASSUME NEW S, Good(S), S.job_list # <<>>
  PROVE  /\ S.job_list[1].kind = "reaction" => Good(TailOf(S))
         /\ S.job_list[1].kind = "thenable" => GoodBut(TailOf(S), S.job_list[1].promise)
<1> DEFINE T == TailOf(S)
           n == Len(S.job_list)
           p == S.job_list[1].promise
<1>1. /\ WellFormed(T) /\ T.promise = S.promise /\ T.func = S.func
      /\ n \in Nat \ {0} /\ Len(T.job_list) = n - 1
      /\ \A i \in 1..(n - 1) : T.job_list[i] = S.job_list[i + 1]
      /\ S.job_list[1] \in Job(Len(S.promise), Len(S.func))
  BY TailOfType DEF Good
<1>2. p \in 1..Len(S.promise)
  BY <1>1 DEF Job
<1>3. RightsArePending(S) /\ RightsAreDistinct(S)
  BY DEF Good, Rights
<1> HIDE DEF T, n, p
<1>4. \A i \in 1..Len(T.job_list) : i + 1 \in 1..n /\ i + 1 # 1
  BY <1>1
<1>5. \A i, j \in 1..Len(T.job_list) : i # j => i + 1 # j + 1
  BY <1>1
<1>6. \A j \in 1..n : j # 1 =>
        \E i \in 1..Len(T.job_list) : T.job_list[i] = S.job_list[j]
  <2>1. ASSUME NEW j \in 1..n, j # 1
        PROVE  \E i \in 1..Len(T.job_list) : T.job_list[i] = S.job_list[j]
    <3>1. j - 1 \in 1..(n - 1) /\ (j - 1) + 1 = j
      BY <1>1, <2>1
    <3>2. T.job_list[j - 1] = S.job_list[j]
      BY <1>1, <3>1
    <3> QED
      BY <1>1, <3>1, <3>2
  <2> QED
    BY <2>1
<1>7. \A i \in 1..Len(T.job_list) :
        /\ T.job_list[i] = S.job_list[i + 1]
        /\ IsThenableJob(T, i) <=> IsThenableJob(S, i + 1)
  BY <1>1, Zenon DEF IsThenableJob
<1>8. \A g : Unresolved(T, g) <=> Unresolved(S, g)
  BY <1>1 DEF Unresolved
<1>9. RightsArePending(T)
  <2>1. ASSUME NEW i \in 1..Len(T.job_list), IsThenableJob(T, i)
        PROVE  T.promise[T.job_list[i].promise].state = "pending"
    BY <1>1, <1>3, <1>4, <1>7, <2>1, Zenon DEF RightsArePending, n
  <2> QED
    BY <1>1, <1>3, <1>8, <2>1 DEF RightsArePending
<1>10. RightsAreDistinct(T)
  <2>1. \A f, g \in 1..Len(T.func) : Unresolved(T, f) /\ Unresolved(T, g) /\ f # g =>
          T.func[f].promise # T.func[g].promise
    BY <1>1, <1>3, <1>8 DEF RightsAreDistinct
  <2>2. ASSUME NEW i \in 1..Len(T.job_list), NEW j \in 1..Len(T.job_list),
               IsThenableJob(T, i), IsThenableJob(T, j), i # j
        PROVE  T.job_list[i].promise # T.job_list[j].promise
    BY <1>3, <1>4, <1>5, <1>7, <2>2, Zenon DEF RightsAreDistinct, n
  <2>3. ASSUME NEW f \in 1..Len(T.func), NEW i \in 1..Len(T.job_list),
               Unresolved(T, f), IsThenableJob(T, i)
        PROVE  T.func[f].promise # T.job_list[i].promise
    BY <1>1, <1>3, <1>4, <1>7, <1>8, <2>3, Zenon DEF RightsAreDistinct, n
  <2> QED
    BY <2>1, <2>2, <2>3 DEF RightsAreDistinct
<1>11. ASSUME NEW r \in 1..Len(S.promise), HasRight(S, r),
              ~(S.job_list[1].kind = "thenable" /\ p = r)
       PROVE  HasRight(T, r)
  <2>1. CASE \E f \in 1..Len(S.func) : Unresolved(S, f) /\ S.func[f].promise = r
    BY <1>1, <1>8, <2>1 DEF HasRight
  <2>2. CASE \E j \in 1..n : IsThenableJob(S, j) /\ S.job_list[j].promise = r
    <3>1. PICK j \in 1..n : IsThenableJob(S, j) /\ S.job_list[j].promise = r
      BY <2>2
    <3>2. j # 1
      BY <1>11, <3>1 DEF IsThenableJob, p
    <3>3. PICK i \in 1..Len(T.job_list) : T.job_list[i] = S.job_list[j]
      BY <1>6, <3>2
    <3> QED
      BY <3>1, <3>3 DEF HasRight, IsThenableJob
  <2> QED
    BY <1>11, <2>1, <2>2 DEF HasRight, n
<1>12. ASSUME S.job_list[1].kind = "reaction" PROVE Good(T)
  <2>1. \A r \in 1..Len(T.promise) : T.promise[r].state = "pending" => HasRight(T, r)
    BY <1>1, <1>11, <1>12 DEF Good
  <2> QED
    BY <1>1, <1>9, <1>10, <2>1 DEF Good, Rights
<1>13. ASSUME S.job_list[1].kind = "thenable" PROVE GoodBut(T, p)
  <2>1. \A r \in 1..Len(T.promise) : r # p /\ T.promise[r].state = "pending" => HasRight(T, r)
    BY <1>1, <1>11 DEF Good
  <2>2. IsThenableJob(S, 1) /\ 1 \in 1..n
    BY <1>1, <1>13 DEF IsThenableJob
  <2>3. T.promise[p].state = "pending"
    BY <1>1, <1>3, <2>2 DEF RightsArePending, p, n
  <2>4. \A f \in 1..Len(S.func) : Unresolved(S, f) => S.func[f].promise # p
    BY <1>3, <2>2 DEF RightsAreDistinct, p, n
  <2>5. \A j \in 1..n : IsThenableJob(S, j) /\ j # 1 => S.job_list[j].promise # p
    BY <1>3, <2>2 DEF RightsAreDistinct, p, n
  <2>6. \A i \in 1..Len(T.job_list) : IsThenableJob(T, i) => T.job_list[i].promise # p
    BY <1>4, <1>7, <2>5
  <2>7. ~HasRight(T, p)
    BY <1>1, <1>8, <2>4, <2>6, Zenon DEF HasRight
  <2> QED
    BY <1>1, <1>2, <1>9, <1>10, <2>1, <2>3, <2>7 DEF GoodBut, Rights
<1> QED
  BY <1>12, <1>13 DEF T, p

-----------------------------------------------------------------------------
(* The inductive invariant                                                 *)

FramesOK == running \in Seq(Frame(Len(func)))

IInv == Good(Now) /\ FramesOK

\* A step to a good state preserves the invariant if the frames stay good.
LEMMA LeadsToIInv ==
  ASSUME NEW S, Good(S), Become(S), running' \in Seq(Frame(Len(S.func)))
  PROVE  IInv'
<1>1. S = [promise |-> S.promise, func |-> S.func, job_list |-> S.job_list]
  BY DEF Good, WellFormed
<1>2. Now' = S /\ func' = S.func
  BY <1>1 DEF Now, Become
<1>3. Good(Now)'
  <2>1. WellFormed(Now)'
    BY <1>2 DEF Good, WellFormed
  <2>2. RightsArePending(Now)'
    BY <1>2 DEF Good, Rights, RightsArePending, Unresolved, IsThenableJob
  <2>3. RightsAreDistinct(Now)'
    BY <1>2 DEF Good, Rights, RightsAreDistinct, Unresolved, IsThenableJob
  <2>4. (\A q \in 1..Len(Now.promise) :
           Now.promise[q].state = "pending" => HasRight(Now, q))'
    BY <1>2 DEF Good, HasRight, Unresolved, IsThenableJob
  <2> QED
    BY <2>1, <2>2, <2>3, <2>4 DEF Good, Rights
<1> QED
  BY <1>2, <1>3 DEF IInv, FramesOK

\* Facts about the current state that the steps use.
LEMMA NowFacts ==
  ASSUME IInv
  PROVE  /\ Good(Now) /\ WellFormed(Now)
         /\ Now.promise = promise /\ Now.func = func /\ Now.job_list = job_list
         /\ Len(promise) \in Nat /\ Len(func) \in Nat
         /\ running \in Seq(Frame(Len(func)))
         /\ running \in Seq(Frame(Len(func) + 1))
         /\ running \in Seq(Frame(Len(func) + 2))
         /\ running # <<>> => /\ Head(running) \in Frame(Len(func))
                              /\ Tail(running) \in Seq(Frame(Len(func)))
                              /\ Tail(running) \in Seq(Frame(Len(func) + 1))
         /\ Input \subseteq ValOf(Len(promise))
<1>1. Good(Now) /\ WellFormed(Now) /\ running \in Seq(Frame(Len(func)))
  BY DEF IInv, FramesOK, Good
<1>2. Now.promise = promise /\ Now.func = func /\ Now.job_list = job_list
  BY DEF Now
<1>3. /\ promise \in Seq(PromiseData(Len(promise), Len(func)))
      /\ func \in Seq(FuncData(Len(promise)))
  BY <1>1, <1>2 DEF WellFormed
<1>4. Len(promise) \in Nat /\ Len(func) \in Nat
  BY <1>3, LenProperties
<1>5. \A f \in {Len(func) + 1, Len(func) + 2} : Frame(Len(func)) \subseteq Frame(f)
  BY <1>4 DEF Frame
<1>6. running # <<>> => Head(running) \in Frame(Len(func)) /\ Tail(running) \in Seq(Frame(Len(func)))
  BY <1>1, HeadTailProperties
<1>7. Input \subseteq ValOf(Len(promise))
  BY <1>4, ScriptValuesAssumption DEF Input, ValOf, Val, PromiseObj, SharedPromises
<1>8. \A r \in Seq(Frame(Len(func))) : r \in Seq(Frame(Len(func) + 1)) /\ r \in Seq(Frame(Len(func) + 2))
  BY <1>5, SeqMonotonic
<1> QED
  BY <1>1, <1>2, <1>4, <1>6, <1>7, <1>8

\* The stack with one more frame.
LEMMA PushType ==
  ASSUME NEW nf \in Nat, NEW r \in Seq(Frame(nf)), NEW f \in 1..nf,
         NEW kind \in {"script", "async", "thenable"}
  PROVE  <<[kind |-> kind, fn |-> f]>> \o r \in Seq(Frame(nf))
<1>1. [kind |-> kind, fn |-> f] \in Frame(nf)
  BY DEF Frame
<1>2. <<[kind |-> kind, fn |-> f]>> \in Seq(Frame(nf))
  BY <1>1
<1> QED
  BY <1>2, ConcatProperties

\* The script code's operations preserve the invariant.
LEMMA ScriptStepIInv ==
  ASSUME IInv, PromiseConstructor \/ CallResolvingFunction \/ Then \/ AsyncFunctionCall
  PROVE  IInv'
<1> USE NowFacts
<1>1. CASE PromiseConstructor
  <2> DEFINE S == NewPromise(Now, TRUE, TRUE)
  <2>1. Good(S)
    BY NewPromiseGood, Zenon
  <2>2. Len(S.func) = Len(func) + 1
    <3>1. AddsPromise(Now, S, TRUE)
      BY NewPromiseType, Zenon
    <3> HIDE DEF S
    <3> QED
      BY <3>1 DEF AddsPromise
  <2>3. Become(S) /\ running' = running
    BY <1>1, Zenon DEF PromiseConstructor
  <2> HIDE DEF S
  <2> QED
    BY <2>1, <2>2, <2>3, LeadsToIInv
<1>2. CASE CallResolvingFunction
  <2>1. PICK f \in 1..Len(func), b \in 0..1, v \in Input :
          Become(ResolveFunctionCall(Now, f, b, v)) /\ running' = running
    BY <1>2 DEF CallResolvingFunction
  <2> DEFINE S == ResolveFunctionCall(Now, f, b, v)
  <2>2. f \in 1..Len(Now.func) /\ v \in ValOf(Len(Now.promise))
    OBVIOUS
  <2>3. Good(S)
    BY <2>2, ResolveFunctionCallGood
  <2>4. Len(S.func) = Len(func)
    BY <2>2, ResolveFunctionCallType
  <2> HIDE DEF S
  <2> QED
    BY <2>1, <2>3, <2>4, LeadsToIInv DEF S
<1>3. CASE Then
  <2>1. PICK p \in SharedPromises, handlers \in [0..1 -> {None, Script}] :
          Become(PromiseThen(Now, p, handlers, TRUE)) /\ running' = running
    BY <1>3, Zenon DEF Then
  <2> DEFINE S == PromiseThen(Now, p, handlers, TRUE)
  <2>2. p \in 1..Len(Now.promise)
    BY DEF SharedPromises
  <2>3. /\ handlers \in [0..1 -> Handler]
        /\ \A b \in 0..1 : /\ handlers[b].kind # "async"
                           /\ handlers[b].fn \in 0..Len(Now.func)
                           /\ handlers[b].kind \in {"resolve", "reject"} <=>
                                handlers[b].fn # 0
    BY DEF None, Script, Handler
  <2>4. Good(S) /\ Len(S.func) = Len(Now.func) + 1
    BY <2>2, <2>3, PromiseThenGood, Zenon
  <2> HIDE DEF S
  <2> QED
    BY <2>1, <2>4, LeadsToIInv, Zenon DEF S
<1>4. CASE AsyncFunctionCall
  <2> DEFINE S == NewPromise(Now, TRUE, FALSE)
             nf == Len(func) + 1
  <2>1. Good(S)
    BY NewPromiseGood, Zenon
  <2>2. Len(S.func) = nf
    <3>1. AddsPromise(Now, S, FALSE)
      BY NewPromiseType, Zenon
    <3> HIDE DEF S
    <3> QED
      BY <3>1 DEF AddsPromise
  <2>3. Become(S) /\ running' = <<[kind |-> "async", fn |-> nf]>> \o running
    BY <1>4, Zenon DEF AsyncFunctionCall
  <2>4. nf \in Nat /\ nf \in 1..nf /\ running \in Seq(Frame(nf))
    OBVIOUS
  <2> HIDE DEF S, nf
  <2>5. running' \in Seq(Frame(nf))
    BY <2>3, <2>4, PushType, Zenon
  <2> QED
    BY <2>1, <2>2, <2>3, <2>5, LeadsToIInv
<1> QED
  BY <1>1, <1>2, <1>3, <1>4

\* The ends of the script code that the engine called preserve the invariant.
LEMMA FrameEndsIInv ==
  ASSUME IInv, FrameEnds
  PROVE  IInv'
<1> USE NowFacts
<1> DEFINE f == Head(running).fn
<1>1. running # <<>> /\ running' = Tail(running)
  BY Zenon DEF FrameEnds, Return, Throw, Await, Pop
<1>2. f \in 1..Len(func)
  BY <1>1 DEF Frame
<1> HIDE DEF f
<1>3. CASE Return \/ Throw
  <2>1. PICK v \in Input, b \in 0..1 :
          Become(Now) \/ Become(ResolveFunctionCall(Now, f, b, v))
    BY <1>3 DEF Return, Throw, f
  <2> DEFINE S == ResolveFunctionCall(Now, f, b, v)
  <2>2. f \in 1..Len(Now.func) /\ v \in ValOf(Len(Now.promise))
    BY <1>2
  <2>3. Good(S)
    BY <2>2, ResolveFunctionCallGood
  <2>4. Len(S.func) = Len(func)
    BY <2>2, ResolveFunctionCallType
  <2> HIDE DEF S
  <2>5. CASE Become(Now)
    BY <1>1, <2>5, LeadsToIInv
  <2>6. CASE Become(S)
    BY <1>1, <2>3, <2>4, <2>6, LeadsToIInv
  <2> QED
    BY <2>1, <2>5, <2>6 DEF S
<1>4. CASE Await
  <2> DEFINE fresh == NewPromise(Now, FALSE, FALSE)
             handlers == [b \in 0..1 |-> Resume(f)]
  <2>1. PICK v \in Input :
          Become(PerformPromiseThen(
            IF v.kind = "promise" THEN Now ELSE ResolveFunctionCall(fresh, Len(fresh.func), 0, v),
            IF v.kind = "promise" THEN v.ref ELSE Len(fresh.promise), handlers, 0))
    BY <1>4, Zenon DEF Await, f
  <2>2. handlers \in [0..1 -> Handler] /\ \A b \in 0..1 : handlers[b] = Resume(f)
    BY <1>2 DEF Resume, Handler
  <2> HIDE DEF handlers
  <2>3. \A nf \in Nat : Len(func) <= nf => HandlersFor(nf, handlers, 0)
    BY <1>2, <2>2 DEF HandlersFor, Reaction, Resume, Handler
  <2>4. CASE v.kind = "promise"
    <3> DEFINE T == PerformPromiseThen(Now, v.ref, handlers, 0)
    <3>1. v.ref \in 1..Len(Now.promise)
      BY <2>4 DEF ValOf
    <3>2. HandlersFor(Len(Now.func), handlers, 0)
      BY <2>3
    <3>3. Good(T) /\ T.func = Now.func
      BY <3>1, <3>2, PerformPromiseThenGood
    <3>4. Become(T)
      BY <2>1, <2>4
    <3> HIDE DEF T
    <3> QED
      BY <1>1, <3>3, <3>4, LeadsToIInv
  <2>5. CASE v.kind # "promise"
    <3> DEFINE nf == Len(fresh.func)
               S == ResolveFunctionCall(fresh, nf, 0, v)
               T == PerformPromiseThen(S, Len(fresh.promise), handlers, 0)
    <3>1. Good(fresh)
      BY NewPromiseGood, Zenon
    <3>2. WellFormed(fresh) /\ Len(fresh.promise) = Len(promise) + 1 /\ nf = Len(func) + 1
      <4>1. AddsPromise(Now, fresh, FALSE)
        BY NewPromiseType, Zenon
      <4> HIDE DEF fresh
      <4> QED
        BY <4>1, Zenon DEF AddsPromise
    <3>3. Become(T)
      BY <2>1, <2>5, Zenon
    <3> HIDE DEF fresh, nf
    <3>4. v \in ValOf(Len(fresh.promise)) /\ nf \in 1..Len(fresh.func)
      BY <2>5, <3>2 DEF ValOf, nf
    <3>5. Good(S)
      BY <3>1, <3>4, ResolveFunctionCallGood
    <3>6. Len(S.promise) = Len(fresh.promise) /\ Len(S.func) = nf
      BY <3>2, <3>4, ResolveFunctionCallType DEF nf
    <3>7. Len(fresh.promise) \in 1..Len(S.promise) /\ HandlersFor(Len(S.func), handlers, 0)
      BY <2>3, <3>2, <3>6
    <3> HIDE DEF S
    <3>8. Good(T) /\ T.func = S.func
      BY <3>5, <3>7, PerformPromiseThenGood
    <3> HIDE DEF T
    <3> QED
      BY <1>1, <3>2, <3>3, <3>6, <3>8, LeadsToIInv
  <2> QED
    BY <2>4, <2>5
<1> QED
  BY <1>3, <1>4 DEF FrameEnds

\* Facts about the first job, and the queue without it.
LEMMA DequeueFacts ==
  ASSUME IInv, job_list # <<>>
  PROVE  LET job == Head(job_list)
         IN  /\ job \in Job(Len(promise), Len(func))
             /\ WellFormed(Dequeue) /\ Len(Dequeue.promise) = Len(promise)
             /\ Len(Dequeue.func) = Len(func)
             /\ job.kind = "reaction" => Good(Dequeue)
             /\ job.kind = "thenable" => GoodBut(Dequeue, job.promise)
<1>1. Now.job_list # <<>> /\ Good(Now) /\ WellFormed(Now)
  BY NowFacts
<1>2. Dequeue = TailOf(Now)
  BY DEF Dequeue, TailOf, Now
<1>3. /\ WellFormed(TailOf(Now)) /\ TailOf(Now).promise = Now.promise
      /\ TailOf(Now).func = Now.func /\ Head(Now.job_list) = Now.job_list[1]
      /\ Now.job_list[1] \in Job(Len(Now.promise), Len(Now.func))
  BY <1>1, TailOfType
<1>4. /\ Now.job_list[1].kind = "reaction" => Good(TailOf(Now))
      /\ Now.job_list[1].kind = "thenable" => GoodBut(TailOf(Now), Now.job_list[1].promise)
  BY <1>1, TailOfGood
<1>5. Now.promise = promise /\ Now.func = func /\ Now.job_list = job_list
  BY NowFacts
<1> QED
  BY <1>2, <1>3, <1>4, <1>5

\* The execution of a job preserves the invariant.
LEMMA ExecutePendingJobIInv ==
  ASSUME IInv, ExecutePendingJob
  PROVE  IInv'
<1> DEFINE job == Head(job_list)
           nf == Len(func)
<1>0. job_list # <<>>
  BY DEF ExecutePendingJob, JobReady, ReactionJobPassThrough, ReactionJobResolving,
     ReactionJobScript, ThenableJobPromise, ThenableJobScript
<1>1. /\ job \in Job(Len(promise), nf)
      /\ WellFormed(Dequeue) /\ Len(Dequeue.promise) = Len(promise) /\ Len(Dequeue.func) = nf
      /\ job.kind = "reaction" => Good(Dequeue)
      /\ job.kind = "thenable" => GoodBut(Dequeue, job.promise)
  BY <1>0, DequeueFacts
<1>2. /\ job.promise \in 1..Len(promise) /\ job.is_reject \in 0..1
      /\ job.arg \in ValOf(Len(promise))
  BY <1>1 DEF Job
<1>3. /\ nf \in Nat /\ Len(promise) \in Nat /\ running \in Seq(Frame(nf))
      /\ running \in Seq(Frame(nf + 1)) /\ running \in Seq(Frame(nf + 2))
  BY NowFacts
<1>4. job.kind = "reaction" => job.rd \in Reaction(nf)
  BY <1>1 DEF Job
<1> HIDE DEF job, nf
<1>5. CASE ReactionJobPassThrough
  <2> DEFINE S == ResolveFunctionCall(Dequeue, job.rd.fn, job.is_reject, job.arg)
  <2>1. /\ job.kind = "reaction" /\ job.rd.handler.kind = "none"
        /\ Become(S) /\ running' = running
    BY <1>5 DEF ReactionJobPassThrough, JobReady, job
  <2>2. job.rd.fn \in 1..Len(Dequeue.func)
    BY <1>1, <1>3, <1>4, <2>1 DEF Reaction
  <2>3. Good(S) /\ Len(S.func) = Len(Dequeue.func)
    BY <1>1, <1>2, <2>1, <2>2, ResolveFunctionCallGood, ResolveFunctionCallType, Zenon
  <2> HIDE DEF S
  <2> QED
    BY <1>1, <1>3, <2>1, <2>3, LeadsToIInv
<1>6. CASE ReactionJobResolving
  <2> DEFINE b == IF job.rd.handler.kind = "reject" THEN 1 ELSE 0
             S == ResolveFunctionCall(Dequeue, job.rd.handler.fn, b, job.arg)
             T == ResolveFunctionCall(S, job.rd.fn, 0, Undefined)
  <2>1. /\ job.kind = "reaction" /\ job.rd.handler.kind \in {"resolve", "reject"}
        /\ Become(T) /\ running' = running
    BY <1>6 DEF ReactionJobResolving, JobReady, job
  <2>2. job.rd.fn \in 1..nf /\ job.rd.handler.fn \in 1..nf /\ b \in 0..1
    BY <1>1, <1>3, <1>4, <2>1 DEF Reaction
  <2>3. Undefined \in ValOf(Len(promise))
    BY DEF Undefined, ValOf, Val
  <2> HIDE DEF b
  <2>4. Good(S) /\ Len(S.func) = nf /\ Len(S.promise) = Len(promise)
    BY <1>1, <1>2, <2>1, <2>2, ResolveFunctionCallGood, ResolveFunctionCallType, Zenon
  <2> HIDE DEF S
  <2>5. Good(T) /\ Len(T.func) = nf
    <3>1. WellFormed(S)
      BY <2>4 DEF Good
    <3>2. job.rd.fn \in 1..Len(S.func) /\ Undefined \in ValOf(Len(S.promise)) /\ 0 \in 0..1
      BY <2>2, <2>3, <2>4
    <3> QED
      BY <2>4, <3>1, <3>2, ResolveFunctionCallGood, ResolveFunctionCallType
  <2> HIDE DEF T
  <2> QED
    BY <1>3, <2>1, <2>5, LeadsToIInv
<1>7. CASE ReactionJobScript
  <2>1. /\ job.kind = "reaction" /\ Become(Dequeue)
        /\ \/ job.rd.handler.kind = "script" /\ Push("script", job.rd.fn)
           \/ job.rd.handler.kind = "async" /\ Push("async", job.rd.handler.fn)
    BY <1>7 DEF ReactionJobScript, JobReady, job
  <2>2. PICK kind \in {"script", "async", "thenable"}, f \in 1..nf : Push(kind, f)
    BY <1>3, <1>4, <2>1 DEF Reaction
  <2>3. running' \in Seq(Frame(nf))
    BY <1>3, <2>2, PushType, Zenon DEF Push
  <2> QED
    BY <1>1, <2>1, <2>3, LeadsToIInv
<1> DEFINE held == job.arg.kind = "thenable"
           S == CreateResolvingFunctions(Dequeue, job.promise, held)
<1>8. job.kind = "thenable" => Good(S) /\ Len(S.func) = nf + 1 /\ S.promise = Dequeue.promise
  <2>1. held \in BOOLEAN
    OBVIOUS
  <2> HIDE DEF held
  <2>2. ASSUME job.kind = "thenable" PROVE Good(S)
    BY <1>1, <2>1, <2>2, CreateResolvingFunctionsGood
  <2>3. AddsPair(Dequeue, S, job.promise, held)
    BY <1>1, <1>2, <2>1, CreateResolvingFunctionsType
  <2> HIDE DEF S
  <2> QED
    BY <1>1, <2>2, <2>3 DEF AddsPair
<1>9. CASE ThenableJobPromise
  <2> DEFINE f == Len(S.func)
             handlers == [b \in 0..1 |-> IF b = 0 THEN Resolver(f) ELSE Rejecter(f)]
             T == PromiseThen(S, job.arg.ref, handlers, FALSE)
  <2>1. job.kind = "thenable" /\ job.arg.kind = "promise" /\ Become(T) /\ running' = running
    <3>1. job.arg.kind = "promise" => held = FALSE
      OBVIOUS
    <3> HIDE DEF held
    <3> QED
      BY <1>9, <3>1, Zenon DEF ThenableJobPromise, JobReady, job
  <2>2. job.arg.ref \in 1..Len(S.promise)
    BY <1>1, <1>2, <1>8, <2>1 DEF ValOf
  <2>3. f = nf + 1 /\ f \in 1..Len(S.func) /\ Good(S) /\ Len(S.func) = nf + 1
    BY <1>3, <1>8, <2>1
  <2> HIDE DEF S, f
  <2>4. handlers \in [0..1 -> Handler]
    BY <1>3, <2>3 DEF Resolver, Rejecter, Handler
  <2>5. \A b \in 0..1 : handlers[b].kind \in {"resolve", "reject"} /\ handlers[b].fn = f
    BY DEF Resolver, Rejecter
  <2> HIDE DEF handlers
  <2>6. \A b \in 0..1 : /\ handlers[b].kind # "async"
                        /\ handlers[b].fn \in 0..Len(S.func)
                        /\ handlers[b].kind \in {"resolve", "reject"} <=> handlers[b].fn # 0
    BY <1>3, <2>3, <2>5
  <2>7. Good(T) /\ Len(T.func) = Len(S.func) + 1
    BY <2>2, <2>3, <2>4, <2>6, PromiseThenGood, Zenon
  <2> HIDE DEF T
  <2>8. Len(T.func) = nf + 2
    BY <1>3, <2>3, <2>7
  <2> QED
    BY <1>3, <2>1, <2>7, <2>8, LeadsToIInv
<1>10. CASE ThenableJobScript
  <2>1. job.kind = "thenable" /\ Become(S) /\ Push("thenable", Len(S.func))
    <3>1. job.arg.kind = "thenable" => held = TRUE
      OBVIOUS
    <3> HIDE DEF held
    <3> QED
      BY <1>10, <3>1, Zenon DEF ThenableJobScript, JobReady, job
  <2>2. Good(S) /\ Len(S.func) = nf + 1 /\ nf + 1 \in Nat /\ nf + 1 \in 1..(nf + 1)
    BY <1>3, <1>8, <2>1
  <2> HIDE DEF S
  <2>3. running' \in Seq(Frame(nf + 1))
    BY <1>3, <2>1, <2>2, PushType, Zenon DEF Push
  <2> QED
    BY <2>1, <2>2, <2>3, LeadsToIInv
<1> QED
  BY <1>5, <1>6, <1>7, <1>9, <1>10 DEF ExecutePendingJob

\* Every step preserves the invariant, which holds initially.
LEMMA InductiveInvariant == Spec => []IInv
<1>1. Init => IInv
  <2>1. SUFFICES ASSUME Init PROVE IInv
    OBVIOUS
  <2>2. /\ Now = [promise |-> <<>>, func |-> <<>>, job_list |-> <<>>]
        /\ running = <<>> /\ func = <<>>
    BY <2>1 DEF Init, Now
  <2>3. WellFormed(Now)
    BY <2>2 DEF WellFormed
  <2>4. Good(Now)
    BY <2>2, <2>3 DEF Good, Rights, RightsArePending, RightsAreDistinct
  <2> QED
    BY <2>2, <2>4 DEF IInv, FramesOK
<1>2. IInv /\ [Next]_vars => IInv'
  <2>1. SUFFICES ASSUME IInv, [Next]_vars PROVE IInv'
    OBVIOUS
  <2>2. CASE UNCHANGED vars
    <3>1. Become(Now) /\ running' = running
      BY <2>2 DEF vars, Become, Now
    <3> QED
      BY <2>1, <3>1, NowFacts, LeadsToIInv
  <2> QED
    BY <2>1, <2>2, ScriptStepIInv, FrameEndsIInv, ExecutePendingJobIInv
       DEF Next, FrameEnds
<1> QED
  BY <1>1, <1>2, PTL DEF Spec

-----------------------------------------------------------------------------
(* Theorems                                                                *)

\* No reference between promises, pairs, jobs and frames ever dangles.
THEOREM TypeCorrect == Spec => []TypeOK
<1>1. IInv => TypeOK
  BY DEF IInv, Good, FramesOK, TypeOK
<1> QED
  BY <1>1, InductiveInvariant, PTL

\* fulfill_or_reject_promise never meets a settled promise: every right to
\* settle is for a pending promise, and no promise has two.
THEOREM PromisesSettleOnce == Spec => []SettledOnce
<1>1. IInv => SettledOnce
  BY DEF IInv, Good, Rights, SettledOnce
<1> QED
  BY <1>1, InductiveInvariant, PTL

\* No pending promise is orphaned: something can still settle it.
THEOREM PendingPromisesHaveARight == Spec => []PendingHasRight
<1>1. IInv => PendingHasRight
  BY NowFacts DEF Good, PendingHasRight
<1> QED
  BY <1>1, InductiveInvariant, PTL
=============================================================================
