-------------------------- MODULE PromiseSoundProofs --------------------------
(***************************************************************************)
(* Proofs about PromiseMachine: what the engine's operations keep of the   *)
(* order of reactions, of the outcome that a promise passes on to the ones *)
(* that follow it, and of the reactions that serve a pair of resolving     *)
(* functions.  They rest on the rights to settle of PromiseMachineProofs.  *)
(***************************************************************************)
EXTENDS PromiseMachineProofs

-----------------------------------------------------------------------------
(* The invariant, on an engine state S                                     *)

SettledState(b) == IF b = 1 THEN "rejected" ELSE "fulfilled"
FinalKinds == {"undefined", "plain", "error"}

\* Capabilities are registered in the order of their numbers (fn = 0: none).
InOrder(r, s) == r.fn # 0 /\ s.fn # 0 => r.fn < s.fn

ListsOrdered(S) ==
  \A q \in 1..Len(S.promise), b \in 0..1 :
    \A i, j \in 1..Len(S.promise[q].reactions[b]) :
      i < j => InOrder(S.promise[q].reactions[b][i], S.promise[q].reactions[b][j])

IsReactionJob(S, i) == S.job_list[i].kind = "reaction"

JobsOrdered(S) ==
  \A i, j \in 1..Len(S.job_list) :
    /\ i < j /\ IsReactionJob(S, i) /\ IsReactionJob(S, j)
    /\ S.job_list[i].promise = S.job_list[j].promise
    => InOrder(S.job_list[i].rd, S.job_list[j].rd)

\* A reaction job carries the outcome of its promise.
JobsFaithful(S) ==
  \A i \in 1..Len(S.job_list) : IsReactionJob(S, i) =>
    LET job == S.job_list[i]
    IN  /\ S.promise[job.promise].state = SettledState(job.is_reject)
        /\ S.promise[job.promise].result = job.arg

Final(S) ==
  \A q \in 1..Len(S.promise) :
    S.promise[q].state = "fulfilled" => S.promise[q].result.kind \in FinalKinds

Agree(S) ==
  \A q \in 1..Len(S.promise) :
    LET r == S.promise[q].follows
    IN  r # 0 /\ S.promise[q].state # "pending" =>
          /\ S.promise[q].state = S.promise[r].state
          /\ S.promise[q].result = S.promise[r].result

\* The promise that the pair f is for follows no other while f is not called.
Free(S, f) == Unresolved(S, f) => S.promise[S.func[f].promise].follows = 0

(***************************************************************************)
(* Only the reaction that js_promise_resolve_thenable_job registers with   *)
(* promise q can settle a promise that follows q.  Everything else that    *)
(* may call a pair has a free one: the capability of a reaction, an async  *)
(* function, script code that holds it, a frame (the set R).               *)
(***************************************************************************)
RoleOK(S, q, b, rd) ==
  /\ rd.handler.kind = "resolve" => b = 0
  /\ rd.handler.kind = "reject" => b = 1
  /\ rd.handler.kind \in {"resolve", "reject"} /\ Unresolved(S, rd.handler.fn) =>
       S.promise[S.func[rd.handler.fn].promise].follows = q
  /\ rd.handler.kind = "async" => Free(S, rd.handler.fn)
  /\ rd.fn # 0 => Free(S, rd.fn)

ListRoles(S) ==
  \A q \in 1..Len(S.promise), b \in 0..1 :
    \A i \in 1..Len(S.promise[q].reactions[b]) :
      RoleOK(S, q, b, S.promise[q].reactions[b][i])

JobRoles(S) ==
  \A i \in 1..Len(S.job_list) :
    LET job == S.job_list[i]
    IN  /\ IsReactionJob(S, i) => RoleOK(S, job.promise, job.is_reject, job.rd)
        /\ IsThenableJob(S, i) => S.promise[job.promise].follows =
             IF job.arg.kind = "promise" THEN job.arg.ref ELSE 0

PairRoles(S, R) ==
  \A f \in 1..Len(S.func) : S.func[f].held \/ f \in R => Free(S, f)

\* Pairs that nothing calls any more are called already, except those in W.
Served(S, W) ==
  \A f \in 1..Len(S.func) :
    ~S.func[f].held /\ Unresolved(S, f) => Waits(S, f) \/ f \in W

HeldPairs(S, H) == \A f \in H : f \in 1..Len(S.func) /\ S.func[f].held

Sound(S, R, W, H) ==
  /\ ListsOrdered(S) /\ JobsOrdered(S) /\ JobsFaithful(S)
  /\ Final(S) /\ Agree(S)
  /\ ListRoles(S) /\ JobRoles(S) /\ PairRoles(S, R)
  /\ Served(S, W) /\ HeldPairs(S, H)

-----------------------------------------------------------------------------
(* What the types say of the parts of a state                              *)

\* The parts of a well-formed state refer to promises and pairs that exist.
LEMMA Parts ==
  ASSUME NEW S, WellFormed(S)
  PROVE  LET np == Len(S.promise)
             nf == Len(S.func)
         IN  /\ np \in Nat /\ nf \in Nat /\ Len(S.job_list) \in Nat
             /\ \A q \in 1..np :
                  /\ S.promise[q] \in PromiseData(np, nf)
                  /\ S.promise[q].follows \in 0..np
                  /\ \A b \in 0..1 :
                       /\ S.promise[q].reactions[b] \in Seq(Reaction(nf))
                       /\ Len(S.promise[q].reactions[b]) \in Nat
                       /\ \A i \in 1..Len(S.promise[q].reactions[b]) :
                            S.promise[q].reactions[b][i] \in Reaction(nf)
             /\ \A f \in 1..nf :
                  S.func[f] \in FuncData(np) /\ S.func[f].promise \in 1..np
             /\ \A i \in 1..Len(S.job_list) :
                  /\ S.job_list[i] \in Job(np, nf)
                  /\ S.job_list[i].promise \in 1..np
                  /\ S.job_list[i].is_reject \in 0..1
                  /\ IsReactionJob(S, i) => S.job_list[i].rd \in Reaction(nf)
                  /\ IsThenableJob(S, i) =>
                       S.job_list[i].rd = NoReaction /\ Chains(S.job_list[i].arg)
                  /\ IsReactionJob(S, i) \/ IsThenableJob(S, i)
<1> DEFINE np == Len(S.promise)
           nf == Len(S.func)
<1>1. np \in Nat /\ nf \in Nat /\ Len(S.job_list) \in Nat
  BY LenProperties DEF WellFormed
<1>2. ASSUME NEW q \in 1..np
      PROVE  /\ S.promise[q] \in PromiseData(np, nf)
             /\ S.promise[q].follows \in 0..np
             /\ \A b \in 0..1 : S.promise[q].reactions[b] \in Seq(Reaction(nf))
  <2>1. S.promise[q] \in PromiseData(np, nf)
    BY ElementOfSeq DEF WellFormed
  <2> QED
    BY <2>1 DEF PromiseData
<1>3. ASSUME NEW q \in 1..np, NEW b \in 0..1
      PROVE  /\ Len(S.promise[q].reactions[b]) \in Nat
             /\ \A i \in 1..Len(S.promise[q].reactions[b]) :
                  S.promise[q].reactions[b][i] \in Reaction(nf)
  <2> DEFINE l == S.promise[q].reactions[b]
  <2>1. l \in Seq(Reaction(nf))
    BY <1>2, Zenon
  <2> HIDE DEF l
  <2>2. Len(l) \in Nat /\ \A i \in 1..Len(l) : l[i] \in Reaction(nf)
    BY <2>1, LenProperties, ElementOfSeq
  <2> QED
    BY <2>2 DEF l
<1>4. \A f \in 1..nf : S.func[f] \in FuncData(np) /\ S.func[f].promise \in 1..np
  <2>1. \A f \in 1..nf : S.func[f] \in FuncData(np)
    BY ElementOfSeq DEF WellFormed
  <2> QED
    BY <2>1 DEF FuncData
<1>5. ASSUME NEW i \in 1..Len(S.job_list)
      PROVE  /\ S.job_list[i] \in Job(np, nf)
             /\ S.job_list[i].promise \in 1..np
             /\ S.job_list[i].is_reject \in 0..1
             /\ IsReactionJob(S, i) => S.job_list[i].rd \in Reaction(nf)
             /\ IsThenableJob(S, i) =>
                  S.job_list[i].rd = NoReaction /\ Chains(S.job_list[i].arg)
             /\ IsReactionJob(S, i) \/ IsThenableJob(S, i)
  <2>1. S.job_list[i] \in Job(np, nf)
    BY ElementOfSeq DEF WellFormed
  <2> QED
    BY <2>1 DEF Job, IsReactionJob, IsThenableJob
<1> HIDE DEF np, nf
<1> QED
  BY <1>1, <1>2, <1>3, <1>4, <1>5, Zenon DEF np, nf

\* Fewer frames have less to be free of, more of them serve more pairs.
LEMMA SoundMonotone ==
  ASSUME NEW S, NEW R, NEW W, NEW H, Sound(S, R, W, H),
         NEW Q, NEW V, NEW G, Q \subseteq R, W \subseteq V, G \subseteq H
  PROVE  Sound(S, Q, V, G)
BY DEF Sound, PairRoles, Served, HeldPairs

-----------------------------------------------------------------------------
(* The first call of a pair                                                *)

\* Once the pair f is called nothing has to serve it any more.
LEMMA MarkResolvedSound ==
  ASSUME NEW S, WellFormed(S), NEW R, NEW W, NEW H, Sound(S, R, W, H),
         NEW f \in 1..Len(S.func)
  PROVE  Sound(MarkResolved(S, f), R, W \ {f}, H)
<1> DEFINE T == MarkResolved(S, f)
<1>1. /\ WellFormed(T) /\ T.promise = S.promise /\ T.job_list = S.job_list
      /\ Len(T.func) = Len(S.func)
      /\ \A g \in 1..Len(S.func) :
           /\ T.func[g].promise = S.func[g].promise
           /\ T.func[g].held = S.func[g].held
           /\ Unresolved(T, g) <=> (g # f /\ Unresolved(S, g))
  BY MarkResolvedType, ZenonT(30)
<1> HIDE DEF T
<1>2. /\ ListsOrdered(T) /\ JobsOrdered(T) /\ JobsFaithful(T) /\ Final(T) /\ Agree(T)
  BY <1>1 DEF Sound, ListsOrdered, JobsOrdered, JobsFaithful, Final, Agree, IsReactionJob
<1>3. \A g \in 1..Len(S.func) : Free(S, g) => Free(T, g)
  BY <1>1, Zenon DEF Free
<1>4. ASSUME NEW q, NEW b, NEW rd \in Reaction(Len(S.func)), RoleOK(S, q, b, rd)
      PROVE  RoleOK(T, q, b, rd)
  <2>1. Len(S.func) \in Nat
    BY Parts
  <2>2. /\ rd.handler.kind \in {"resolve", "reject", "async"} => rd.handler.fn \in 1..Len(S.func)
        /\ rd.fn # 0 => rd.fn \in 1..Len(S.func)
    BY <2>1 DEF Reaction
  <2> QED
    BY <1>1, <1>3, <1>4, <2>2, Zenon DEF RoleOK
<1>5. ListRoles(T)
  <2>1. \A q \in 1..Len(S.promise), b \in 0..1 :
          \A i \in 1..Len(S.promise[q].reactions[b]) :
            S.promise[q].reactions[b][i] \in Reaction(Len(S.func))
    BY Parts, Zenon
  <2> QED
    BY <1>1, <1>4, <2>1, Zenon DEF Sound, ListRoles
<1>6. JobRoles(T)
  <2>1. \A i \in 1..Len(S.job_list) :
          IsReactionJob(S, i) => S.job_list[i].rd \in Reaction(Len(S.func))
    BY Parts
  <2> QED
    BY <1>1, <1>4, <2>1, Zenon DEF Sound, JobRoles, IsReactionJob, IsThenableJob
<1>7. PairRoles(T, R)
  BY <1>1, <1>3 DEF Sound, PairRoles
<1>8. Served(T, W \ {f}) /\ HeldPairs(T, H)
  <2>1. \A g : Waits(S, g) => Waits(T, g)
    BY <1>1, Zenon DEF Waits
  <2> QED
    BY <1>1, <2>1, Zenon DEF Sound, Served, HeldPairs
<1> QED
  BY <1>2, <1>5, <1>6, <1>7, <1>8 DEF Sound, T

-----------------------------------------------------------------------------
(* Settling and deferring                                                  *)

\* The pairs that were not called are for promises that follow what they did.
KeepsFollows(S, T) ==
  /\ Len(S.func) \in Nat
  /\ \A f \in 1..Len(S.func) : Unresolved(T, f) =>
       /\ Unresolved(S, f)
       /\ T.promise[T.func[f].promise].follows = S.promise[S.func[f].promise].follows

\* Such a change keeps the roles of the pairs.
LEMMA RolesKept ==
  ASSUME NEW S, NEW T, KeepsFollows(S, T)
  PROVE  /\ \A f \in 1..Len(S.func) : Free(S, f) => Free(T, f)
         /\ \A q, b : \A rd \in Reaction(Len(S.func)) :
              RoleOK(S, q, b, rd) => RoleOK(T, q, b, rd)
<1>1. \A f \in 1..Len(S.func) : Free(S, f) => Free(T, f)
  BY Zenon DEF KeepsFollows, Free
<1>2. ASSUME NEW q, NEW b, NEW rd \in Reaction(Len(S.func)), RoleOK(S, q, b, rd)
      PROVE  RoleOK(T, q, b, rd)
  <2>1. /\ rd.handler.kind \in {"resolve", "reject", "async"} => rd.handler.fn \in 1..Len(S.func)
        /\ rd.fn # 0 => rd.fn \in 1..Len(S.func)
    BY DEF KeepsFollows, Reaction
  <2> QED
    BY <1>1, <1>2, <2>1, Zenon DEF RoleOK, KeepsFollows
<1> QED
  BY <1>1, <1>2

\* What p may be settled with: what the promise it follows was settled with.
MaySettle(S, p, v, b) ==
  LET r == S.promise[p].follows
  IN  /\ b = 0 => v.kind \in FinalKinds
      /\ r # 0 => /\ S.promise[r].state = SettledState(b)
                  /\ S.promise[r].result = v

\* fulfill_or_reject_promise keeps the order of the reactions, and the promise
\* gets the outcome of the one it follows.
LEMMA FulfillOrRejectSound ==
  ASSUME NEW S, NEW p, GoodBut(S, p), NEW R, NEW W, NEW H, Sound(S, R, W, H),
         NEW v \in ValOf(Len(S.promise)), NEW b \in 0..1, MaySettle(S, p, v, b)
  PROVE  Sound(FulfillOrReject(S, p, v, b), R, W, H)
<1> DEFINE np == Len(S.promise)
           nf == Len(S.func)
           n == Len(S.job_list)
           T == FulfillOrReject(S, p, v, b)
           rds == S.promise[p].reactions[b]
           m == Len(rds)
<1>0. WellFormed(S) /\ p \in 1..np /\ S.promise[p].state = "pending"
  BY DEF GoodBut
<1>1. WellFormed(T) /\ Len(T.promise) = np /\ T.func = S.func
  BY <1>0, FulfillOrRejectType, Zenon
<1>2. /\ \A q \in 1..np : q # p => T.promise[q] = S.promise[q]
      /\ T.promise[p].state = SettledState(b)
      /\ T.promise[p].result = v
      /\ T.promise[p].reactions = NoReactions
      /\ T.promise[p].follows = S.promise[p].follows
      /\ n \in Nat /\ m \in Nat
      /\ Len(T.job_list) = n + m
      /\ \A i \in 1..n : T.job_list[i] = S.job_list[i]
      /\ \A i \in 1..m : T.job_list[n + i] = ReactionJob(p, rds[i], b, v)
  <2>1. Settles(S, T, p, v, b)
    BY <1>0, FulfillOrRejectEffect
  <2> HIDE DEF T
  <2> QED
    BY <2>1 DEF Settles, SettledState
<1> HIDE DEF T, n, m, rds
<1>jobs. \A rd : LET job == ReactionJob(p, rd, b, v)
                 IN  /\ job.kind = "reaction" /\ job.promise = p /\ job.rd = rd
                     /\ job.is_reject = b /\ job.arg = v
  BY DEF ReactionJob
<1>3. \A k \in 1..Len(T.job_list) :
        \/ k \in 1..n /\ T.job_list[k] = S.job_list[k]
        \/ /\ k - n \in 1..m /\ k = n + (k - n)
           /\ T.job_list[k] = ReactionJob(p, rds[k - n], b, v)
  <2> TAKE k \in 1..Len(T.job_list)
  <2>1. k \in 1..n \/ (k - n \in 1..m /\ k = n + (k - n))
    BY <1>2
  <2> QED
    BY <1>2, <2>1
<1>4. \A i \in 1..n : IsReactionJob(S, i) => S.job_list[i].promise \in (1..np) \ {p}
  <2>1. \A i \in 1..n : S.job_list[i].promise \in 1..np
    BY <1>0, Parts, Zenon DEF n
  <2>2. \A i \in 1..n : IsReactionJob(S, i) =>
          S.promise[S.job_list[i].promise].state = SettledState(S.job_list[i].is_reject)
    BY DEF Sound, JobsFaithful, n
  <2> QED
    BY <1>0, <2>1, <2>2, Zenon DEF SettledState
<1>5. \A c \in 0..1 : T.promise[p].reactions[c] = <<>> /\ Len(T.promise[p].reactions[c]) = 0
  BY <1>2 DEF NoReactions
<1>6. ListsOrdered(T)
  <2>1. ASSUME NEW q \in 1..np, NEW c \in 0..1,
               NEW i \in 1..Len(T.promise[q].reactions[c]),
               NEW j \in 1..Len(T.promise[q].reactions[c]), i < j
        PROVE  InOrder(T.promise[q].reactions[c][i], T.promise[q].reactions[c][j])
    <3>1. q # p
      BY <1>5
    <3> QED
      BY <1>2, <2>1, <3>1, Zenon DEF Sound, ListsOrdered
  <2> QED
    BY <1>1, <2>1, Zenon DEF ListsOrdered
<1>7. JobsOrdered(T)
  <2>1. ASSUME NEW i \in 1..Len(T.job_list), NEW j \in 1..Len(T.job_list), i < j,
               IsReactionJob(T, i), IsReactionJob(T, j),
               T.job_list[i].promise = T.job_list[j].promise
        PROVE  InOrder(T.job_list[i].rd, T.job_list[j].rd)
    <3>1. CASE i \in 1..n /\ j \in 1..n
      BY <1>2, <2>1, <3>1, Zenon DEF Sound, JobsOrdered, IsReactionJob, n
    <3>2. CASE i \in 1..n /\ j \notin 1..n
      <4>1. T.job_list[j].promise = p
        BY <1>3, <1>jobs, <3>2
      <4>2. T.job_list[i] = S.job_list[i] /\ IsReactionJob(S, i)
        BY <1>2, <2>1, <3>2, Zenon DEF IsReactionJob
      <4> QED
        BY <1>4, <2>1, <3>2, <4>1, <4>2, Zenon
    <3>3. CASE i \notin 1..n
      <4>0. n \in Nat /\ Len(T.job_list) = n + m /\ m \in Nat
        BY <1>2, Zenon
      <4>1. /\ i - n \in 1..m /\ j - n \in 1..m /\ i - n < j - n
            /\ T.job_list[i] = ReactionJob(p, rds[i - n], b, v)
            /\ T.job_list[j] = ReactionJob(p, rds[j - n], b, v)
        <5>1. i - n \in 1..m /\ j - n \in 1..m /\ i - n < j - n /\ j \notin 1..n
          BY <2>1, <3>3, <4>0
        <5> QED
          BY <1>3, <3>3, <5>1, Zenon
      <4>2. InOrder(rds[i - n], rds[j - n])
        BY <1>0, <4>1, Zenon DEF Sound, ListsOrdered, rds, m
      <4> QED
        BY <4>1, <4>2 DEF ReactionJob
    <3> QED
      BY <3>1, <3>2, <3>3, Zenon
  <2> QED
    BY <2>1 DEF JobsOrdered
<1>8. JobsFaithful(T)
  <2>1. ASSUME NEW k \in 1..Len(T.job_list), IsReactionJob(T, k)
        PROVE  /\ T.promise[T.job_list[k].promise].state = SettledState(T.job_list[k].is_reject)
               /\ T.promise[T.job_list[k].promise].result = T.job_list[k].arg
    <3>1. CASE k \in 1..n
      BY <1>2, <1>4, <2>1, <3>1, ZenonT(30) DEF Sound, JobsFaithful, IsReactionJob, n
    <3>2. CASE k \notin 1..n
      <4>1. T.job_list[k] = ReactionJob(p, rds[k - n], b, v)
        BY <1>3, <3>2, Zenon
      <4>2. /\ T.job_list[k].promise = p /\ T.job_list[k].is_reject = b
            /\ T.job_list[k].arg = v
        BY <1>jobs, <4>1, Zenon
      <4> QED
        BY <1>2, <4>2, Zenon
    <3> QED
      BY <3>1, <3>2, Zenon
  <2> QED
    BY <2>1, Zenon DEF JobsFaithful
<1>9. Final(T)
  <2>1. Final(S) /\ (b = 0 => v.kind \in FinalKinds)
    BY Zenon DEF Sound, MaySettle
  <2>2. b # 0 => SettledState(b) # "fulfilled"
    BY DEF SettledState
  <2> QED
    BY <1>1, <1>2, <2>1, <2>2, Zenon DEF Final, np
<1>10. Agree(T)
  <2>1. ASSUME NEW q \in 1..np, T.promise[q].follows # 0, T.promise[q].state # "pending"
        PROVE  /\ T.promise[q].state = T.promise[T.promise[q].follows].state
               /\ T.promise[q].result = T.promise[T.promise[q].follows].result
    <3>1. T.promise[q].follows = S.promise[q].follows /\ S.promise[q].follows \in 1..np
      <4>1. T.promise[q].follows = S.promise[q].follows
        BY <1>2, Zenon
      <4>2. S.promise[q].follows \in 0..np /\ np \in Nat
        BY <1>0, Parts, Zenon
      <4> QED
        BY <2>1, <4>1, <4>2
    <3>2. CASE q # p
      <4>1. /\ S.promise[q].state = S.promise[S.promise[q].follows].state
            /\ S.promise[q].result = S.promise[S.promise[q].follows].result
            /\ S.promise[q].state # "pending"
        BY <1>2, <2>1, <3>1, <3>2, Zenon DEF Sound, Agree
      <4> QED
        BY <1>0, <1>2, <3>1, <3>2, <4>1, ZenonT(30)
    <3>3. CASE q = p
      BY <1>2, <3>1, <2>1, <3>3, Zenon DEF MaySettle
    <3> QED
      BY <3>2, <3>3, Zenon
  <2> QED
    BY <1>1, <2>1, Zenon DEF Agree
<1>11. KeepsFollows(S, T)
  <2>1. nf \in Nat /\ \A f \in 1..nf : S.func[f].promise \in 1..np
    BY <1>0, Parts, Zenon
  <2>2. \A q \in 1..np : T.promise[q].follows = S.promise[q].follows
    BY <1>2, ZenonT(30)
  <2> QED
    BY <1>1, <2>1, <2>2, Zenon DEF KeepsFollows, Unresolved
<1>12. ListRoles(T)
  <2>1. ASSUME NEW q \in 1..np, NEW c \in 0..1, NEW i \in 1..Len(T.promise[q].reactions[c])
        PROVE  RoleOK(T, q, c, T.promise[q].reactions[c][i])
    <3>1. q # p
      BY <1>5
    <3>2. T.promise[q] = S.promise[q]
      BY <1>2, <3>1, Zenon
    <3> DEFINE x == S.promise[q].reactions[c][i]
    <3>3. x \in Reaction(nf)
      BY <1>0, <3>2, Parts, Zenon
    <3>4. RoleOK(S, q, c, x)
      BY <3>2, Zenon DEF Sound, ListRoles
    <3> HIDE DEF x
    <3>5. RoleOK(T, q, c, x)
      BY <1>11, <3>3, <3>4, RolesKept, Zenon
    <3> QED
      BY <3>2, <3>5, Zenon DEF x
  <2> QED
    BY <1>1, <2>1, Zenon DEF ListRoles
<1>13. JobRoles(T)
  <2>1. ASSUME NEW k \in 1..n
        PROVE  /\ IsReactionJob(T, k) =>
                    RoleOK(T, T.job_list[k].promise, T.job_list[k].is_reject, T.job_list[k].rd)
               /\ IsThenableJob(T, k) => T.promise[T.job_list[k].promise].follows =
                    IF T.job_list[k].arg.kind = "promise" THEN T.job_list[k].arg.ref ELSE 0
    <3>1. T.job_list[k] = S.job_list[k] /\ k \in 1..Len(S.job_list)
      BY <1>2, Zenon DEF n
    <3>2. /\ IsReactionJob(S, k) => S.job_list[k].rd \in Reaction(nf)
          /\ S.job_list[k].promise \in 1..np
      BY <1>0, <3>1, Parts, Zenon
    <3>3. /\ IsReactionJob(S, k) =>
               RoleOK(S, S.job_list[k].promise, S.job_list[k].is_reject, S.job_list[k].rd)
          /\ IsThenableJob(S, k) => S.promise[S.job_list[k].promise].follows =
               IF S.job_list[k].arg.kind = "promise" THEN S.job_list[k].arg.ref ELSE 0
      BY <3>1, Zenon DEF Sound, JobRoles
    <3>4. T.promise[S.job_list[k].promise].follows = S.promise[S.job_list[k].promise].follows
      BY <1>2, <3>2, Zenon
    <3>5. IsReactionJob(S, k) =>
               RoleOK(T, S.job_list[k].promise, S.job_list[k].is_reject, S.job_list[k].rd)
      BY <1>11, <3>2, <3>3, RolesKept, Zenon
    <3> QED
      BY <3>1, <3>3, <3>4, <3>5, Zenon DEF IsReactionJob, IsThenableJob
  <2>2. ASSUME NEW i \in 1..m PROVE RoleOK(T, p, b, rds[i])
    <3>1. rds[i] \in Reaction(nf)
      BY <1>0, Parts, Zenon DEF rds, m
    <3>2. RoleOK(S, p, b, rds[i])
      BY <1>0, Zenon DEF Sound, ListRoles, rds, m
    <3> QED
      BY <1>11, <3>1, <3>2, RolesKept, Zenon
  <2>3. ASSUME NEW k \in 1..Len(T.job_list), k \notin 1..n
        PROVE  /\ IsReactionJob(T, k) /\ ~IsThenableJob(T, k)
               /\ RoleOK(T, T.job_list[k].promise, T.job_list[k].is_reject, T.job_list[k].rd)
    <3>1. k - n \in 1..m /\ T.job_list[k] = ReactionJob(p, rds[k - n], b, v)
      BY <1>3, <2>3
    <3>2. RoleOK(T, p, b, rds[k - n])
      BY <2>2, <3>1, Zenon
    <3> QED
      BY <3>1, <3>2 DEF ReactionJob, IsReactionJob, IsThenableJob
  <2> QED
    BY <2>1, <2>3, Zenon DEF JobRoles
<1>14. PairRoles(T, R)
  BY <1>1, <1>11, RolesKept, Zenon DEF Sound, PairRoles
<1>15. Served(T, W)
  <2>1. ASSUME NEW f, Waits(S, f) PROVE Waits(T, f)
    <3>1. CASE \E i \in 1..n : Holds(S.job_list[i].rd, f)
      <4>1. PICK i \in 1..n : Holds(S.job_list[i].rd, f)
        BY <3>1
      <4>2. i \in 1..Len(T.job_list) /\ T.job_list[i] = S.job_list[i]
        BY <1>2
      <4> QED
        BY <4>1, <4>2 DEF Waits
    <3>2. ASSUME NEW q \in 1..np, S.promise[q].state = "pending",
                 \A c \in 0..1 : \E i \in 1..Len(S.promise[q].reactions[c]) :
                   Holds(S.promise[q].reactions[c][i], f)
          PROVE  Waits(T, f)
      <4>1. CASE q # p
        <5>1. q \in 1..Len(T.promise) /\ T.promise[q] = S.promise[q]
          BY <1>1, <1>2, <4>1, Zenon
        <5> QED
          BY <3>2, <5>1, Zenon DEF Waits
      <4>2. CASE q = p
        <5>1. PICK i \in 1..m : Holds(rds[i], f)
          BY <3>2, <4>2, Zenon DEF m, rds
        <5>2. n + i \in 1..Len(T.job_list) /\ T.job_list[n + i].rd = rds[i]
          BY <1>2, <1>jobs
        <5> QED
          BY <5>1, <5>2, Zenon DEF Waits
      <4> QED
        BY <4>1, <4>2, SMTT(30)
    <3> QED
      BY <2>1, <3>1, <3>2, ZenonT(30) DEF Waits, n
  <2> QED
    BY <1>1, <2>1, SMTT(30) DEF Sound, Served, Unresolved
<1>16. HeldPairs(T, H)
  BY <1>1 DEF Sound, HeldPairs
<1> QED
  BY <1>6, <1>7, <1>8, <1>9, <1>10, <1>12, <1>13, <1>14, <1>15, <1>16, Zenon DEF Sound, T

\* js_promise_resolve_function_call with an object that has a 'then': a
\* thenable job is queued, and the promise follows a promise from here on.
Defers(S, T, p, v) ==
  LET n == Len(S.job_list)
      q == IF v.kind = "promise" THEN v.ref ELSE 0
  IN  /\ WellFormed(T) /\ Len(T.promise) = Len(S.promise) /\ T.func = S.func
      /\ T.promise[p] = [S.promise[p] EXCEPT !.follows = q]
      /\ \A r \in 1..Len(S.promise) : r # p => T.promise[r] = S.promise[r]
      /\ n \in Nat /\ Len(T.job_list) = n + 1
      /\ \A i \in 1..n : T.job_list[i] = S.job_list[i]
      /\ T.job_list[n + 1] = ThenableJob(p, v)

\* Resolve does that when the value chains and is not the promise itself.
LEMMA ResolveDefers ==
  ASSUME NEW S, WellFormed(S), NEW p \in 1..Len(S.promise),
         NEW v \in ValOf(Len(S.promise)), Chains(v), v # PromiseObj(p)
  PROVE  Defers(S, Resolve(S, p, 0, v), p, v)
<1> DEFINE np == Len(S.promise)
           nf == Len(S.func)
           n == Len(S.job_list)
           T == Resolve(S, p, 0, v)
           q == IF v.kind = "promise" THEN v.ref ELSE 0
           data == [S.promise[p] EXCEPT !.follows = q]
           job == ThenableJob(p, v)
<1>1. WellFormed(T) /\ Len(T.promise) = np /\ T.func = S.func
  BY ResolveType
<1>2. T.promise = [S.promise EXCEPT ![p] = data] /\ T.job_list = Append(S.job_list, job)
  BY DEF Resolve, Chains
<1>3. S.promise \in [1..np -> PromiseData(np, nf)]
  BY LenProperties DEF WellFormed
<1> HIDE DEF data, T
<1>4. T.promise[p] = data /\ \A r \in 1..np : r # p => T.promise[r] = S.promise[r]
  BY <1>2, <1>3
<1>5. S.job_list \in Seq(Job(np, nf) \cup {job})
  BY SeqMonotonic DEF WellFormed
<1>6. n \in Nat
  BY <1>5, LenProperties
<1> HIDE DEF job
<1>7. /\ Len(Append(S.job_list, job)) = n + 1
      /\ \A i \in 1..n : Append(S.job_list, job)[i] = S.job_list[i]
      /\ Append(S.job_list, job)[n + 1] = job
  BY <1>5, AppendProperties
<1> QED
  BY <1>1, <1>2, <1>4, <1>6, <1>7 DEF Defers, data, job, T

\* That keeps the invariant: no pair that is left can settle the promise.
LEMMA DefersSound ==
  ASSUME NEW S, NEW T, NEW p, GoodBut(S, p), NEW R, NEW W, NEW H, Sound(S, R, W, H),
         NEW v \in ValOf(Len(S.promise)), Chains(v), Defers(S, T, p, v)
  PROVE  Sound(T, R, W, H)
<1> DEFINE np == Len(S.promise)
           nf == Len(S.func)
           n == Len(S.job_list)
           q == IF v.kind = "promise" THEN v.ref ELSE 0
<1>0. WellFormed(S) /\ p \in 1..np /\ S.promise[p].state = "pending"
  BY DEF GoodBut
<1>1. /\ Len(T.promise) = np /\ T.func = S.func
      /\ \A r \in 1..np : r # p => T.promise[r] = S.promise[r]
      /\ n \in Nat /\ Len(T.job_list) = n + 1
      /\ \A i \in 1..n : T.job_list[i] = S.job_list[i]
      /\ T.job_list[n + 1] = ThenableJob(p, v)
  BY DEF Defers
<1>2. /\ T.promise[p].state = "pending" /\ T.promise[p].follows = q
      /\ T.promise[p].result = S.promise[p].result
      /\ T.promise[p].reactions = S.promise[p].reactions
  <2>1. S.promise[p] \in PromiseData(np, nf)
    BY <1>0, Parts
  <2>2. T.promise[p] = [S.promise[p] EXCEPT !.follows = q]
    BY DEF Defers
  <2> QED
    BY <1>0, <2>1, <2>2, Zenon DEF PromiseData
<1>3. \A r \in 1..np : /\ T.promise[r].state = S.promise[r].state
                       /\ T.promise[r].result = S.promise[r].result
                       /\ T.promise[r].reactions = S.promise[r].reactions
  BY <1>0, <1>1, <1>2, Zenon
<1>4. T.job_list[n + 1].kind = "thenable" /\ T.job_list[n + 1].promise = p /\ T.job_list[n + 1].arg = v
  BY <1>1 DEF ThenableJob
<1> HIDE DEF n, q
<1>5. \A i \in 1..Len(T.job_list) : IsReactionJob(T, i) =>
        i \in 1..n /\ T.job_list[i] = S.job_list[i] /\ IsReactionJob(S, i)
  <2> TAKE i \in 1..Len(T.job_list)
  <2>1. i \in 1..n \/ i = n + 1
    BY <1>1
  <2> QED
    BY <1>1, <1>4, <2>1, Zenon DEF IsReactionJob
<1>6. ListsOrdered(T)
  BY <1>1, <1>3, ZenonT(30) DEF Sound, ListsOrdered
<1>7. JobsOrdered(T)
  BY <1>5, Zenon DEF Sound, JobsOrdered, n
<1>8. JobsFaithful(T)
  <2>1. ASSUME NEW i \in 1..Len(T.job_list), IsReactionJob(T, i)
        PROVE  /\ T.promise[T.job_list[i].promise].state = SettledState(T.job_list[i].is_reject)
               /\ T.promise[T.job_list[i].promise].result = T.job_list[i].arg
    <3>1. i \in 1..Len(S.job_list) /\ T.job_list[i] = S.job_list[i] /\ IsReactionJob(S, i)
      BY <1>5, <2>1, Zenon DEF n
    <3>2. S.job_list[i].promise \in 1..np
      BY <1>0, <3>1, Parts
    <3>3. /\ S.promise[S.job_list[i].promise].state = SettledState(S.job_list[i].is_reject)
          /\ S.promise[S.job_list[i].promise].result = S.job_list[i].arg
      BY <3>1, Zenon DEF Sound, JobsFaithful
    <3> QED
      BY <1>3, <3>1, <3>2, <3>3, ZenonT(30)
  <2> QED
    BY <2>1 DEF JobsFaithful
<1>9. Final(T)
  BY <1>1, <1>3, ZenonT(30) DEF Sound, Final
<1>10. Agree(T)
  <2>1. ASSUME NEW r \in 1..np, T.promise[r].follows # 0, T.promise[r].state # "pending"
        PROVE  /\ T.promise[r].state = T.promise[T.promise[r].follows].state
               /\ T.promise[r].result = T.promise[T.promise[r].follows].result
    <3>1. r # p /\ T.promise[r] = S.promise[r]
      BY <1>1, <1>2, <2>1, Zenon
    <3>2. S.promise[r].follows \in 1..np
      <4>1. S.promise[r].follows \in 0..np /\ np \in Nat
        BY <1>0, Parts, Zenon
      <4> QED
        BY <2>1, <3>1, <4>1
    <3>3. /\ S.promise[r].state = S.promise[S.promise[r].follows].state
          /\ S.promise[r].result = S.promise[S.promise[r].follows].result
      BY <2>1, <3>1 DEF Sound, Agree
    <3> QED
      BY <1>3, <3>1, <3>2, <3>3, Zenon
  <2> QED
    BY <1>1, <2>1, SMTT(30) DEF Agree
<1>11. KeepsFollows(S, T)
  <2>1. nf \in Nat /\ \A f \in 1..nf : S.func[f].promise \in 1..np
    BY <1>0, Parts, Zenon
  <2>2. \A f \in 1..nf : Unresolved(S, f) => S.func[f].promise # p
    BY DEF GoodBut, HasRight
  <2> QED
    BY <1>1, <2>1, <2>2, Zenon DEF KeepsFollows, Unresolved
<1>12. ListRoles(T)
  <2>1. ASSUME NEW r \in 1..np, NEW c \in 0..1, NEW i \in 1..Len(T.promise[r].reactions[c])
        PROVE  RoleOK(T, r, c, T.promise[r].reactions[c][i])
    <3>1. T.promise[r].reactions = S.promise[r].reactions
      BY <1>3
    <3>2. S.promise[r].reactions[c][i] \in Reaction(nf)
      BY <1>0, <3>1, Parts, ZenonT(30)
    <3>3. RoleOK(S, r, c, S.promise[r].reactions[c][i])
      BY <3>1, Zenon DEF Sound, ListRoles
    <3> QED
      BY <1>11, <3>1, <3>2, <3>3, RolesKept
  <2> QED
    BY <1>1, <2>1, Zenon DEF ListRoles
<1>13. JobRoles(T)
  <2>1. ASSUME NEW i \in 1..n
        PROVE  /\ IsReactionJob(T, i) =>
                    RoleOK(T, T.job_list[i].promise, T.job_list[i].is_reject, T.job_list[i].rd)
               /\ IsThenableJob(T, i) => T.promise[T.job_list[i].promise].follows =
                    IF T.job_list[i].arg.kind = "promise" THEN T.job_list[i].arg.ref ELSE 0
    <3>1. T.job_list[i] = S.job_list[i] /\ i \in 1..Len(S.job_list)
      BY <1>1, Zenon DEF n
    <3>2. /\ IsReactionJob(S, i) => S.job_list[i].rd \in Reaction(nf)
          /\ S.job_list[i].promise \in 1..np
      BY <1>0, <3>1, Parts, Zenon
    <3>3. /\ IsReactionJob(S, i) =>
               RoleOK(S, S.job_list[i].promise, S.job_list[i].is_reject, S.job_list[i].rd)
          /\ IsThenableJob(S, i) => S.promise[S.job_list[i].promise].follows =
               IF S.job_list[i].arg.kind = "promise" THEN S.job_list[i].arg.ref ELSE 0
      BY <3>1 DEF Sound, JobRoles
    <3>4. IsThenableJob(S, i) => S.job_list[i].promise # p
      BY <3>1 DEF GoodBut, HasRight
    <3>5. IsReactionJob(S, i) =>
               RoleOK(T, S.job_list[i].promise, S.job_list[i].is_reject, S.job_list[i].rd)
      BY <1>11, <3>2, <3>3, RolesKept, Zenon
    <3>6. IsThenableJob(S, i) => T.promise[S.job_list[i].promise] = S.promise[S.job_list[i].promise]
      BY <1>1, <3>2, <3>4, Zenon
    <3> QED
      BY <3>1, <3>3, <3>5, <3>6, Zenon DEF IsReactionJob, IsThenableJob
  <2>2. ASSUME NEW i \in 1..Len(T.job_list), i \notin 1..n
        PROVE  ~IsReactionJob(T, i) /\ T.promise[T.job_list[i].promise].follows =
                 IF T.job_list[i].arg.kind = "promise" THEN T.job_list[i].arg.ref ELSE 0
    <3>1. i = n + 1
      BY <1>1, <2>2
    <3> QED
      BY <1>2, <1>4, <3>1, Zenon DEF IsReactionJob, q
  <2> QED
    BY <2>1, <2>2, Zenon DEF JobRoles
<1>14. PairRoles(T, R)
  BY <1>1, <1>11, RolesKept, Zenon DEF Sound, PairRoles
<1>15. Served(T, W)
  <2>1. ASSUME NEW f, Waits(S, f) PROVE Waits(T, f)
    <3>1. ASSUME NEW i \in 1..n, Holds(S.job_list[i].rd, f) PROVE Waits(T, f)
      <4>1. i \in 1..Len(T.job_list) /\ T.job_list[i] = S.job_list[i]
        BY <1>1
      <4> QED
        BY <3>1, <4>1 DEF Waits
    <3>2. ASSUME NEW r \in 1..np, S.promise[r].state = "pending",
                 \A c \in 0..1 : \E i \in 1..Len(S.promise[r].reactions[c]) :
                   Holds(S.promise[r].reactions[c][i], f)
          PROVE  Waits(T, f)
      <4>1. /\ r \in 1..Len(T.promise) /\ T.promise[r].state = "pending"
            /\ T.promise[r].reactions = S.promise[r].reactions
        BY <1>1, <1>3, <3>2, Zenon
      <4> QED
        BY <3>2, <4>1, Zenon DEF Waits
    <3> QED
      BY <2>1, <3>1, <3>2, ZenonT(30) DEF Waits, n
  <2> QED
    BY <1>1, <2>1, SMTT(30) DEF Sound, Served, Unresolved
<1>16. HeldPairs(T, H)
  BY <1>1 DEF Sound, HeldPairs
<1> QED
  BY <1>6, <1>7, <1>8, <1>9, <1>10, <1>12, <1>13, <1>14, <1>15, <1>16, Zenon DEF Sound

\* What the pair f may be called with.
MayCall(S, f, v, b) ==
  Unresolved(S, f) =>
    LET r == S.promise[S.func[f].promise].follows
    IN  r # 0 => /\ S.promise[r].state = SettledState(b)
                 /\ S.promise[r].result = v

\* A call of a resolving function, the first or a later one.
LEMMA ResolveFunctionCallSound ==
  ASSUME NEW S, Good(S), NEW R, NEW W, NEW H, Sound(S, R, W, H),
         NEW f \in 1..Len(S.func), NEW v \in ValOf(Len(S.promise)), NEW b \in 0..1,
         MayCall(S, f, v, b)
  PROVE  Sound(ResolveFunctionCall(S, f, b, v), R, W \ {f}, H)
<1> DEFINE np == Len(S.promise)
           p == S.func[f].promise
           U == MarkResolved(S, f)
<1>0. /\ WellFormed(S) /\ p \in 1..np /\ S.func[f] \in FuncData(np) /\ np \in Nat
      /\ S.promise[p].follows \in 0..np
  BY Parts, Zenon DEF Good
<1>1. CASE S.func[f].already_resolved = 1
  <2>1. Sound(S, R, W \ {f}, H)
    BY <1>1 DEF Sound, Served, Unresolved
  <2> QED
    BY <1>1, <2>1 DEF ResolveFunctionCall
<1>2. CASE S.func[f].already_resolved # 1
  <2>1. Unresolved(S, f)
    BY <1>0, <1>2 DEF FuncData, Unresolved
  <2>2. GoodBut(U, p)
    BY <2>1, MarkResolvedGood, Zenon
  <2>3. Sound(U, R, W \ {f}, H)
    BY <1>0, MarkResolvedSound, Zenon
  <2>4. U.promise = S.promise /\ WellFormed(U)
    BY <1>0, MarkResolvedType
  <2>5. ResolveFunctionCall(S, f, b, v) = Resolve(U, p, b, v)
    BY <1>2, SMTT(30) DEF ResolveFunctionCall
  <2> DEFINE r == S.promise[p].follows
  <2>6. r # 0 => S.promise[r].state = SettledState(b) /\ S.promise[r].result = v
    BY <2>1, ZenonT(30) DEF MayCall
  <2>rr. r \in 0..np /\ U.promise[p].follows = r
    BY <1>0, <2>4
  <2> HIDE DEF U, p, r
  <2>7. b = 0 /\ v.kind \notin FinalKinds => r = 0
    <3>1. r # 0 => r \in 1..np
      BY <1>0, <2>rr
    <3> QED
      BY <2>6, <3>1 DEF Sound, Final, SettledState
  <2>8. SelfError \in ValOf(np) /\ ThenError \in ValOf(np)
    BY DEF SelfError, ThenError, ValOf, Val
  <2>9. v \in ValOf(Len(U.promise)) /\ SelfError \in ValOf(Len(U.promise))
        /\ ThenError \in ValOf(Len(U.promise))
    BY <2>4, <2>8
  <2>10. /\ b = 1 \/ v.kind \in FinalKinds => MaySettle(U, p, v, b)
         /\ b = 0 /\ v.kind \notin FinalKinds =>
              MaySettle(U, p, SelfError, 1) /\ MaySettle(U, p, ThenError, 1)
    BY <2>4, <2>6, <2>7, <2>rr DEF MaySettle
  <2>11. CASE b = 1 \/ v.kind \in FinalKinds
    <3>1. Resolve(U, p, b, v) = FulfillOrReject(U, p, v, b)
      BY <2>11 DEF Resolve, FinalKinds
    <3>2. MaySettle(U, p, v, b)
      BY <2>10, <2>11
    <3>3. Sound(FulfillOrReject(U, p, v, b), R, W \ {f}, H)
      BY <2>2, <2>3, <2>9, <3>2, FulfillOrRejectSound, Zenon
    <3> QED
      BY <2>5, <3>1, <3>3, Zenon
  <2>12. CASE b = 0 /\ v.kind \notin FinalKinds /\ v = PromiseObj(p)
    <3>1. Resolve(U, p, b, v) = FulfillOrReject(U, p, SelfError, 1)
      BY <2>12 DEF Resolve, FinalKinds
    <3>2. MaySettle(U, p, SelfError, 1) /\ 1 \in 0..1
      BY <2>10, <2>12
    <3>3. Sound(FulfillOrReject(U, p, SelfError, 1), R, W \ {f}, H)
      BY <2>2, <2>3, <2>9, <3>2, FulfillOrRejectSound, ZenonT(30)
    <3> QED
      BY <2>5, <3>1, <3>3, Zenon
  <2>13. CASE b = 0 /\ v.kind \notin FinalKinds /\ v # PromiseObj(p) /\ v.kind = "poisoned"
    <3>1. Resolve(U, p, b, v) = FulfillOrReject(U, p, ThenError, 1)
      BY <2>13 DEF Resolve, FinalKinds
    <3>2. MaySettle(U, p, ThenError, 1) /\ 1 \in 0..1
      BY <2>10, <2>13
    <3>3. Sound(FulfillOrReject(U, p, ThenError, 1), R, W \ {f}, H)
      BY <2>2, <2>3, <2>9, <3>2, FulfillOrRejectSound, Zenon
    <3> QED
      BY <2>5, <3>1, <3>3, Zenon
  <2>14. CASE b = 0 /\ v.kind \notin FinalKinds /\ v # PromiseObj(p) /\ v.kind # "poisoned"
    <3>1. Chains(v)
      BY <2>14 DEF Chains, FinalKinds, ValOf, Val
    <3>2. p \in 1..Len(U.promise)
      BY <2>2 DEF GoodBut
    <3>3. Defers(U, Resolve(U, p, 0, v), p, v)
      BY <2>4, <2>9, <2>14, <3>1, <3>2, ResolveDefers, ZenonT(30)
    <3>4. Sound(Resolve(U, p, 0, v), R, W \ {f}, H)
      BY <2>2, <2>3, <2>9, <3>1, <3>3, DefersSound, Zenon
    <3> QED
      BY <2>5, <2>14, <3>4, Zenon
  <2> QED
    BY <2>11, <2>12, <2>13, <2>14
<1> QED
  BY <1>1, <1>2

-----------------------------------------------------------------------------
(* New pairs and promises                                                  *)

\* A new pair for the promise p whose right was taken.  A pair that script code
\* gets is for a promise that follows no other.
LEMMA AddsPairSound ==
  ASSUME NEW S, NEW T, NEW p, GoodBut(S, p), NEW R, NEW W, NEW H, Sound(S, R, W, H),
         NEW held \in BOOLEAN, AddsPair(S, T, p, held),
         held => S.promise[p].follows = 0
  PROVE  /\ Sound(T, R \cap (1..Len(S.func)), W \cup {Len(S.func) + 1}, H)
         /\ Unresolved(T, Len(S.func) + 1)
         /\ T.promise[T.func[Len(S.func) + 1].promise].follows = S.promise[p].follows
<1> DEFINE np == Len(S.promise)
           nf == Len(S.func)
<1>0. /\ WellFormed(S) /\ p \in 1..np /\ nf \in Nat
      /\ \A f \in 1..nf : S.func[f].promise \in 1..np
  BY Parts DEF GoodBut
<1>1. /\ T.promise = S.promise /\ T.job_list = S.job_list
      /\ Len(T.func) = nf + 1
      /\ \A g \in 1..nf : T.func[g] = S.func[g]
      /\ T.func[nf + 1].promise = p /\ Unresolved(T, nf + 1)
      /\ T.func[nf + 1].held = held
  BY DEF AddsPair, Unresolved
<1> HIDE DEF nf
<1>2. KeepsFollows(S, T)
  BY <1>0, <1>1, Zenon DEF KeepsFollows, Unresolved, nf
<1>3. ListsOrdered(T) /\ JobsOrdered(T) /\ JobsFaithful(T) /\ Final(T) /\ Agree(T)
  BY <1>1, ZenonT(30) DEF Sound, ListsOrdered, JobsOrdered, JobsFaithful, Final, Agree, IsReactionJob
<1>4. ListRoles(T)
  <2>1. \A q \in 1..Len(S.promise), b \in 0..1 :
          \A i \in 1..Len(S.promise[q].reactions[b]) :
            S.promise[q].reactions[b][i] \in Reaction(Len(S.func))
    BY <1>0, Parts, ZenonT(30)
  <2>2. ListRoles(S) /\ T.promise = S.promise
    BY <1>1, Zenon DEF Sound
  <2>3. ASSUME NEW q \in 1..Len(S.promise), NEW b \in 0..1,
               NEW i \in 1..Len(S.promise[q].reactions[b])
        PROVE  RoleOK(T, q, b, S.promise[q].reactions[b][i])
    <3> DEFINE x == S.promise[q].reactions[b][i]
    <3>1. x \in Reaction(Len(S.func)) /\ RoleOK(S, q, b, x)
      BY <2>1, <2>2, Zenon DEF ListRoles
    <3> HIDE DEF x
    <3>2. RoleOK(T, q, b, x)
      BY <1>2, <3>1, RolesKept, Zenon
    <3> QED
      BY <3>2, Zenon DEF x
  <2> QED
    BY <2>2, <2>3, Zenon DEF ListRoles
<1>5. JobRoles(T)
  <2>1. \A i \in 1..Len(S.job_list) :
          IsReactionJob(S, i) => S.job_list[i].rd \in Reaction(Len(S.func))
    BY <1>0, Parts
  <2> QED
    BY <1>1, <1>2, <2>1, RolesKept, ZenonT(30) DEF Sound, JobRoles, IsReactionJob, IsThenableJob
<1>6. PairRoles(T, R \cap (1..nf))
  <2>1. ASSUME NEW f \in 1..Len(T.func), T.func[f].held \/ f \in R \cap (1..nf)
        PROVE  Free(T, f)
    <3>1. CASE f \in 1..nf
      BY <1>1, <1>2, <2>1, <3>1, RolesKept, ZenonT(30) DEF Sound, PairRoles, nf
    <3>2. CASE f = nf + 1
      <4>1. held
        BY <1>0, <1>1, <2>1, <3>2
      <4> QED
        BY <1>1, <3>2, <4>1, Zenon DEF Free
    <3> QED
      BY <1>0, <1>1, <3>1, <3>2, SMTT(30)
  <2> QED
    BY <2>1 DEF PairRoles
<1>7. Served(T, W \cup {nf + 1})
  <2>1. \A f : Waits(S, f) => Waits(T, f)
    BY <1>1, ZenonT(30) DEF Waits
  <2>2. \A f \in 1..Len(T.func) : f \in 1..nf \/ f = nf + 1
    BY <1>0, <1>1
  <2> QED
    BY <1>1, <2>1, <2>2, Zenon DEF Sound, Served, Unresolved, nf
<1>8. HeldPairs(T, H)
  <2>1. \A f \in 1..nf : f \in 1..Len(T.func)
    BY <1>0, <1>1
  <2> QED
    BY <1>1, <2>1 DEF Sound, HeldPairs, nf
<1> QED
  BY <1>1, <1>3, <1>4, <1>5, <1>6, <1>7, <1>8, ZenonT(30) DEF Sound, nf

\* A new promise has no reactions and follows no other; its pair is free.
LEMMA AddsPromiseSound ==
  ASSUME NEW S, NEW T, WellFormed(S), NEW R, NEW W, NEW H, Sound(S, R, W, H),
         NEW held \in BOOLEAN, AddsPromise(S, T, held)
  PROVE  /\ Sound(T, (R \cap (1..Len(S.func))) \cup {Len(S.func) + 1},
                  W \cup {Len(S.func) + 1}, H)
         /\ KeepsFollows(S, T)
<1> DEFINE np == Len(S.promise)
           nf == Len(S.func)
<1>0. /\ np \in Nat /\ nf \in Nat
      /\ \A f \in 1..nf : S.func[f].promise \in 1..np
      /\ \A q \in 1..np : S.promise[q].follows \in 0..np
      /\ \A i \in 1..Len(S.job_list) : S.job_list[i].promise \in 1..np
  BY Parts, Zenon
<1>1. /\ T.job_list = S.job_list
      /\ Len(T.promise) = np + 1
      /\ \A q \in 1..np : T.promise[q] = S.promise[q]
      /\ T.promise[np + 1].state = "pending"
      /\ T.promise[np + 1].reactions = NoReactions
      /\ T.promise[np + 1].follows = 0
      /\ Len(T.func) = nf + 1
      /\ \A g \in 1..nf : T.func[g] = S.func[g]
      /\ T.func[nf + 1].promise = np + 1
      /\ T.func[nf + 1].held = held
  BY DEF AddsPromise
<1> HIDE DEF np, nf
<1>2. KeepsFollows(S, T)
  BY <1>0, <1>1, ZenonT(30) DEF KeepsFollows, Unresolved, nf
<1>3. \A q \in 1..Len(T.promise) : q \in 1..np \/ q = np + 1
  BY <1>0, <1>1
<1>4. \A b \in 0..1 : T.promise[np + 1].reactions[b] = <<>> /\ Len(T.promise[np + 1].reactions[b]) = 0
  BY <1>1 DEF NoReactions
<1>5. \A q \in 1..Len(T.promise), b \in 0..1 :
        \A i \in 1..Len(T.promise[q].reactions[b]) : q \in 1..np /\ T.promise[q] = S.promise[q]
  BY <1>1, <1>3, <1>4
<1>6. ListsOrdered(T)
  BY <1>5, Zenon DEF Sound, ListsOrdered, np
<1>7. JobsOrdered(T) /\ JobsFaithful(T)
  <2>1. JobsOrdered(T)
    BY <1>1 DEF Sound, JobsOrdered, IsReactionJob
  <2>2. \A i \in 1..Len(S.job_list) :
          T.promise[S.job_list[i].promise] = S.promise[S.job_list[i].promise]
    BY <1>0, <1>1, Zenon
  <2>3. JobsFaithful(S) /\ T.job_list = S.job_list
    BY <1>1, ZenonT(30) DEF Sound
  <2>4. JobsFaithful(T)
    BY <2>2, <2>3 DEF JobsFaithful, IsReactionJob
  <2> QED
    BY <2>1, <2>4
<1>8. Final(T)
  BY <1>1, <1>3, Zenon DEF Sound, Final, np
<1>9. Agree(T)
  <2>1. ASSUME NEW q \in 1..Len(T.promise), T.promise[q].follows # 0,
               T.promise[q].state # "pending"
        PROVE  /\ T.promise[q].state = T.promise[T.promise[q].follows].state
               /\ T.promise[q].result = T.promise[T.promise[q].follows].result
    <3>1. q \in 1..np /\ T.promise[q] = S.promise[q]
      BY <1>1, <1>3, <2>1, Zenon
    <3>2. S.promise[q].follows \in 1..np
      <4>1. S.promise[q].follows \in 0..np /\ S.promise[q].follows # 0
        BY <1>0, <2>1, <3>1, Zenon
      <4> QED
        BY <1>0, <4>1
    <3>3. /\ S.promise[q].state = S.promise[S.promise[q].follows].state
          /\ S.promise[q].result = S.promise[S.promise[q].follows].result
      BY <2>1, <3>1, Zenon DEF Sound, Agree, np
    <3> QED
      BY <1>1, <3>1, <3>2, <3>3, Zenon
  <2> QED
    BY <2>1, Zenon DEF Agree
<1>10. ListRoles(T)
  <2>1. \A q \in 1..np, b \in 0..1 :
          \A i \in 1..Len(S.promise[q].reactions[b]) :
            S.promise[q].reactions[b][i] \in Reaction(Len(S.func))
    BY Parts, Zenon DEF np
  <2> QED
    BY <1>2, <1>5, <2>1, RolesKept, ZenonT(30) DEF Sound, ListRoles, np
<1>11. JobRoles(T)
  <2>1. \A i \in 1..Len(S.job_list) :
          IsReactionJob(S, i) => S.job_list[i].rd \in Reaction(Len(S.func))
    BY Parts
  <2>2. \A i \in 1..Len(S.job_list) :
          T.promise[S.job_list[i].promise] = S.promise[S.job_list[i].promise]
    BY <1>0, <1>1, Zenon
  <2>3. JobRoles(S) /\ T.job_list = S.job_list
    BY <1>1, Zenon DEF Sound
  <2>4. ASSUME NEW i \in 1..Len(S.job_list), IsReactionJob(S, i)
        PROVE  RoleOK(T, S.job_list[i].promise, S.job_list[i].is_reject, S.job_list[i].rd)
    <3>1. RoleOK(S, S.job_list[i].promise, S.job_list[i].is_reject, S.job_list[i].rd)
      BY <2>3, <2>4, Zenon DEF JobRoles
    <3> QED
      BY <1>2, <2>1, <2>4, <3>1, RolesKept, Zenon
  <2> QED
    BY <2>2, <2>3, <2>4, Zenon DEF JobRoles, IsReactionJob, IsThenableJob
<1>12. PairRoles(T, (R \cap (1..nf)) \cup {nf + 1})
  <2>1. ASSUME NEW f \in 1..Len(T.func), T.func[f].held \/ f \in (R \cap (1..nf)) \cup {nf + 1}
        PROVE  Free(T, f)
    <3>1. CASE f \in 1..nf
      <4>1. f # nf + 1
        BY <1>0, <3>1
      <4> QED
        BY <1>1, <1>2, <2>1, <3>1, <4>1, RolesKept, Zenon DEF Sound, PairRoles, nf
    <3>2. CASE f = nf + 1
      BY <1>1, <3>2, Zenon DEF Free
    <3> QED
      BY <1>0, <1>1, <3>1, <3>2
  <2> QED
    BY <2>1 DEF PairRoles
<1>13. Served(T, W \cup {nf + 1})
  <2>1. ASSUME NEW f, Waits(S, f) PROVE Waits(T, f)
    <3>1. ASSUME NEW r \in 1..np, S.promise[r].state = "pending",
                 \A c \in 0..1 : \E i \in 1..Len(S.promise[r].reactions[c]) :
                   Holds(S.promise[r].reactions[c][i], f)
          PROVE  Waits(T, f)
      <4>1. r \in 1..Len(T.promise) /\ T.promise[r] = S.promise[r]
        BY <1>0, <1>1
      <4> QED
        BY <3>1, <4>1, Zenon DEF Waits
    <3> QED
      BY <1>1, <2>1, <3>1, ZenonT(30) DEF Waits, np
  <2>2. \A f \in 1..Len(T.func) : f \in 1..nf \/ f = nf + 1
    BY <1>0, <1>1
  <2> QED
    BY <1>1, <2>1, <2>2, Zenon DEF Sound, Served, Unresolved, nf
<1>14. HeldPairs(T, H)
  <2>1. \A f \in 1..nf : f \in 1..Len(T.func)
    BY <1>0, <1>1
  <2> QED
    BY <1>1, <2>1, Zenon DEF Sound, HeldPairs, nf
<1> QED
  BY <1>2, <1>6, <1>7, <1>8, <1>9, <1>10, <1>11, <1>12, <1>13, <1>14, Zenon DEF Sound, nf

-----------------------------------------------------------------------------
(* Registering reactions                                                   *)

\* fn is newer than every capability that is registered or queued.
Newest(S, fn) ==
  fn # 0 =>
    /\ \A q \in 1..Len(S.promise), b \in 0..1 :
         \A i \in 1..Len(S.promise[q].reactions[b]) : S.promise[q].reactions[b][i].fn < fn
    /\ \A i \in 1..Len(S.job_list) : S.job_list[i].rd.fn < fn

\* The two reactions that are registered have their roles.
GoodReactions(S, p, handlers, fn) ==
  /\ HandlersFor(Len(S.func), handlers, fn)
  /\ \A b \in 0..1 : RoleOK(S, p, b, [fn |-> fn, handler |-> handlers[b]])

\* The pairs that need nothing else to serve them once they are registered.
Registered(W, V, handlers, fn) ==
  \A f \in W \ V : f = fn \/ \A b \in 0..1 : handlers[b].fn = f

\* perform_promise_then on a pending promise.
LEMMA RegistersSound ==
  ASSUME NEW S, NEW T, WellFormed(S), NEW p \in 1..Len(S.promise), NEW handlers, NEW fn,
         NEW R, NEW W, NEW H, Sound(S, R, W, H), NEW V, Registered(W, V, handlers, fn),
         Newest(S, fn), GoodReactions(S, p, handlers, fn),
         S.promise[p].state = "pending", Registers(S, T, p, handlers, fn)
  PROVE  Sound(T, R, V, H)
<1> DEFINE np == Len(S.promise)
           nf == Len(S.func)
           l(b) == S.promise[p].reactions[b]
           rd(b) == [fn |-> fn, handler |-> handlers[b]]
<1>0. /\ np \in Nat /\ nf \in Nat
      /\ \A f \in 1..nf : S.func[f].promise \in 1..np
      /\ \A q \in 1..np : S.promise[q].follows \in 0..np
      /\ \A i \in 1..Len(S.job_list) : S.job_list[i].promise \in 1..np
  BY Parts, Zenon
<1>1. /\ T.func = S.func /\ T.job_list = S.job_list /\ Len(T.promise) = np
      /\ \A q \in 1..np : q # p => T.promise[q] = S.promise[q]
      /\ T.promise[p].state = "pending"
      /\ T.promise[p].follows = S.promise[p].follows
  BY DEF Registers
<1>2. \A b \in 0..1 : rd(b) \in Reaction(nf) /\ rd(b).fn = fn /\ rd(b).handler = handlers[b]
  BY DEF GoodReactions, HandlersFor
<1>3. ASSUME NEW b \in 0..1
      PROVE  /\ l(b) \in Seq(Reaction(nf)) /\ Len(l(b)) \in Nat
             /\ Len(T.promise[p].reactions[b]) = Len(l(b)) + 1
             /\ \A i \in 1..Len(l(b)) : T.promise[p].reactions[b][i] = l(b)[i]
             /\ T.promise[p].reactions[b][Len(l(b)) + 1] = rd(b)
  <2>1. T.promise[p].reactions[b] = Append(l(b), rd(b))
    BY Zenon DEF Registers
  <2>2. l(b) \in Seq(Reaction(nf)) /\ Len(l(b)) \in Nat /\ rd(b) \in Reaction(nf)
    BY <1>2, Parts, Zenon
  <2> HIDE DEF l, rd
  <2> QED
    BY <2>1, <2>2, AppendProperties, SMTT(30)
<1> HIDE DEF l, rd, np, nf
<1>4. \A b \in 0..1 : \A i \in 1..Len(T.promise[p].reactions[b]) :
        \/ i \in 1..Len(l(b)) /\ T.promise[p].reactions[b][i] = l(b)[i]
        \/ i = Len(l(b)) + 1 /\ T.promise[p].reactions[b][i] = rd(b)
  <2>1. ASSUME NEW b \in 0..1, NEW i \in 1..Len(T.promise[p].reactions[b])
        PROVE  \/ i \in 1..Len(l(b)) /\ T.promise[p].reactions[b][i] = l(b)[i]
               \/ i = Len(l(b)) + 1 /\ T.promise[p].reactions[b][i] = rd(b)
    <3>1. Len(l(b)) \in Nat /\ Len(T.promise[p].reactions[b]) = Len(l(b)) + 1
      BY <1>3, Zenon
    <3>2. i \in 1..Len(l(b)) \/ i = Len(l(b)) + 1
      BY <3>1
    <3> QED
      BY <1>3, <3>2, Zenon
  <2> QED
    BY <2>1, Zenon
<1>5. ListsOrdered(T)
  <2>1. ASSUME NEW q \in 1..np, NEW c \in 0..1,
               NEW i \in 1..Len(T.promise[q].reactions[c]),
               NEW j \in 1..Len(T.promise[q].reactions[c]), i < j
        PROVE  InOrder(T.promise[q].reactions[c][i], T.promise[q].reactions[c][j])
    <3>1. CASE q # p
      BY <1>1, <2>1, <3>1, ZenonT(30) DEF Sound, ListsOrdered, np
    <3>2. CASE q = p
      <4>1. i \in 1..Len(l(c)) /\ T.promise[q].reactions[c][i] = l(c)[i]
        <5>1. Len(T.promise[q].reactions[c]) = Len(l(c)) + 1 /\ Len(l(c)) \in Nat
          BY <1>3, <3>2, Zenon
        <5> DEFINE m == Len(l(c))
        <5> HIDE DEF m
        <5>3. i \in 1..(m + 1) /\ j \in 1..(m + 1) /\ i < j /\ m \in Nat
          BY <2>1, <5>1, Zenon DEF m
        <5>4. i \in 1..m
          BY <5>3
        <5>2. i \in 1..Len(l(c))
          BY <5>4, Zenon DEF m
        <5> QED
          BY <1>3, <3>2, <5>2, Zenon
      <4>2. CASE j \in 1..Len(l(c))
        <5>1. T.promise[q].reactions[c][j] = l(c)[j]
          BY <1>3, <3>2, <4>2, Zenon
        <5>2. InOrder(l(c)[i], l(c)[j])
          BY <2>1, <4>1, <4>2, ZenonT(30) DEF Sound, ListsOrdered, l
        <5> QED
          BY <4>1, <5>1, <5>2
      <4>3. CASE j \notin 1..Len(l(c))
        <5>1. T.promise[q].reactions[c][j] = rd(c)
          BY <1>4, <3>2, <4>3, Zenon
        <5>2. fn # 0 => l(c)[i].fn < fn
          BY <4>1, Zenon DEF Newest, l
        <5> QED
          BY <1>2, <4>1, <5>1, <5>2, Zenon DEF InOrder
      <4> QED
        BY <4>2, <4>3
    <3> QED
      BY <3>1, <3>2
  <2> QED
    BY <1>1, <2>1, ZenonT(30) DEF ListsOrdered
<1>6. \A q \in 1..np : /\ T.promise[q].state = S.promise[q].state
                       /\ T.promise[q].follows = S.promise[q].follows
                       /\ S.promise[q].state # "pending" => T.promise[q] = S.promise[q]
  BY <1>1
<1>7. JobsOrdered(T)
  BY <1>1, Zenon DEF Sound, JobsOrdered, IsReactionJob
<1>8. JobsFaithful(T)
  <2>1. \A i \in 1..Len(S.job_list) : IsReactionJob(S, i) =>
          T.promise[S.job_list[i].promise] = S.promise[S.job_list[i].promise]
    <3>1. \A i \in 1..Len(S.job_list) : IsReactionJob(S, i) =>
            S.promise[S.job_list[i].promise].state = SettledState(S.job_list[i].is_reject)
      BY DEF Sound, JobsFaithful
    <3> QED
      BY <1>0, <1>6, <3>1, Zenon DEF SettledState
  <2>2. JobsFaithful(S)
    BY DEF Sound
  <2>3. T.job_list = S.job_list
    BY <1>1
  <2>4. ASSUME NEW i \in 1..Len(S.job_list), IsReactionJob(S, i)
        PROVE  /\ T.promise[S.job_list[i].promise].state = SettledState(S.job_list[i].is_reject)
               /\ T.promise[S.job_list[i].promise].result = S.job_list[i].arg
    <3>1. T.promise[S.job_list[i].promise] = S.promise[S.job_list[i].promise]
      BY <2>1, <2>4, Zenon
    <3>2. /\ S.promise[S.job_list[i].promise].state = SettledState(S.job_list[i].is_reject)
          /\ S.promise[S.job_list[i].promise].result = S.job_list[i].arg
      BY <2>2, <2>4, Zenon DEF JobsFaithful
    <3> QED
      BY <3>1, <3>2, Zenon
  <2> QED
    BY <2>3, <2>4, Zenon DEF JobsFaithful, IsReactionJob
<1>9. Final(T)
  BY <1>1, <1>6, Zenon DEF Sound, Final, np
<1>10. Agree(T)
  <2>1. ASSUME NEW q \in 1..np, T.promise[q].follows # 0, T.promise[q].state # "pending"
        PROVE  /\ T.promise[q].state = T.promise[T.promise[q].follows].state
               /\ T.promise[q].result = T.promise[T.promise[q].follows].result
    <3>1. T.promise[q] = S.promise[q]
      BY <1>6, <2>1, Zenon
    <3>2. S.promise[q].follows \in 1..np
      <4>1. S.promise[q].follows \in 0..np /\ S.promise[q].follows # 0
        BY <1>0, <2>1, <3>1, Zenon
      <4> QED
        BY <1>0, <4>1
    <3>3. /\ S.promise[q].state = S.promise[S.promise[q].follows].state
          /\ S.promise[q].result = S.promise[S.promise[q].follows].result
      BY <2>1, <3>1, Zenon DEF Sound, Agree, np
    <3>4. T.promise[S.promise[q].follows] = S.promise[S.promise[q].follows]
      BY <1>6, <2>1, <3>1, <3>2, <3>3, Zenon
    <3> QED
      BY <3>1, <3>3, <3>4, Zenon
  <2> QED
    BY <1>1, <2>1, Zenon DEF Agree
<1>11. KeepsFollows(S, T)
  BY <1>0, <1>1, <1>6, Zenon DEF KeepsFollows, Unresolved, nf
<1>12. ListRoles(T)
  <2>1. ASSUME NEW q \in 1..np, NEW c \in 0..1, NEW i \in 1..Len(T.promise[q].reactions[c])
        PROVE  RoleOK(T, q, c, T.promise[q].reactions[c][i])
    <3>1. \A r \in 1..np : \A k \in 1..Len(S.promise[r].reactions[c]) :
            RoleOK(T, r, c, S.promise[r].reactions[c][k])
      <4> TAKE r \in 1..np
      <4> TAKE k \in 1..Len(S.promise[r].reactions[c])
      <4> DEFINE x == S.promise[r].reactions[c][k]
      <4>1. x \in Reaction(Len(S.func)) /\ RoleOK(S, r, c, x)
        BY Parts, Zenon DEF Sound, ListRoles, np
      <4> HIDE DEF x
      <4>2. RoleOK(T, r, c, x)
        BY <1>11, <4>1, RolesKept, Zenon
      <4> QED
        BY <4>2, Zenon DEF x
    <3>2. CASE q # p
      BY <1>1, <3>1, <3>2, Zenon
    <3>3. CASE q = p /\ i \in 1..Len(l(c))
      BY <1>3, <3>1, <3>3, ZenonT(30) DEF l
    <3>4. CASE q = p /\ i \notin 1..Len(l(c))
      <4>1. T.promise[q].reactions[c][i] = rd(c)
        BY <1>4, <3>4, Zenon
      <4>2. RoleOK(S, p, c, rd(c)) /\ rd(c) \in Reaction(Len(S.func))
        BY <1>2 DEF GoodReactions, rd, nf
      <4>3. RoleOK(T, p, c, rd(c))
        BY <1>11, <4>2, RolesKept, Zenon
      <4> QED
        BY <3>4, <4>1, <4>3, Zenon
    <3> QED
      BY <3>2, <3>3, <3>4
  <2> QED
    BY <1>1, <2>1, Zenon DEF ListRoles
<1>13. JobRoles(T)
  <2>1. \A i \in 1..Len(S.job_list) :
          IsReactionJob(S, i) => S.job_list[i].rd \in Reaction(Len(S.func))
    BY Parts
  <2>2. \A i \in 1..Len(S.job_list) :
          T.promise[S.job_list[i].promise].follows = S.promise[S.job_list[i].promise].follows
    BY <1>0, <1>6, Zenon
  <2>3. JobRoles(S) /\ T.job_list = S.job_list
    BY <1>1, Zenon DEF Sound
  <2>4. ASSUME NEW i \in 1..Len(S.job_list), IsReactionJob(S, i)
        PROVE  RoleOK(T, S.job_list[i].promise, S.job_list[i].is_reject, S.job_list[i].rd)
    <3>1. RoleOK(S, S.job_list[i].promise, S.job_list[i].is_reject, S.job_list[i].rd)
      BY <2>3, <2>4, Zenon DEF JobRoles
    <3> QED
      BY <1>11, <2>1, <2>4, <3>1, RolesKept, Zenon
  <2> QED
    BY <2>2, <2>3, <2>4, Zenon DEF JobRoles, IsReactionJob, IsThenableJob
<1>14. PairRoles(T, R)
  BY <1>1, <1>11, RolesKept, Zenon DEF Sound, PairRoles
<1>15. Served(T, V)
  <2>1. ASSUME NEW f, Waits(S, f) PROVE Waits(T, f)
    <3>1. ASSUME NEW r \in 1..np, S.promise[r].state = "pending",
                 \A c \in 0..1 : \E i \in 1..Len(S.promise[r].reactions[c]) :
                   Holds(S.promise[r].reactions[c][i], f)
          PROVE  Waits(T, f)
      <4>1. CASE r # p
        <5>1. r \in 1..Len(T.promise) /\ T.promise[r] = S.promise[r]
          BY <1>1, <4>1
        <5> QED
          BY <3>1, <5>1, Zenon DEF Waits
      <4>2. CASE r = p
        <5>1. \A c \in 0..1 : \E i \in 1..Len(l(c)) : Holds(l(c)[i], f)
          BY <3>1, <4>2, Zenon DEF l
        <5>2. ASSUME NEW c \in 0..1
              PROVE  \E i \in 1..Len(T.promise[p].reactions[c]) :
                       Holds(T.promise[p].reactions[c][i], f)
          <6>1. PICK i \in 1..Len(l(c)) : Holds(l(c)[i], f)
            BY <5>1
          <6>0. Len(l(c)) \in Nat /\ Len(T.promise[p].reactions[c]) = Len(l(c)) + 1
            BY <1>3, Zenon
          <6>2. i \in 1..Len(T.promise[p].reactions[c])
            BY <6>0
          <6>3. T.promise[p].reactions[c][i] = l(c)[i]
            BY <1>3, Zenon
          <6> QED
            BY <6>1, <6>2, <6>3, Zenon
        <5>3. p \in 1..Len(T.promise) /\ T.promise[p].state = "pending"
          BY <1>1, Zenon DEF np
        <5> QED
          BY <5>2, <5>3, Zenon DEF Waits
      <4> QED
        BY <4>1, <4>2, Zenon
    <3> QED
      BY <1>1, <2>1, <3>1, Zenon DEF Waits, np
  <2>2. ASSUME NEW f, f = fn \/ \A b \in 0..1 : handlers[b].fn = f PROVE Waits(T, f)
    <3>1. \A b \in 0..1 : Holds(rd(b), f)
      BY <1>2, <2>2 DEF Holds
    <3>2. \A b \in 0..1 : \E i \in 1..Len(T.promise[p].reactions[b]) :
            Holds(T.promise[p].reactions[b][i], f)
      <4>1. ASSUME NEW b \in 0..1
            PROVE  \E i \in 1..Len(T.promise[p].reactions[b]) :
                     Holds(T.promise[p].reactions[b][i], f)
        <5>1. Len(l(b)) \in Nat /\ Len(T.promise[p].reactions[b]) = Len(l(b)) + 1
          BY <1>3, Zenon
        <5>2. Len(l(b)) + 1 \in 1..Len(T.promise[p].reactions[b])
          BY <5>1
        <5> QED
          BY <1>3, <3>1, <5>2, Zenon
      <4> QED
        BY <4>1, Zenon
    <3>3. p \in 1..Len(T.promise) /\ T.promise[p].state = "pending"
      BY <1>1, Zenon DEF np
    <3> QED
      BY <3>2, <3>3, Zenon DEF Waits
  <2> QED
    BY <1>1, <2>1, <2>2, Zenon DEF Sound, Served, Unresolved, Registered
<1>16. HeldPairs(T, H)
  BY <1>1 DEF Sound, HeldPairs
<1> QED
  BY <1>5, <1>7, <1>8, <1>9, <1>10, <1>12, <1>13, <1>14, <1>15, <1>16, Zenon DEF Sound

\* perform_promise_then on a settled promise.
LEMMA QueuesSound ==
  ASSUME NEW S, NEW T, WellFormed(S), NEW p \in 1..Len(S.promise), NEW handlers, NEW fn,
         NEW R, NEW W, NEW H, Sound(S, R, W, H), NEW V, Registered(W, V, handlers, fn),
         Newest(S, fn), GoodReactions(S, p, handlers, fn), Queues(S, T, p, handlers, fn)
  PROVE  Sound(T, R, V, H)
<1> DEFINE np == Len(S.promise)
           nf == Len(S.func)
           n == Len(S.job_list)
<1>0. /\ n \in Nat /\ nf \in Nat
      /\ \A i \in 1..n : IsReactionJob(S, i) => S.job_list[i].rd \in Reaction(nf)
  BY Parts
<1>1. PICK b \in 0..1 :
        /\ S.promise[p].state = SettledState(b)
        /\ T.job_list = Append(S.job_list,
             ReactionJob(p, [fn |-> fn, handler |-> handlers[b]], b, S.promise[p].result))
  BY DEF Queues, SettledState
<1> DEFINE rd == [fn |-> fn, handler |-> handlers[b]]
           job == ReactionJob(p, rd, b, S.promise[p].result)
<1>2. T.func = S.func /\ T.promise = S.promise /\ WellFormed(T)
  BY DEF Queues
<1>3. /\ job.kind = "reaction" /\ job.promise = p /\ job.rd = rd /\ job.is_reject = b
      /\ job.arg = S.promise[p].result /\ rd.fn = fn /\ rd.handler = handlers[b]
  BY DEF ReactionJob
<1>4. rd \in Reaction(nf) /\ RoleOK(S, p, b, rd)
  BY DEF GoodReactions, HandlersFor
<1> HIDE DEF job
<1>5. /\ Len(T.job_list) = n + 1
      /\ \A i \in 1..n : T.job_list[i] = S.job_list[i]
      /\ T.job_list[n + 1] = job
  <2>1. S.job_list \in Seq(Job(np, nf) \cup {job})
    BY SeqMonotonic DEF WellFormed
  <2>2. T.job_list = Append(S.job_list, job)
    BY <1>1 DEF job
  <2> QED
    BY <2>1, <2>2, AppendProperties
<1> HIDE DEF rd, n, np, nf
<1>6. \A i \in 1..Len(T.job_list) :
        \/ i \in 1..n /\ T.job_list[i] = S.job_list[i]
        \/ i = n + 1 /\ T.job_list[i] = job
  <2> TAKE i \in 1..Len(T.job_list)
  <2>0. n \in Nat /\ Len(T.job_list) = n + 1
    BY <1>0, <1>5, Zenon
  <2>2. \A m \in Nat : \A x \in 1..(m + 1) : x \in 1..m \/ x = m + 1
    OBVIOUS
  <2>1. i \in 1..n \/ i = n + 1
    BY <2>0, <2>2, Zenon
  <2> QED
    BY <1>5, <2>1
<1>7. ListsOrdered(T) /\ Final(T) /\ Agree(T)
  BY <1>2 DEF Sound, ListsOrdered, Final, Agree
<1>8. JobsOrdered(T)
  <2>1. ASSUME NEW i \in 1..Len(T.job_list), NEW j \in 1..Len(T.job_list), i < j,
               IsReactionJob(T, i), IsReactionJob(T, j),
               T.job_list[i].promise = T.job_list[j].promise
        PROVE  InOrder(T.job_list[i].rd, T.job_list[j].rd)
    <3>1. i \in 1..n /\ T.job_list[i] = S.job_list[i]
      <4>1. j <= n + 1 /\ i \in Nat /\ j \in Nat /\ 1 <= i
        BY <1>0, <1>5
      <4>2. i \in 1..n
        BY <1>0, <2>1, <4>1
      <4> QED
        BY <1>5, <4>2, Zenon
    <3>2. CASE j \in 1..n
      BY <1>5, <2>1, <3>1, <3>2, Zenon DEF Sound, JobsOrdered, IsReactionJob, n
    <3>3. CASE j \notin 1..n
      <4>1. T.job_list[j].rd = rd
        BY <1>3, <1>6, <3>3, ZenonT(30)
      <4>2. fn # 0 => S.job_list[i].rd.fn < fn
        BY <3>1, SMTT(30) DEF Newest, n
      <4> QED
        BY <1>3, <3>1, <4>1, <4>2, Zenon DEF InOrder
    <3> QED
      BY <3>2, <3>3
  <2> QED
    BY <2>1 DEF JobsOrdered
<1>9. JobsFaithful(T)
  <2>1. JobsFaithful(S)
    BY DEF Sound
  <2> QED
    BY <1>1, <1>2, <1>3, <1>6, <2>1, ZenonT(30) DEF JobsFaithful, IsReactionJob, n
<1>10. KeepsFollows(S, T)
  BY <1>0, <1>2, Zenon DEF KeepsFollows, Unresolved, nf
<1>11. ListRoles(T)
  <2>1. \A q \in 1..Len(S.promise), c \in 0..1 :
          \A i \in 1..Len(S.promise[q].reactions[c]) :
            S.promise[q].reactions[c][i] \in Reaction(Len(S.func))
    BY Parts, Zenon
  <2>2. ListRoles(S) /\ T.promise = S.promise
    BY <1>2, Zenon DEF Sound
  <2>3. ASSUME NEW q \in 1..Len(S.promise), NEW c \in 0..1,
               NEW i \in 1..Len(S.promise[q].reactions[c])
        PROVE  RoleOK(T, q, c, S.promise[q].reactions[c][i])
    <3> DEFINE x == S.promise[q].reactions[c][i]
    <3>1. x \in Reaction(Len(S.func)) /\ RoleOK(S, q, c, x)
      BY <2>1, <2>2, Zenon DEF ListRoles
    <3> HIDE DEF x
    <3>2. RoleOK(T, q, c, x)
      BY <1>10, <3>1, RolesKept, Zenon
    <3> QED
      BY <3>2, Zenon DEF x
  <2> QED
    BY <2>2, <2>3, Zenon DEF ListRoles
<1>12. JobRoles(T)
  <2>1. ASSUME NEW i \in 1..n
        PROVE  /\ IsReactionJob(T, i) =>
                    RoleOK(T, T.job_list[i].promise, T.job_list[i].is_reject, T.job_list[i].rd)
               /\ IsThenableJob(T, i) => T.promise[T.job_list[i].promise].follows =
                    IF T.job_list[i].arg.kind = "promise" THEN T.job_list[i].arg.ref ELSE 0
    <3>1. T.job_list[i] = S.job_list[i] /\ i \in 1..Len(S.job_list)
      BY <1>5, Zenon DEF n
    <3>2. /\ IsReactionJob(S, i) =>
               RoleOK(S, S.job_list[i].promise, S.job_list[i].is_reject, S.job_list[i].rd)
          /\ IsThenableJob(S, i) => S.promise[S.job_list[i].promise].follows =
               IF S.job_list[i].arg.kind = "promise" THEN S.job_list[i].arg.ref ELSE 0
      BY <3>1, Zenon DEF Sound, JobRoles
    <3>3. IsReactionJob(S, i) =>
               RoleOK(T, S.job_list[i].promise, S.job_list[i].is_reject, S.job_list[i].rd)
      BY <1>0, <1>10, <3>2, RolesKept, Zenon DEF nf
    <3> QED
      BY <1>2, <3>1, <3>2, <3>3, Zenon DEF IsReactionJob, IsThenableJob
  <2>2. RoleOK(T, p, b, rd)
    BY <1>4, <1>10, RolesKept, Zenon DEF nf
  <2>3. ASSUME NEW i \in 1..Len(T.job_list), i \notin 1..n
        PROVE  /\ IsReactionJob(T, i) /\ ~IsThenableJob(T, i)
               /\ RoleOK(T, T.job_list[i].promise, T.job_list[i].is_reject, T.job_list[i].rd)
    <3>1. T.job_list[i] = job
      BY <1>6, <2>3, Zenon
    <3> QED
      BY <1>3, <2>2, <3>1, Zenon DEF IsReactionJob, IsThenableJob
  <2> QED
    BY <2>1, <2>3, Zenon DEF JobRoles
<1>13. PairRoles(T, R)
  BY <1>2, <1>10, RolesKept, Zenon DEF Sound, PairRoles
<1>14. Served(T, V)
  <2>1. ASSUME NEW f, Waits(S, f) PROVE Waits(T, f)
    <3>1. ASSUME NEW i \in 1..n, Holds(S.job_list[i].rd, f) PROVE Waits(T, f)
      <4>0. \A m \in Nat : \A x \in 1..m : x \in 1..(m + 1)
        OBVIOUS
      <4>1. i \in 1..Len(T.job_list) /\ T.job_list[i] = S.job_list[i]
        BY <1>0, <1>5, <4>0, Zenon
      <4> QED
        BY <3>1, <4>1, Zenon DEF Waits
    <3> QED
      BY <1>2, <2>1, <3>1, ZenonT(30) DEF Waits, n
  <2>2. ASSUME NEW f, f = fn \/ \A c \in 0..1 : handlers[c].fn = f PROVE Waits(T, f)
    <3>1. n + 1 \in 1..Len(T.job_list) /\ T.job_list[n + 1].rd = rd
      BY <1>0, <1>3, <1>5
    <3>2. Holds(rd, f)
      BY <1>3, <2>2, Zenon DEF Holds
    <3> QED
      BY <3>1, <3>2, Zenon DEF Waits
  <2> QED
    BY <1>2, <2>1, <2>2, Zenon DEF Sound, Served, Unresolved, Registered
<1>15. HeldPairs(T, H)
  BY <1>2 DEF Sound, HeldPairs
<1> QED
  BY <1>7, <1>8, <1>9, <1>11, <1>12, <1>13, <1>14, <1>15, ZenonT(30) DEF Sound

\* perform_promise_then on any promise.
LEMMA PerformPromiseThenSound ==
  ASSUME NEW S, WellFormed(S), NEW p \in 1..Len(S.promise), NEW handlers, NEW fn,
         NEW R, NEW W, NEW H, Sound(S, R, W, H), NEW V, Registered(W, V, handlers, fn),
         Newest(S, fn), GoodReactions(S, p, handlers, fn)
  PROVE  Sound(PerformPromiseThen(S, p, handlers, fn), R, V, H)
<1>0. HandlersFor(Len(S.func), handlers, fn)
  BY DEF GoodReactions
<1>1. CASE S.promise[p].state = "pending"
  BY <1>0, <1>1, ThenPending, RegistersSound
<1>2. CASE S.promise[p].state # "pending"
  BY <1>0, <1>2, ThenSettled, QueuesSound
<1> QED
  BY <1>1, <1>2

\* What the callers of js_promise_then give it: no async handler, and a
\* resolving function only for a promise that follows p.
ThenHandlers(S, p, handlers) ==
  /\ handlers \in [0..1 -> Handler]
  /\ \A b \in 0..1 :
       /\ handlers[b].kind # "async"
       /\ handlers[b].fn \in 0..Len(S.func)
       /\ handlers[b].kind \in {"resolve", "reject"} <=> handlers[b].fn # 0
       /\ handlers[b].kind = "resolve" => b = 0
       /\ handlers[b].kind = "reject" => b = 1
       /\ handlers[b].fn # 0 /\ Unresolved(S, handlers[b].fn) =>
            S.promise[S.func[handlers[b].fn].promise].follows = p

\* then: the new capability is the newest, free and served by its reaction.
LEMMA PromiseThenSound ==
  ASSUME NEW S, WellFormed(S), NEW p \in 1..Len(S.promise), NEW shared \in BOOLEAN,
         NEW handlers, ThenHandlers(S, p, handlers),
         NEW R, NEW W, NEW H, Sound(S, R, W, H), R \subseteq 1..Len(S.func),
         NEW V, \A f \in W \ V : \A b \in 0..1 : handlers[b].fn = f
  PROVE  Sound(PromiseThen(S, p, handlers, shared), R, V, H)
<1> DEFINE U == NewPromise(S, shared, FALSE)
           nf == Len(S.func)
           fn == Len(U.func)
           T == PerformPromiseThen(U, p, handlers, fn)
<1>0. nf \in Nat /\ Len(S.promise) \in Nat
  BY Parts
<1>1. AddsPromise(S, U, FALSE)
  BY NewPromiseType, Zenon
<1> HIDE DEF U
<1>2. /\ Sound(U, (R \cap (1..nf)) \cup {nf + 1}, W \cup {nf + 1}, H)
      /\ KeepsFollows(S, U)
  <2>1. FALSE \in BOOLEAN
    OBVIOUS
  <2> QED
    BY <1>1, <2>1, AddsPromiseSound, Zenon
<1>3. /\ WellFormed(U) /\ U.job_list = S.job_list
      /\ Len(U.promise) = Len(S.promise) + 1 /\ fn = nf + 1
      /\ \A q \in 1..Len(S.promise) : U.promise[q] = S.promise[q]
      /\ U.promise[Len(S.promise) + 1].reactions = NoReactions
      /\ \A g \in 1..nf : U.func[g] = S.func[g]
      /\ U.func[nf + 1].promise = Len(S.promise) + 1
      /\ U.promise[Len(S.promise) + 1].follows = 0
  BY <1>1 DEF AddsPromise
<1>4. Sound(U, R, W \cup {fn}, H)
  <2>1. R \subseteq (R \cap (1..nf)) \cup {nf + 1}
    OBVIOUS
  <2> HIDE DEF nf, fn
  <2> QED
    BY <1>2, <1>3, <2>1, SoundMonotone, ZenonT(30)
<1>5. Newest(U, fn)
  <2>1. ASSUME NEW q \in 1..Len(U.promise), NEW b \in 0..1,
               NEW i \in 1..Len(U.promise[q].reactions[b])
        PROVE  U.promise[q].reactions[b][i].fn < fn
    <3>1. CASE q \in 1..Len(S.promise)
      <4>1. U.promise[q] = S.promise[q]
        BY <1>3, <3>1, Zenon
      <4>2. S.promise[q].reactions[b][i] \in Reaction(nf)
        BY <3>1, <4>1, Parts, Zenon
      <4>3. S.promise[q].reactions[b][i].fn \in 0..nf
        BY <4>2, Zenon DEF Reaction
      <4>4. U.promise[q].reactions[b][i].fn \in 0..nf
        BY <4>1, <4>3, Zenon
      <4>5. fn = nf + 1
        BY <1>3, Zenon
      <4> HIDE DEF fn, nf
      <4>6. \A x \in 0..nf : x < nf + 1
        BY <1>0
      <4> QED
        BY <4>4, <4>5, <4>6, Zenon
    <3>2. CASE q \notin 1..Len(S.promise)
      <4>1. q = Len(S.promise) + 1
        BY <1>0, <1>3, <3>2
      <4>2. Len(U.promise[q].reactions[b]) = 0
        <5>1. U.promise[q].reactions = NoReactions
          BY <1>3, <4>1, Zenon
        <5> QED
          BY <5>1 DEF NoReactions
      <4> QED
        BY <4>2
    <3> QED
      BY <3>1, <3>2
  <2>2. ASSUME NEW i \in 1..Len(U.job_list) PROVE U.job_list[i].rd.fn < fn
    <3>1. S.job_list[i] \in Job(Len(S.promise), nf)
      BY <1>3, Parts, Zenon
    <3>2. S.job_list[i].rd.fn \in 0..nf
      BY <1>0, <3>1 DEF Job, Reaction, NoReaction
    <3>3. fn = nf + 1 /\ U.job_list = S.job_list
      BY <1>3, Zenon
    <3> HIDE DEF fn, nf
    <3>4. \A x \in 0..nf : x < nf + 1
      BY <1>0
    <3> QED
      BY <3>2, <3>3, <3>4, Zenon
  <2> QED
    BY <2>1, <2>2, ZenonT(30) DEF Newest
<1>6. GoodReactions(U, p, handlers, fn)
  <2>1. HandlersFor(Len(U.func), handlers, fn)
    <3>1. fn = nf + 1 /\ handlers \in [0..1 -> Handler]
      BY <1>3, Zenon DEF ThenHandlers
    <3>2. ASSUME NEW b \in 0..1
          PROVE  [fn |-> fn, handler |-> handlers[b]] \in Reaction(fn)
      <4> DEFINE h == handlers[b]
      <4>1. /\ h \in Handler /\ h.kind # "async" /\ h.fn \in 0..nf
            /\ h.kind \in {"resolve", "reject"} <=> h.fn # 0
        BY <3>1, Zenon DEF ThenHandlers
      <4> HIDE DEF h, fn, nf
      <4>2. fn \in 0..fn /\ fn # 0 /\ h.fn \in 0..fn
        BY <1>0, <3>1, <4>1
      <4>3. [fn |-> fn, handler |-> h] \in Reaction(fn)
        BY <4>1, <4>2 DEF Reaction
      <4> QED
        BY <4>3, Zenon DEF h
    <3> QED
      BY <3>1, <3>2, Zenon DEF HandlersFor
  <2>2. ASSUME NEW b \in 0..1
        PROVE  RoleOK(U, p, b, [fn |-> fn, handler |-> handlers[b]])
    <3> DEFINE h == handlers[b]
               rd == [fn |-> fn, handler |-> h]
    <3>1. rd.fn = fn /\ rd.handler = h
      OBVIOUS
    <3>2. Free(U, fn)
      BY <1>3 DEF Free
    <3>3. h.kind \in {"resolve", "reject"} /\ Unresolved(U, h.fn) =>
            U.promise[U.func[h.fn].promise].follows = p
      <4>1. h.kind \in {"resolve", "reject"} => h.fn \in 1..nf
        <5>1. /\ h.fn \in 0..nf
              /\ h.kind \in {"resolve", "reject"} => h.fn # 0
          BY Zenon DEF ThenHandlers
        <5>2. \A x \in 0..nf : x # 0 => x \in 1..nf
          BY <1>0
        <5> QED
          BY <5>1, <5>2, Zenon
      <4>2. h.kind \in {"resolve", "reject"} /\ Unresolved(S, h.fn) =>
              S.promise[S.func[h.fn].promise].follows = p
        BY Zenon DEF ThenHandlers
      <4> HIDE DEF h
      <4> QED
        BY <1>2, <4>1, <4>2, Zenon DEF KeepsFollows
    <3>4. /\ h.kind = "resolve" => b = 0
          /\ h.kind = "reject" => b = 1
          /\ h.kind # "async"
      BY ZenonT(30) DEF ThenHandlers
    <3> HIDE DEF rd, fn
    <3>5. RoleOK(U, p, b, rd)
      BY <3>1, <3>2, <3>3, <3>4, Zenon DEF RoleOK
    <3> QED
      BY <3>5 DEF rd
  <2> QED
    BY <2>1, <2>2, ZenonT(30) DEF GoodReactions
<1>7. Registered(W \cup {fn}, V, handlers, fn)
  BY DEF Registered
<1>8. p \in 1..Len(U.promise)
  BY <1>0, <1>3
<1> HIDE DEF fn
<1>9. Sound(T, R, V, H)
  BY <1>3, <1>4, <1>5, <1>6, <1>7, <1>8, PerformPromiseThenSound, Zenon
<1> QED
  BY <1>9, Zenon DEF PromiseThen, U, fn
====
