------------------------- MODULE PromiseOutcomeProofs -------------------------
(***************************************************************************)
(* Proofs about PromiseMachine: every step keeps the invariant of          *)
(* PromiseSoundProofs, so reactions run in the order of their              *)
(* registration, no reaction is lost and a promise has the outcome of the  *)
(* one it follows.                                                         *)
(***************************************************************************)
EXTENDS PromiseSoundProofs

-----------------------------------------------------------------------------
(* The whole invariant                                                     *)

\* The pairs of the frames of a stack, and of those that a thenable job pushed.
FramePairs(r) == {r[i].fn : i \in 1..Len(r)}
ThenablePairs(r) == {r[i].fn : i \in {j \in 1..Len(r) : r[j].kind = "thenable"}}

SoundNow == Sound(Now, FramePairs(running), FramePairs(running), ThenablePairs(running))

OutcomeInv == IInv /\ SoundNow

-----------------------------------------------------------------------------
(* Taking a job from the queue                                             *)

\* The pairs of the job are free, and need to be served by the one who took it.
LEMMA TailOfSound ==
  ASSUME NEW S, WellFormed(S), S.job_list # <<>>,
         NEW R, NEW W, NEW H, Sound(S, R, W, H)
  PROVE  LET rd == S.job_list[1].rd
         IN  Sound(TailOf(S), R, W \cup {rd.fn, rd.handler.fn}, H)
<1> DEFINE T == TailOf(S)
           n == Len(S.job_list)
           rd == S.job_list[1].rd
<1>1. /\ T.promise = S.promise /\ T.func = S.func
      /\ n \in Nat \ {0} /\ Len(T.job_list) = n - 1
      /\ \A i \in 1..(n - 1) : T.job_list[i] = S.job_list[i + 1]
  BY TailOfType
<1> HIDE DEF T, n
<1>2. \A i \in 1..Len(T.job_list) :
        /\ i + 1 \in 1..n /\ T.job_list[i] = S.job_list[i + 1]
        /\ IsReactionJob(T, i) <=> IsReactionJob(S, i + 1)
        /\ IsThenableJob(T, i) <=> IsThenableJob(S, i + 1)
  <2> TAKE i \in 1..Len(T.job_list)
  <2>1. i \in 1..(n - 1) /\ i + 1 \in 1..n
    BY <1>1
  <2> QED
    BY <1>1, <2>1, Zenon DEF IsReactionJob, IsThenableJob
<1>3. \A i, j \in 1..Len(T.job_list) : i < j => i + 1 < j + 1
  <2>1. \A i, j \in Nat : i < j => i + 1 < j + 1
    OBVIOUS
  <2>2. Len(T.job_list) \in Nat
    BY <1>1
  <2>4. \A m \in Nat : \A x \in 1..m : x \in Nat
    OBVIOUS
  <2>3. \A i \in 1..Len(T.job_list) : i \in Nat
    BY <2>2, <2>4, Zenon
  <2> QED
    BY <2>1, <2>3, Zenon
<1>4. ListsOrdered(T) /\ Final(T) /\ Agree(T)
  BY <1>1 DEF Sound, ListsOrdered, Final, Agree
<1>5. JobsOrdered(T)
  BY <1>2, <1>3, Zenon DEF Sound, JobsOrdered, n
<1>6. JobsFaithful(T)
  BY <1>1, <1>2, Zenon DEF Sound, JobsFaithful, n
<1>7. /\ \A f : Free(T, f) <=> Free(S, f)
      /\ \A q, b, r : RoleOK(T, q, b, r) <=> RoleOK(S, q, b, r)
  BY <1>1 DEF Free, RoleOK, Unresolved
<1>8. ListRoles(T)
  BY <1>1, <1>7, Zenon DEF Sound, ListRoles
<1>9. JobRoles(T)
  BY <1>1, <1>2, <1>7, ZenonT(30) DEF Sound, JobRoles, n
<1>10. PairRoles(T, R)
  BY <1>1, <1>7 DEF Sound, PairRoles
<1>11. Served(T, W \cup {rd.fn, rd.handler.fn})
  <2>1. ASSUME NEW f, Waits(S, f) PROVE Waits(T, f) \/ f \in {rd.fn, rd.handler.fn}
    <3>1. ASSUME NEW j \in 1..n, Holds(S.job_list[j].rd, f)
          PROVE  Waits(T, f) \/ f \in {rd.fn, rd.handler.fn}
      <4>1. CASE j = 1
        BY <3>1, <4>1, Zenon DEF Holds
      <4>2. CASE j # 1
        <5>1. j - 1 \in 1..(n - 1) /\ (j - 1) + 1 = j
          BY <1>1, <4>2
        <5>2. j - 1 \in 1..Len(T.job_list) /\ T.job_list[j - 1] = S.job_list[j]
          BY <1>1, <5>1
        <5> QED
          BY <3>1, <5>2 DEF Waits
      <4> QED
        BY <4>1, <4>2
    <3> QED
      BY <1>1, <2>1, <3>1, Zenon DEF Waits, n
  <2> QED
    BY <1>1, <2>1 DEF Sound, Served, Unresolved
<1>12. HeldPairs(T, H)
  BY <1>1 DEF Sound, HeldPairs
<1>13. Sound(T, R, W \cup {rd.fn, rd.handler.fn}, H)
  BY <1>4, <1>5, <1>6, <1>8, <1>9, <1>10, <1>11, <1>12, Zenon DEF Sound
<1> QED
  BY <1>13 DEF T

-----------------------------------------------------------------------------
(* The steps                                                               *)

\* The pairs of the frames without the first one.
LEMMA FramesOfTail ==
  ASSUME NEW nf \in Nat, NEW r \in Seq(Frame(nf)), r # <<>>
  PROVE  /\ FramePairs(Tail(r)) \subseteq FramePairs(r)
         /\ FramePairs(r) \ {Head(r).fn} \subseteq FramePairs(Tail(r))
         /\ Head(r).fn \in FramePairs(r)
         /\ ThenablePairs(Tail(r)) \subseteq ThenablePairs(r)
         /\ Head(r).kind = "thenable" => Head(r).fn \in ThenablePairs(r)
<1>1. /\ Len(r) \in Nat \ {0} /\ Head(r) = r[1] /\ Len(Tail(r)) = Len(r) - 1
      /\ \A i \in 1..(Len(r) - 1) : Tail(r)[i] = r[i + 1]
  <2>1. Len(r) \in Nat \ {0}
    BY EmptySeq
  <2>2. Len(Tail(r)) = Len(r) - 1 /\ \A i \in 1..Len(Tail(r)) : Tail(r)[i] = r[i + 1]
    BY HeadTailProperties
  <2> QED
    BY <2>1, <2>2
<1>2. \A i \in 1..Len(Tail(r)) : i + 1 \in 1..Len(r) /\ Tail(r)[i] = r[i + 1]
  BY <1>1
<1>3. \A j \in 1..Len(r) : j # 1 => j - 1 \in 1..Len(Tail(r)) /\ Tail(r)[j - 1] = r[j]
  <2> TAKE j \in 1..Len(r)
  <2> HAVE j # 1
  <2>1. j - 1 \in 1..(Len(r) - 1) /\ (j - 1) + 1 = j
    BY <1>1
  <2> QED
    BY <1>1, <2>1
<1>4. 1 \in 1..Len(r)
  BY <1>1
<1>5. FramePairs(Tail(r)) \subseteq FramePairs(r)
  BY <1>2 DEF FramePairs
<1>6. FramePairs(r) \ {Head(r).fn} \subseteq FramePairs(Tail(r))
  BY <1>1, <1>3 DEF FramePairs
<1>7. ThenablePairs(Tail(r)) \subseteq ThenablePairs(r)
  BY <1>2 DEF ThenablePairs
<1> QED
  BY <1>1, <1>4, <1>5, <1>6, <1>7, Zenon DEF FramePairs, ThenablePairs

\* The pairs of the stack s are those of the stack r and that of one more frame.
PushesFrame(s, r, kind, f) ==
  /\ FramePairs(s) = FramePairs(r) \cup {f}
  /\ kind # "thenable" => ThenablePairs(s) = ThenablePairs(r)
  /\ ThenablePairs(s) \subseteq ThenablePairs(r) \cup {f}

\* The pairs of the frames with one more.
LEMMA FramesOfPush ==
  ASSUME NEW nf \in Nat, NEW r \in Seq(Frame(nf)), NEW f \in 1..nf,
         NEW kind \in {"script", "async", "thenable"},
         NEW s, s = <<[kind |-> kind, fn |-> f]>> \o r
  PROVE  PushesFrame(s, r, kind, f)
<1> DEFINE fr == [kind |-> kind, fn |-> f]
<1>s. s = <<fr>> \o r
  OBVIOUS
<1>0. fr.kind = kind /\ fr.fn = f
  OBVIOUS
<1>1. <<fr>> \in Seq(Frame(nf)) /\ Len(<<fr>>) = 1 /\ <<fr>>[1] = fr
  BY DEF Frame
<1> HIDE DEF fr
<1>2. /\ Len(s) = 1 + Len(r) /\ s[1] = fr /\ Len(r) \in Nat
      /\ \A i \in 1..Len(r) : s[1 + i] = r[i]
  <2>1. \A x, y \in Seq(Frame(nf)) :
          /\ Len(x \o y) = Len(x) + Len(y)
          /\ \A i \in 1..Len(x) : (x \o y)[i] = x[i]
          /\ \A i \in 1..Len(y) : (x \o y)[Len(x) + i] = y[i]
    BY ConcatElements
  <2>2. Len(r) \in Nat
    BY LenProperties
  <2>3. /\ Len(s) = Len(<<fr>>) + Len(r)
        /\ \A i \in 1..Len(<<fr>>) : s[i] = <<fr>>[i]
        /\ \A i \in 1..Len(r) : s[Len(<<fr>>) + i] = r[i]
    BY <1>1, <1>s, <2>1
  <2> QED
    BY <1>1, <2>2, <2>3
<1>3. \A i \in 1..Len(r) : 1 + i \in 1..Len(s) /\ s[1 + i] = r[i]
  BY <1>2
<1>4. \A j \in 1..Len(s) : j = 1 \/ (j - 1 \in 1..Len(r) /\ s[j] = r[j - 1])
  <2> TAKE j \in 1..Len(s)
  <2>1. j = 1 \/ (j - 1 \in 1..Len(r) /\ 1 + (j - 1) = j)
    BY <1>2
  <2> QED
    BY <1>2, <2>1
<1>5. 1 \in 1..Len(s)
  BY <1>2
<1>6. FramePairs(s) = FramePairs(r) \cup {f}
  <2>1. FramePairs(s) \subseteq FramePairs(r) \cup {f}
    BY <1>0, <1>2, <1>4 DEF FramePairs
  <2>2. f \in FramePairs(s)
    BY <1>0, <1>2, <1>5, Zenon DEF FramePairs
  <2>3. FramePairs(r) \subseteq FramePairs(s)
    BY <1>3 DEF FramePairs
  <2> QED
    BY <2>1, <2>2, <2>3, Zenon
<1>7. ASSUME NEW x \in ThenablePairs(s)
      PROVE  x \in ThenablePairs(r) \/ (x = f /\ kind = "thenable")
  <2>1. PICK j \in 1..Len(s) : s[j].kind = "thenable" /\ x = s[j].fn
    BY Zenon DEF ThenablePairs
  <2>2. CASE j = 1
    BY <1>0, <1>2, <2>1, <2>2, Zenon
  <2>3. CASE j - 1 \in 1..Len(r) /\ s[j] = r[j - 1]
    BY <2>1, <2>3 DEF ThenablePairs
  <2> QED
    BY <1>4, <2>2, <2>3, Zenon
<1>8. ASSUME kind # "thenable" PROVE ThenablePairs(s) = ThenablePairs(r)
  <2>1. ThenablePairs(s) \subseteq ThenablePairs(r)
    BY <1>7, <1>8, Zenon
  <2>2. ThenablePairs(r) \subseteq ThenablePairs(s)
    BY <1>3 DEF ThenablePairs
  <2> QED
    BY <2>1, <2>2, Zenon
<1>9. ThenablePairs(s) \subseteq ThenablePairs(r) \cup {f}
  BY <1>7, Zenon
<1> QED
  BY <1>6, <1>8, <1>9, Zenon DEF PushesFrame

\* A step to a sound state, for the frames that are left after it.
LEMMA LeadsToSound ==
  ASSUME NEW S, NEW R, NEW W, NEW H, Sound(S, R, W, H), WellFormed(S), Become(S),
         FramePairs(running') \subseteq R, W \subseteq FramePairs(running'),
         ThenablePairs(running') \subseteq H
  PROVE  SoundNow'
<1> DEFINE F == FramePairs(running')
           G == ThenablePairs(running')
<1>1. Sound(S, F, F, G)
  BY SoundMonotone
<1>2. S = [promise |-> S.promise, func |-> S.func, job_list |-> S.job_list]
  BY DEF WellFormed
<1>3. Now' = S
  BY <1>2 DEF Now, Become
<1>5. Sound(Now', FramePairs(running'), FramePairs(running'), ThenablePairs(running'))
  BY <1>1, <1>3, Zenon
<1>6. (ListsOrdered(Now) /\ JobsOrdered(Now) /\ JobsFaithful(Now))'
  <2>1. ListsOrdered(Now') /\ JobsOrdered(Now') /\ JobsFaithful(Now')
    BY <1>5, Zenon DEF Sound
  <2> QED
    BY <2>1, Zenon DEF ListsOrdered, JobsOrdered, JobsFaithful, IsReactionJob, InOrder, SettledState
<1>7. (Final(Now) /\ Agree(Now))'
  <2>1. Final(Now') /\ Agree(Now')
    BY <1>5, Zenon DEF Sound
  <2> QED
    BY <2>1, Zenon DEF Final, Agree, FinalKinds
<1>8. ListRoles(Now)'
  <2>1. ListRoles(Now')
    BY <1>5, Zenon DEF Sound
  <2> QED
    BY <2>1, Zenon DEF ListRoles, RoleOK, Free, Unresolved
<1>9. JobRoles(Now)'
  <2>1. JobRoles(Now')
    BY <1>5, Zenon DEF Sound
  <2> QED
    BY <2>1, Zenon DEF JobRoles, RoleOK, Free, Unresolved, IsReactionJob, IsThenableJob
<1>10. PairRoles(Now, FramePairs(running))'
  <2>1. PairRoles(Now', FramePairs(running'))
    BY <1>5, Zenon DEF Sound
  <2> QED
    BY <2>1, Zenon DEF PairRoles, Free, Unresolved, FramePairs
<1>11. Served(Now, FramePairs(running))'
  <2>1. Served(Now', FramePairs(running'))
    BY <1>5, Zenon DEF Sound
  <2> QED
    BY <2>1, Zenon DEF Served, Waits, Holds, Unresolved, FramePairs
<1>12. HeldPairs(Now, ThenablePairs(running))'
  <2>1. HeldPairs(Now', ThenablePairs(running'))
    BY <1>5, Zenon DEF Sound
  <2> QED
    BY <2>1, Zenon DEF HeldPairs, ThenablePairs
<1> QED
  BY <1>6, <1>7, <1>8, <1>9, <1>10, <1>11, <1>12, Zenon DEF SoundNow, Sound

\* A pair that script code holds needs nothing else to serve it.
LEMMA HeldIsServed ==
  ASSUME NEW S, NEW R, NEW W, NEW H, NEW f, Sound(S, R, W \cup {f}, H), S.func[f].held
  PROVE  Sound(S, R, W, H)
BY DEF Sound, Served

\* A free pair may be called with anything.
LEMMA FreeMayCall ==
  ASSUME NEW S, NEW f, Free(S, f)
  PROVE  \A v, b : MayCall(S, f, v, b)
BY Zenon DEF Free, MayCall

\* Facts about the current state that the steps use.
LEMMA SoundFacts ==
  ASSUME OutcomeInv
  PROVE  LET F == FramePairs(running)
             G == ThenablePairs(running)
         IN  /\ Sound(Now, F, F, G) /\ Good(Now) /\ WellFormed(Now)
             /\ F \subseteq 1..Len(func)
             /\ \A f \in F : Free(Now, f)
             /\ \A f \in G : func[f].held
             /\ \A f \in 1..Len(func) : func[f].held => Free(Now, f)
<1> DEFINE F == FramePairs(running)
           G == ThenablePairs(running)
<1>1. Sound(Now, F, F, G) /\ Good(Now) /\ WellFormed(Now) /\ running \in Seq(Frame(Len(func)))
  BY NowFacts DEF OutcomeInv, SoundNow
<1>2. F \subseteq 1..Len(func)
  <2>1. \A i \in 1..Len(running) : running[i] \in Frame(Len(func))
    BY <1>1, ElementOfSeq
  <2> QED
    BY <2>1 DEF FramePairs, Frame
<1>3. Now.func = func
  BY DEF Now
<1> HIDE DEF F, G
<1>4. /\ \A f \in F : Free(Now, f)
      /\ \A f \in G : func[f].held
      /\ \A f \in 1..Len(func) : func[f].held => Free(Now, f)
  BY <1>1, <1>2, <1>3 DEF Sound, PairRoles, HeldPairs
<1> QED
  BY <1>1, <1>2, <1>4 DEF F, G

\* The script code's operations keep the state sound.
LEMMA ScriptStepSound ==
  ASSUME OutcomeInv, PromiseConstructor \/ CallResolvingFunction \/ Then \/ AsyncFunctionCall
  PROVE  SoundNow'
<1> DEFINE F == FramePairs(running)
           G == ThenablePairs(running)
           nf == Len(func)
<1>0. /\ Sound(Now, F, F, G) /\ Good(Now) /\ WellFormed(Now)
      /\ F \subseteq 1..nf
      /\ \A f \in 1..nf : func[f].held => Free(Now, f)
  BY SoundFacts
<1>1. /\ Now.promise = promise /\ Now.func = func /\ nf \in Nat
      /\ running \in Seq(Frame(nf + 1))
      /\ Input \subseteq ValOf(Len(promise))
  BY NowFacts DEF OutcomeInv
<1>2. TRUE \in BOOLEAN /\ FALSE \in BOOLEAN
  OBVIOUS
<1> HIDE DEF F, G, nf
<1>3. running' = running => FramePairs(running') = F /\ ThenablePairs(running') = G
  BY DEF F, G
<1>4. CASE PromiseConstructor
  <2> DEFINE S == NewPromise(Now, TRUE, TRUE)
  <2>1. AddsPromise(Now, S, TRUE)
    BY <1>0, <1>2, NewPromiseType, Zenon
  <2>2. Become(S) /\ running' = running
    BY <1>4, Zenon DEF PromiseConstructor
  <2> HIDE DEF S
  <2>3. Sound(S, (F \cap (1..nf)) \cup {nf + 1}, F \cup {nf + 1}, G)
    BY <1>0, <1>1, <1>2, <2>1, AddsPromiseSound, Zenon DEF nf
  <2>4. S.func[nf + 1].held /\ WellFormed(S)
    BY <1>1, <2>1 DEF AddsPromise, nf
  <2>5. Sound(S, (F \cap (1..nf)) \cup {nf + 1}, F, G)
    BY <2>3, <2>4, HeldIsServed
  <2>6. /\ FramePairs(running') \subseteq (F \cap (1..nf)) \cup {nf + 1}
        /\ F \subseteq FramePairs(running') /\ ThenablePairs(running') \subseteq G
    BY <1>0, <1>3, <2>2, Zenon
  <2> QED
    BY <2>2, <2>4, <2>5, <2>6, LeadsToSound, Zenon
<1>5. CASE CallResolvingFunction
  <2>1. PICK f \in 1..nf, b \in 0..1, v \in Input :
          /\ func[f].held
          /\ Become(ResolveFunctionCall(Now, f, b, v)) /\ running' = running
    BY <1>5 DEF CallResolvingFunction, nf
  <2> DEFINE S == ResolveFunctionCall(Now, f, b, v)
  <2>2. f \in 1..Len(Now.func) /\ v \in ValOf(Len(Now.promise))
    BY <1>1 DEF nf
  <2>3. MayCall(Now, f, v, b)
    BY <1>0, <2>1, FreeMayCall, Zenon
  <2>4. Sound(S, F, F \ {f}, G)
    BY <1>0, <2>2, <2>3, ResolveFunctionCallSound, Zenon
  <2>5. WellFormed(S)
    BY <1>0, <2>2, ResolveFunctionCallType, Zenon
  <2>6. /\ FramePairs(running') \subseteq F /\ F \ {f} \subseteq FramePairs(running')
        /\ ThenablePairs(running') \subseteq G
    BY <1>3, <2>1
  <2> HIDE DEF S
  <2> QED
    BY <2>1, <2>4, <2>5, <2>6, LeadsToSound, Zenon DEF S
<1>6. CASE Then
  <2>1. PICK p \in SharedPromises, handlers \in [0..1 -> {None, Script}] :
          Become(PromiseThen(Now, p, handlers, TRUE)) /\ running' = running
    BY <1>6, Zenon DEF Then
  <2> DEFINE S == PromiseThen(Now, p, handlers, TRUE)
  <2>2. p \in 1..Len(Now.promise)
    BY <1>1 DEF SharedPromises
  <2>3. /\ handlers \in [0..1 -> Handler]
        /\ \A b \in 0..1 : handlers[b].kind \in {"none", "script"} /\ handlers[b].fn = 0
    BY DEF None, Script, Handler
  <2>4. ThenHandlers(Now, p, handlers)
    BY <1>1, <2>3 DEF ThenHandlers, nf
  <2>5. Sound(S, F, F, G)
    <3>1. F \subseteq 1..Len(Now.func)
      BY <1>0, <1>1 DEF nf
    <3>2. \A f \in F \ F : \A b \in 0..1 : handlers[b].fn = f
      OBVIOUS
    <3> QED
      BY <1>0, <1>2, <2>2, <2>4, <3>1, <3>2, PromiseThenSound, Zenon
  <2>6. WellFormed(S)
    <3>1. \A b \in 0..1 : /\ handlers[b].kind # "async"
                          /\ handlers[b].fn \in 0..Len(Now.func)
                          /\ handlers[b].kind \in {"resolve", "reject"} <=> handlers[b].fn # 0
      BY <2>4, Zenon DEF ThenHandlers
    <3>2. Good(S)
      BY <1>0, <1>2, <2>2, <2>3, <3>1, PromiseThenGood, Zenon
    <3> QED
      BY <3>2, SMTT(30) DEF Good
  <2>7. /\ FramePairs(running') \subseteq F /\ F \subseteq FramePairs(running')
        /\ ThenablePairs(running') \subseteq G
    BY <1>3, <2>1
  <2> HIDE DEF S
  <2> QED
    BY <2>1, <2>5, <2>6, <2>7, LeadsToSound, Zenon DEF S
<1>7. CASE AsyncFunctionCall
  <2> DEFINE S == NewPromise(Now, TRUE, FALSE)
  <2>1. AddsPromise(Now, S, FALSE)
    BY <1>0, <1>2, NewPromiseType, Zenon
  <2>2. Become(S) /\ running' = <<[kind |-> "async", fn |-> nf + 1]>> \o running
    BY <1>7, Zenon DEF AsyncFunctionCall, nf
  <2> HIDE DEF S
  <2>3. Sound(S, (F \cap (1..nf)) \cup {nf + 1}, F \cup {nf + 1}, G)
    BY <1>0, <1>1, <1>2, <2>1, AddsPromiseSound, Zenon DEF nf
  <2>4. WellFormed(S)
    BY <2>1 DEF AddsPromise
  <2>5. FramePairs(running') = F \cup {nf + 1} /\ ThenablePairs(running') = G
    <3>1. nf + 1 \in Nat /\ nf + 1 \in 1..(nf + 1) /\ "async" \in {"script", "async", "thenable"}
          /\ "async" # "thenable"
      BY <1>1
    <3>2. PushesFrame(running', running, "async", nf + 1)
      BY <1>1, <2>2, <3>1, FramesOfPush, Zenon
    <3> QED
      BY <3>1, <3>2, Zenon DEF F, G, PushesFrame
  <2>6. /\ FramePairs(running') \subseteq (F \cap (1..nf)) \cup {nf + 1}
        /\ F \cup {nf + 1} \subseteq FramePairs(running')
        /\ ThenablePairs(running') \subseteq G
    BY <1>0, <2>5, Zenon
  <2> QED
    BY <2>2, <2>3, <2>4, <2>6, LeadsToSound, Zenon
<1> QED
  BY <1>4, <1>5, <1>6, <1>7, Zenon

\* An await registers the resumption of an async function whose pair is free.
LEMMA AwaitSound ==
  ASSUME NEW S, WellFormed(S), NEW p \in 1..Len(S.promise), NEW f \in 1..Len(S.func),
         NEW handlers, handlers = [b \in 0..1 |-> Resume(f)],
         NEW R, f \in R, NEW W, NEW H, Sound(S, R, W, H)
  PROVE  /\ Sound(PerformPromiseThen(S, p, handlers, 0), R, W \ {f}, H)
         /\ WellFormed(PerformPromiseThen(S, p, handlers, 0))
<1>1. \A b \in 0..1 : handlers[b] = Resume(f)
  OBVIOUS
<1>2. handlers \in [0..1 -> Handler]
  <2>1. Resume(f) \in Handler
    BY DEF Resume, Handler
  <2> QED
    BY <2>1
<1>3. Free(S, f)
  BY DEF Sound, PairRoles
<1>4. Len(S.func) \in Nat
  BY Parts
<1>5. HandlersFor(Len(S.func), handlers, 0)
  BY <1>1, <1>2, <1>4 DEF HandlersFor, Reaction, Resume, Handler
<1>6. \A b \in 0..1 : RoleOK(S, p, b, [fn |-> 0, handler |-> handlers[b]])
  <2> TAKE b \in 0..1
  <2> DEFINE rd == [fn |-> 0, handler |-> handlers[b]]
  <2>1. rd.fn = 0 /\ rd.handler.kind = "async" /\ rd.handler.fn = f
    BY <1>1 DEF Resume
  <2> HIDE DEF rd
  <2>2. RoleOK(S, p, b, rd)
    BY <1>3, <2>1, Zenon DEF RoleOK
  <2> QED
    BY <2>2 DEF rd
<1>7. GoodReactions(S, p, handlers, 0) /\ Newest(S, 0)
  BY <1>5, <1>6 DEF GoodReactions, Newest
<1>8. Registered(W, W \ {f}, handlers, 0)
  BY <1>1 DEF Registered, Resume
<1>9. Sound(PerformPromiseThen(S, p, handlers, 0), R, W \ {f}, H)
  BY <1>7, <1>8, PerformPromiseThenSound, Zenon
<1>10. WellFormed(PerformPromiseThen(S, p, handlers, 0))
  <2>1. CASE S.promise[p].state = "pending"
    BY <1>5, <2>1, ThenPending, ZenonT(30) DEF Registers
  <2>2. CASE S.promise[p].state # "pending"
    BY <1>5, <2>2, ThenSettled, Zenon DEF Queues
  <2> QED
    BY <2>1, <2>2, Zenon
<1> QED
  BY <1>9, <1>10

\* The ends of the script code that the engine called keep the state sound.
LEMMA FrameEndsSound ==
  ASSUME OutcomeInv, FrameEnds
  PROVE  SoundNow'
<1> DEFINE F == FramePairs(running)
           G == ThenablePairs(running)
           nf == Len(func)
           f == Head(running).fn
<1>0. /\ Sound(Now, F, F, G) /\ Good(Now) /\ WellFormed(Now)
      /\ F \subseteq 1..nf
      /\ \A g \in F : Free(Now, g)
      /\ \A g \in G : func[g].held
  BY SoundFacts
<1>1. /\ Now.promise = promise /\ Now.func = func /\ nf \in Nat /\ Len(promise) \in Nat
      /\ running \in Seq(Frame(nf))
      /\ Input \subseteq ValOf(Len(promise))
  BY NowFacts DEF OutcomeInv
<1>2. running # <<>> /\ running' = Tail(running)
  BY Zenon DEF FrameEnds, Return, Throw, Await, Pop
<1>3. /\ FramePairs(running') \subseteq F
      /\ F \ {f} \subseteq FramePairs(running')
      /\ f \in F
      /\ ThenablePairs(running') \subseteq G
      /\ Head(running).kind = "thenable" => f \in G
  BY <1>1, <1>2, FramesOfTail, Zenon
<1> HIDE DEF F, G
<1>4. f \in 1..nf /\ Free(Now, f) /\ f \in 1..Len(Now.func)
  BY <1>0, <1>1, <1>3, Zenon
<1> HIDE DEF nf, f
<1>5. CASE Return \/ Throw
  <2>1. PICK v \in Input, b \in 0..1 :
          \/ Head(running).kind = "thenable" /\ Become(Now)
          \/ Become(ResolveFunctionCall(Now, f, b, v))
    BY <1>5 DEF Return, Throw, f
  <2> DEFINE S == ResolveFunctionCall(Now, f, b, v)
  <2>2. v \in ValOf(Len(Now.promise)) /\ MayCall(Now, f, v, b)
    BY <1>1, <1>4, FreeMayCall
  <2>3. Sound(S, F, F \ {f}, G)
    BY <1>0, <1>4, <2>2, ResolveFunctionCallSound, Zenon
  <2>4. WellFormed(S)
    BY <1>0, <1>4, <2>2, ResolveFunctionCallType, Zenon
  <2> HIDE DEF S
  <2>5. CASE Head(running).kind = "thenable" /\ Become(Now)
    <3>1. Now.func[f].held /\ (F \ {f}) \cup {f} = F
      BY <1>0, <1>1, <1>3, <2>5, Zenon
    <3>2. Sound(Now, F, F \ {f}, G)
      BY <1>0, <3>1, HeldIsServed, Zenon
    <3> QED
      BY <1>0, <1>3, <2>5, <3>2, LeadsToSound, Zenon
  <2>6. CASE Become(S)
    BY <1>3, <2>3, <2>4, <2>6, LeadsToSound, Zenon
  <2> QED
    BY <2>1, <2>5, <2>6, Zenon DEF S
<1>6. CASE Await
  <2> DEFINE fresh == NewPromise(Now, FALSE, FALSE)
             handlers == [b \in 0..1 |-> Resume(f)]
  <2>1. PICK v \in Input :
          Become(PerformPromiseThen(
            IF v.kind = "promise" THEN Now ELSE ResolveFunctionCall(fresh, Len(fresh.func), 0, v),
            IF v.kind = "promise" THEN v.ref ELSE Len(fresh.promise), handlers, 0))
    BY <1>6, Zenon DEF Await, f
  <2>2. CASE v.kind = "promise"
    <3> DEFINE T == PerformPromiseThen(Now, v.ref, handlers, 0)
    <3>1. v.ref \in 1..Len(Now.promise)
      BY <1>1, <2>2 DEF ValOf
    <3>2. Sound(T, F, F \ {f}, G) /\ WellFormed(T)
      BY <1>0, <1>3, <1>4, <3>1, AwaitSound, Zenon
    <3>3. Become(T)
      BY <2>1, <2>2
    <3> HIDE DEF T
    <3> QED
      BY <1>3, <3>2, <3>3, LeadsToSound, Zenon
  <2>3. CASE v.kind # "promise"
    <3> DEFINE g == Len(fresh.func)
               S == ResolveFunctionCall(fresh, g, 0, v)
               T == PerformPromiseThen(S, Len(fresh.promise), handlers, 0)
               R == (F \cap (1..nf)) \cup {nf + 1}
    <3>1. Good(fresh) /\ AddsPromise(Now, fresh, FALSE)
      BY <1>0, NewPromiseGood, NewPromiseType, Zenon
    <3>2. Become(T)
      BY <2>1, <2>3
    <3> HIDE DEF fresh
    <3>3. /\ WellFormed(fresh) /\ Len(fresh.promise) = Len(promise) + 1 /\ g = nf + 1
      BY <1>1, <3>1 DEF AddsPromise, nf
    <3>4. Sound(fresh, R, F \cup {g}, G)
      <4>1. FALSE \in BOOLEAN
        OBVIOUS
      <4> QED
        BY <1>0, <1>1, <3>1, <3>3, <4>1, AddsPromiseSound, Zenon DEF nf
    <3>5. g \in 1..Len(fresh.func) /\ v \in ValOf(Len(fresh.promise)) /\ g \in R /\ f \in R
      BY <1>1, <1>3, <1>4, <2>3, <3>3 DEF ValOf
    <3> HIDE DEF R, g
    <3>6. Free(fresh, g)
      BY <3>4, <3>5, Zenon DEF Sound, PairRoles
    <3>7. MayCall(fresh, g, v, 0)
      BY <3>6, FreeMayCall, Zenon
    <3>8. Sound(S, R, (F \cup {g}) \ {g}, G)
      BY <3>1, <3>4, <3>5, <3>7, ResolveFunctionCallSound
    <3>9. WellFormed(S) /\ Len(S.promise) = Len(fresh.promise) /\ Len(S.func) = nf + 1
      <4>1. WellFormed(S) /\ Len(S.promise) = Len(fresh.promise) /\ Len(S.func) = Len(fresh.func)
        BY <3>3, <3>5, ResolveFunctionCallType
      <4> QED
        BY <3>3, <4>1, Zenon DEF g
    <3> HIDE DEF S
    <3>10. Len(fresh.promise) \in 1..Len(S.promise) /\ f \in 1..Len(S.func)
      <4>1. /\ Len(promise) \in Nat /\ nf \in Nat /\ f \in 1..nf
            /\ Len(S.promise) = Len(promise) + 1 /\ Len(fresh.promise) = Len(promise) + 1
            /\ Len(S.func) = nf + 1
        BY <1>1, <1>4, <3>3, <3>9, Zenon
      <4>2. \A m \in Nat : m + 1 \in 1..(m + 1) /\ \A x \in 1..m : x \in 1..(m + 1)
        OBVIOUS
      <4> QED
        BY <4>1, <4>2, Zenon
    <3>11. Sound(T, R, ((F \cup {g}) \ {g}) \ {f}, G) /\ WellFormed(T)
      BY <3>5, <3>8, <3>9, <3>10, AwaitSound, Zenon
    <3>12. /\ FramePairs(running') \subseteq R
           /\ ((F \cup {g}) \ {g}) \ {f} \subseteq FramePairs(running')
      BY <1>0, <1>3, Zenon DEF R
    <3> HIDE DEF T
    <3> QED
      BY <1>3, <3>2, <3>11, <3>12, LeadsToSound, Zenon
  <2> QED
    BY <2>2, <2>3
<1> QED
  BY <1>5, <1>6 DEF FrameEnds

\* A free pair may be called by one more frame.
LEMMA FreeJoins ==
  ASSUME NEW S, NEW R, NEW W, NEW H, Sound(S, R, W, H), NEW f, Free(S, f)
  PROVE  Sound(S, R \cup {f}, W, H)
BY DEF Sound, PairRoles

\* No pair has the number 0, which stands for no capability and no handler.
LEMMA NoPairZero ==
  ASSUME NEW S, WellFormed(S), NEW R, NEW W, NEW H, Sound(S, R, W, H)
  PROVE  Sound(S, R, W \ {0}, H)
<1>1. \A f \in 1..Len(S.func) : f # 0
  BY Parts
<1> QED
  BY <1>1 DEF Sound, Served

\* The execution of a job keeps the state sound.
LEMMA ExecutePendingJobSound ==
  ASSUME OutcomeInv, ExecutePendingJob
  PROVE  SoundNow'
<1> DEFINE F == FramePairs(running)
           G == ThenablePairs(running)
           nf == Len(func)
           job == Head(job_list)
           rd == job.rd
           W == F \cup {rd.fn, rd.handler.fn}
<1>a. job_list # <<>>
  BY DEF ExecutePendingJob, JobReady, ReactionJobPassThrough, ReactionJobResolving,
     ReactionJobScript, ThenableJobPromise, ThenableJobScript
<1>0. /\ Sound(Now, F, F, G) /\ Good(Now) /\ WellFormed(Now) /\ F \subseteq 1..nf
  BY SoundFacts
<1>1. /\ Now.promise = promise /\ Now.func = func /\ Now.job_list = job_list
      /\ nf \in Nat /\ Len(promise) \in Nat
      /\ running \in Seq(Frame(nf)) /\ running \in Seq(Frame(nf + 1))
  BY NowFacts DEF OutcomeInv
<1>2. /\ job \in Job(Len(promise), nf)
      /\ WellFormed(Dequeue) /\ Len(Dequeue.promise) = Len(promise) /\ Len(Dequeue.func) = nf
      /\ job.kind = "reaction" => Good(Dequeue)
      /\ job.kind = "thenable" => GoodBut(Dequeue, job.promise)
  BY <1>a, DequeueFacts DEF OutcomeInv
<1>3. Dequeue = TailOf(Now) /\ job = Now.job_list[1] /\ 1 \in 1..Len(Now.job_list)
  <2>1. Dequeue = TailOf(Now)
    BY DEF Dequeue, TailOf, Now
  <2>2. Head(Now.job_list) = Now.job_list[1] /\ Len(Now.job_list) \in Nat \ {0}
    BY <1>a, <1>0, <1>1, TailOfType, Zenon
  <2> QED
    BY <1>1, <2>1, <2>2
<1>4. TailOf(Now).promise = Now.promise /\ TailOf(Now).func = Now.func
  BY <1>a, <1>0, <1>1, TailOfType, Zenon
<1> HIDE DEF F, G, job, nf
<1>5. Sound(Dequeue, F, W, G) /\ Dequeue.promise = promise /\ Dequeue.func = func
  <2>1. LET r == Now.job_list[1].rd
        IN  Sound(TailOf(Now), F, F \cup {r.fn, r.handler.fn}, G)
    BY <1>a, <1>0, <1>1, TailOfSound, Zenon
  <2> QED
    BY <1>1, <1>3, <1>4, <2>1, Zenon
<1>6. /\ job.promise \in 1..Len(promise) /\ job.is_reject \in 0..1
      /\ job.arg \in ValOf(Len(promise))
      /\ job.kind = "reaction" => rd \in Reaction(nf)
      /\ job.kind = "thenable" => rd = NoReaction
  BY <1>2 DEF Job
<1>7. /\ job.kind = "reaction" => /\ RoleOK(Now, job.promise, job.is_reject, rd)
                                  /\ promise[job.promise].state = SettledState(job.is_reject)
                                  /\ promise[job.promise].result = job.arg
      /\ job.kind = "thenable" => promise[job.promise].follows =
           IF job.arg.kind = "promise" THEN job.arg.ref ELSE 0
  BY <1>0, <1>1, <1>3, ZenonT(30) DEF Sound, JobRoles, JobsFaithful, IsReactionJob, IsThenableJob
<1>8. \A q, b, r : RoleOK(Now, q, b, r) => RoleOK(Dequeue, q, b, r)
  BY <1>1, <1>5 DEF RoleOK, Free, Unresolved
<1>9. running' = running => FramePairs(running') = F /\ ThenablePairs(running') = G
  BY DEF F, G
<1> HIDE DEF rd, W
<1>10. job.kind = "reaction" =>
         /\ rd.handler.kind \in {"none", "script"} => rd.handler.fn = 0 /\ rd.fn \in 1..nf
         /\ rd.handler.kind \in {"resolve", "reject"} => rd.handler.fn \in 1..nf /\ rd.fn \in 1..nf
         /\ rd.handler.kind = "async" => rd.handler.fn \in 1..nf /\ rd.fn = 0
  BY <1>1, <1>6 DEF Reaction
<1>11. CASE ReactionJobPassThrough
  <2> DEFINE S == ResolveFunctionCall(Dequeue, rd.fn, job.is_reject, job.arg)
  <2>1. /\ job.kind = "reaction" /\ rd.handler.kind = "none" /\ Become(S) /\ running' = running
    BY <1>11 DEF ReactionJobPassThrough, JobReady, rd, job
  <2>2. rd.handler.fn = 0 /\ rd.fn \in 1..nf /\ rd.fn # 0
    BY <1>1, <1>10, <2>1
  <2>3. rd.fn \in 1..Len(Dequeue.func) /\ job.arg \in ValOf(Len(Dequeue.promise))
    BY <1>2, <1>6, <2>2, Zenon
  <2>4. Free(Dequeue, rd.fn)
    BY <1>7, <1>8, <2>1, <2>2, Zenon DEF RoleOK
  <2>5. MayCall(Dequeue, rd.fn, job.arg, job.is_reject)
    BY <2>4, FreeMayCall
  <2>6. Sound(S, F, W \ {rd.fn}, G)
    BY <1>2, <1>5, <1>6, <2>1, <2>3, <2>5, ResolveFunctionCallSound, Zenon
  <2>7. WellFormed(S)
    BY <1>2, <1>6, <2>3, ResolveFunctionCallType, Zenon
  <2> HIDE DEF S
  <2>8. Sound(S, F, (W \ {rd.fn}) \ {0}, G)
    BY <2>6, <2>7, NoPairZero
  <2>9. (W \ {rd.fn}) \ {0} \subseteq F
    BY <2>2 DEF W
  <2> QED
    BY <1>9, <2>1, <2>7, <2>8, <2>9, LeadsToSound, Zenon
<1>12. CASE ReactionJobResolving
  <2> DEFINE h == rd.handler.fn
             b == IF rd.handler.kind = "reject" THEN 1 ELSE 0
             S == ResolveFunctionCall(Dequeue, h, b, job.arg)
             T == ResolveFunctionCall(S, rd.fn, 0, Undefined)
             R == F \cup {rd.fn}
  <2>1. /\ job.kind = "reaction" /\ rd.handler.kind \in {"resolve", "reject"}
        /\ Become(T) /\ running' = running
    BY <1>12 DEF ReactionJobResolving, JobReady, rd, job
  <2>2. h \in 1..nf /\ rd.fn \in 1..nf /\ rd.fn # 0 /\ b \in 0..1
    BY <1>1, <1>10, <2>1
  <2>3. h \in 1..Len(Dequeue.func) /\ job.arg \in ValOf(Len(Dequeue.promise))
    BY <1>2, <1>6, <2>2, Zenon
  <2>4. RoleOK(Dequeue, job.promise, job.is_reject, rd)
    BY <1>7, <1>8, <2>1, Zenon
  <2>5. Free(Dequeue, rd.fn)
    BY <2>2, <2>4, Zenon DEF RoleOK
  <2>6. b = job.is_reject
    BY <2>1, <2>4, Zenon DEF RoleOK
  <2>7. MayCall(Dequeue, h, job.arg, b)
    BY <1>5, <1>7, <2>1, <2>4, <2>6, Zenon DEF RoleOK, MayCall
  <2>8. Sound(Dequeue, R, W, G)
    BY <1>5, <2>5, FreeJoins, Zenon
  <2> HIDE DEF h, b, R
  <2>9. Sound(S, R, W \ {h}, G)
    BY <1>2, <2>1, <2>2, <2>3, <2>7, <2>8, ResolveFunctionCallSound, Zenon
  <2>10. Good(S)
    BY <1>2, <2>1, <2>2, <2>3, ResolveFunctionCallGood, Zenon
  <2>11. WellFormed(S) /\ Len(S.promise) = Len(Dequeue.promise) /\ Len(S.func) = Len(Dequeue.func)
    BY <1>2, <2>2, <2>3, ResolveFunctionCallType, Zenon
  <2> HIDE DEF S
  <2>12. rd.fn \in 1..Len(S.func) /\ 0 \in 0..1 /\ rd.fn \in R
    BY <1>2, <2>2, <2>11 DEF R
  <2>13. Undefined \in ValOf(Len(S.promise))
    BY DEF Undefined, ValOf, Val
  <2>14. MayCall(S, rd.fn, Undefined, 0)
    <3>1. Free(S, rd.fn)
      BY <2>9, <2>12 DEF Sound, PairRoles
    <3> QED
      BY <3>1, FreeMayCall, Zenon
  <2>15. Sound(T, R, (W \ {h}) \ {rd.fn}, G)
    BY <2>9, <2>10, <2>12, <2>13, <2>14, ResolveFunctionCallSound, Zenon
  <2>16. WellFormed(T)
    BY <2>11, <2>12, <2>13, ResolveFunctionCallType, Zenon
  <2>17. F \subseteq R /\ (W \ {h}) \ {rd.fn} \subseteq F
    BY DEF W, R, h
  <2> HIDE DEF T
  <2> QED
    BY <1>9, <2>1, <2>15, <2>16, <2>17, LeadsToSound, ZenonT(30)
<1>13. CASE ReactionJobScript
  <2>1. PICK f \in {rd.fn, rd.handler.fn}, kind \in {"script", "async"} :
          /\ job.kind = "reaction"
          /\ \/ kind = "script" /\ rd.handler.kind = "script" /\ f = rd.fn
             \/ kind = "async" /\ rd.handler.kind = "async" /\ f = rd.handler.fn
          /\ running' = <<[kind |-> kind, fn |-> f]>> \o running
          /\ Become(Dequeue)
    BY <1>13 DEF ReactionJobScript, JobReady, Push, rd, job
  <2>2. f \in 1..nf /\ W \ {0} \subseteq F \cup {f}
    BY <1>10, <2>1, Zenon DEF W
  <2>3. Free(Dequeue, f)
    <3>1. f # 0
      BY <1>1, <2>2
    <3> QED
      BY <1>7, <1>8, <2>1, <3>1, Zenon DEF RoleOK
  <2>4. Sound(Dequeue, F \cup {f}, W \ {0}, G)
    BY <1>2, <1>5, <2>3, FreeJoins, NoPairZero, Zenon
  <2>5. FramePairs(running') = F \cup {f} /\ ThenablePairs(running') = G
    <3>1. kind \in {"script", "async", "thenable"} /\ kind # "thenable"
      BY <2>1
    <3>2. running' = <<[kind |-> kind, fn |-> f]>> \o running
      BY <2>1
    <3>3. PushesFrame(running', running, kind, f)
      BY <1>1, <2>2, <3>1, <3>2, FramesOfPush, Zenon
    <3> QED
      BY <3>1, <3>3, Zenon DEF F, G, PushesFrame
  <2> QED
    BY <1>2, <2>1, <2>2, <2>4, <2>5, LeadsToSound, ZenonT(30)
<1>14. CASE ThenableJobPromise \/ ThenableJobScript
  <2> DEFINE p == job.promise
             f == nf + 1
  <2>1. job.kind = "thenable"
    BY <1>14, Zenon DEF ThenableJobPromise, ThenableJobScript, JobReady, job
  <2>2. Sound(Dequeue, F, F, G)
    <3>1. W \ {0} \subseteq F
      BY <1>6, <2>1 DEF W, NoReaction, None
    <3>2. Sound(Dequeue, F, W \ {0}, G)
      BY <1>2, <1>5, NoPairZero, Zenon
    <3> QED
      BY <3>1, <3>2, SoundMonotone, Zenon
  <2>3. /\ GoodBut(Dequeue, p) /\ p \in 1..Len(Dequeue.promise)
        /\ Dequeue.promise[p].follows = IF job.arg.kind = "promise" THEN job.arg.ref ELSE 0
    BY <1>2, <1>5, <1>6, <1>7, <2>1, Zenon
  <2>4. F \cap (1..nf) = F /\ f \in Nat /\ f # 0
    <3>1. F \cap (1..nf) = F
      BY <1>0, Zenon
    <3> QED
      BY <1>1, <3>1
  <2>5. ASSUME NEW held \in BOOLEAN, NEW S, S = CreateResolvingFunctions(Dequeue, p, held),
               held => Dequeue.promise[p].follows = 0
        PROVE  /\ Good(S) /\ WellFormed(S) /\ Sound(S, F, F \cup {f}, G)
               /\ Unresolved(S, f) /\ Len(S.func) = f /\ Len(S.promise) = Len(promise)
               /\ S.func[f].held = held /\ S.func[f].promise = p
               /\ S.promise[p].follows = Dequeue.promise[p].follows
    <3>1. Good(S) /\ AddsPair(Dequeue, S, p, held)
      BY <1>2, <2>3, <2>5, CreateResolvingFunctionsGood, CreateResolvingFunctionsType, Zenon
    <3>2. /\ Sound(S, F \cap (1..Len(Dequeue.func)), F \cup {Len(Dequeue.func) + 1}, G)
          /\ Unresolved(S, Len(Dequeue.func) + 1)
      BY <2>2, <2>3, <2>5, <3>1, AddsPairSound, ZenonT(30)
    <3>3. Sound(S, F, F \cup {f}, G) /\ Unresolved(S, f)
      BY <1>2, <2>4, <3>2, Zenon
    <3>4. /\ WellFormed(S) /\ Len(S.func) = f /\ S.promise = Dequeue.promise
          /\ S.func[f] = [promise |-> p, already_resolved |-> 0, held |-> held]
      BY <1>2, <3>1, Zenon DEF AddsPair
    <3> HIDE DEF f, p
    <3>5. S.func[f].held = held /\ S.func[f].promise = p
      BY <3>4
    <3> QED
      BY <1>2, <3>1, <3>3, <3>4, <3>5, Zenon
  <2> HIDE DEF f, p
  <2>6. CASE ThenableJobPromise
    <3> DEFINE S == CreateResolvingFunctions(Dequeue, p, FALSE)
               handlers == [b \in 0..1 |-> IF b = 0 THEN Resolver(f) ELSE Rejecter(f)]
               T == PromiseThen(S, job.arg.ref, handlers, FALSE)
    <3>0. FALSE \in BOOLEAN
      OBVIOUS
    <3>1. /\ Good(S) /\ WellFormed(S) /\ Sound(S, F, F \cup {f}, G)
          /\ Unresolved(S, f) /\ Len(S.func) = f /\ Len(S.promise) = Len(promise)
          /\ S.func[f].promise = p
          /\ S.promise[p].follows = Dequeue.promise[p].follows
      BY <2>5, <3>0, Zenon
    <3>2. job.arg.kind = "promise" /\ running' = running /\ Become(T)
      BY <2>6, <3>1, Zenon DEF ThenableJobPromise, job, p
    <3> HIDE DEF S
    <3>3. job.arg.ref \in 1..Len(S.promise)
      BY <1>6, <3>1, <3>2, Zenon DEF ValOf
    <3>4. /\ handlers \in [0..1 -> Handler]
          /\ \A b \in 0..1 : /\ handlers[b].fn = f
                             /\ handlers[b].kind = IF b = 0 THEN "resolve" ELSE "reject"
      BY <2>4 DEF Resolver, Rejecter, Handler
    <3> HIDE DEF handlers
    <3>5. S.promise[S.func[f].promise].follows = job.arg.ref
      BY <2>3, <3>1, <3>2, Zenon
    <3>6. f \in 0..Len(S.func)
      <4>1. f \in Nat /\ Len(S.func) = f
        BY <2>4, <3>1, Zenon
      <4> QED
        BY <4>1
    <3>7. ThenHandlers(S, job.arg.ref, handlers)
      <4>1. ASSUME NEW b \in 0..1
            PROVE  /\ handlers[b].kind # "async"
                   /\ handlers[b].fn \in 0..Len(S.func)
                   /\ handlers[b].kind \in {"resolve", "reject"} <=> handlers[b].fn # 0
                   /\ handlers[b].kind = "resolve" => b = 0
                   /\ handlers[b].kind = "reject" => b = 1
        <5>1. b = 0 \/ b = 1
          OBVIOUS
        <5>2. /\ handlers[b].fn = f /\ f # 0
              /\ handlers[b].kind = IF b = 0 THEN "resolve" ELSE "reject"
          BY <2>4, <3>4, Zenon
        <5>3. f \in 0..Len(S.func)
          BY <3>6
        <5> HIDE DEF S
        <5> QED
          BY <5>1, <5>2, <5>3, Zenon
      <4> QED
        BY <3>4, <3>5, <4>1, Zenon DEF ThenHandlers
    <3>8. F \subseteq 1..Len(S.func)
      BY <1>0, <1>1, <3>1 DEF f
    <3>9. \A g \in (F \cup {f}) \ F : \A b \in 0..1 : handlers[b].fn = g
      BY <3>4
    <3>10. Sound(T, F, F, G)
      BY <3>0, <3>1, <3>3, <3>7, <3>8, <3>9, PromiseThenSound, Zenon
    <3>11. WellFormed(T)
      <4>1. \A b \in 0..1 : /\ handlers[b].kind # "async"
                            /\ handlers[b].fn \in 0..Len(S.func)
                            /\ handlers[b].kind \in {"resolve", "reject"} <=> handlers[b].fn # 0
        BY <3>7 DEF ThenHandlers
      <4>2. Good(T)
        BY <3>0, <3>1, <3>3, <3>4, <4>1, PromiseThenGood, ZenonT(30)
      <4> QED
        BY <4>2, Zenon DEF Good
    <3> HIDE DEF T
    <3> QED
      BY <1>9, <3>2, <3>10, <3>11, LeadsToSound, Zenon
  <2>7. CASE ThenableJobScript
    <3> DEFINE S == CreateResolvingFunctions(Dequeue, p, TRUE)
    <3>0. TRUE \in BOOLEAN
      OBVIOUS
    <3>1. job.arg.kind = "thenable"
      BY <2>7 DEF ThenableJobScript, job
    <3>2. /\ WellFormed(S) /\ Sound(S, F, F \cup {f}, G)
          /\ Unresolved(S, f) /\ Len(S.func) = f /\ S.func[f].held
      BY <2>3, <2>5, <3>0, <3>1, Zenon
    <3>3. Become(S) /\ running' = <<[kind |-> "thenable", fn |-> f]>> \o running
      BY <2>7, <3>2, Zenon DEF ThenableJobScript, Push, job, p
    <3> HIDE DEF S
    <3>4. f \in 1..Len(S.func) /\ f \in 1..f
      BY <1>1, <3>2 DEF f
    <3>5. Free(S, f)
      BY <3>2, <3>4, Zenon DEF Sound, PairRoles
    <3>6. Sound(S, F \cup {f}, F \cup {f}, G \cup {f})
      <4>1. Sound(S, F \cup {f}, F \cup {f}, G)
        BY <3>2, <3>5, FreeJoins, Zenon
      <4> QED
        BY <3>2, <3>4, <4>1, Zenon DEF Sound, HeldPairs
    <3>7. FramePairs(running') = F \cup {f} /\ ThenablePairs(running') \subseteq G \cup {f}
      <4>1. running \in Seq(Frame(f)) /\ "thenable" \in {"script", "async", "thenable"}
        BY <1>1 DEF f
      <4>2. PushesFrame(running', running, "thenable", f)
        BY <2>4, <3>3, <3>4, <4>1, FramesOfPush, Zenon
      <4> QED
        BY <4>2, Zenon DEF F, G, PushesFrame
    <3> QED
      BY <3>2, <3>3, <3>6, <3>7, LeadsToSound, Zenon
  <2> QED
    BY <1>14, <2>6, <2>7, Zenon
<1> QED
  BY <1>11, <1>12, <1>13, <1>14, Zenon DEF ExecutePendingJob

-----------------------------------------------------------------------------
(* The inductive invariant                                                 *)

\* Every state that the engine reaches is sound.
LEMMA OutcomeInductive == Spec => []OutcomeInv
<1>1. Init => SoundNow
  <2>1. SUFFICES ASSUME Init PROVE SoundNow
    OBVIOUS
  <2>2. /\ Now = [promise |-> <<>>, func |-> <<>>, job_list |-> <<>>]
        /\ running = <<>>
    BY <2>1 DEF Init, Now
  <2>3. FramePairs(running) = {} /\ ThenablePairs(running) = {}
    BY <2>2 DEF FramePairs, ThenablePairs
  <2>4. /\ ListsOrdered(Now) /\ JobsOrdered(Now) /\ JobsFaithful(Now)
        /\ Final(Now) /\ Agree(Now) /\ ListRoles(Now) /\ JobRoles(Now)
    BY <2>2 DEF ListsOrdered, JobsOrdered, JobsFaithful, Final, Agree, ListRoles, JobRoles
  <2>5. PairRoles(Now, {}) /\ Served(Now, {}) /\ HeldPairs(Now, {})
    BY <2>2 DEF PairRoles, Served, HeldPairs
  <2> QED
    BY <2>3, <2>4, <2>5, Zenon DEF SoundNow, Sound
<1>2. IInv /\ SoundNow /\ [Next]_vars => SoundNow'
  <2>1. SUFFICES ASSUME OutcomeInv, [Next]_vars PROVE SoundNow'
    BY DEF OutcomeInv
  <2>2. CASE UNCHANGED vars
    <3>1. /\ Become(Now) /\ FramePairs(running') = FramePairs(running)
          /\ ThenablePairs(running') = ThenablePairs(running)
      BY <2>2 DEF vars, Become, Now
    <3> QED
      BY <2>1, <3>1, SoundFacts, LeadsToSound, Zenon
  <2> QED
    BY <2>1, <2>2, ScriptStepSound, FrameEndsSound, ExecutePendingJobSound, Zenon
       DEF Next, FrameEnds
<1> QED
  BY <1>1, <1>2, InductiveInvariant, PTL DEF Spec, OutcomeInv

-----------------------------------------------------------------------------
(* Theorems                                                                *)

\* promise_reaction_job runs the reactions of one promise in the order in
\* which perform_promise_then registered them.
THEOREM ReactionsRunInOrder == Spec => []ReactionsInOrder
<1>1. OutcomeInv => ReactionsInOrder
  <2>1. SUFFICES ASSUME OutcomeInv PROVE ReactionsInOrder
    OBVIOUS
  <2>2. JobsOrdered(Now) /\ Now.job_list = job_list
    BY <2>1, NowFacts DEF OutcomeInv, SoundNow, Sound
  <2> QED
    BY <2>2 DEF ReactionsInOrder, JobsOrdered, IsReactionJob, InOrder
<1> QED
  BY <1>1, OutcomeInductive, PTL

\* A pair that only the engine has is in both reaction lists of a pending
\* promise, in a queued job or in a running frame until it is called.
THEOREM NoReactionIsLost == Spec => []NoLostReaction
<1>1. OutcomeInv => NoLostReaction
  <2>1. SUFFICES ASSUME OutcomeInv PROVE NoLostReaction
    OBVIOUS
  <2>2. Served(Now, FramePairs(running)) /\ Now.func = func
    BY <2>1, NowFacts DEF OutcomeInv, SoundNow, Sound
  <2> QED
    BY <2>2 DEF NoLostReaction, Served, FramePairs
<1> QED
  BY <1>1, OutcomeInductive, PTL

\* A promise resolved with another one settles as that one did, and none is
\* fulfilled with a value that js_promise_resolve_function_call should chain to.
THEOREM OutcomesAlwaysAgree == Spec => []OutcomesAgree
<1>1. OutcomeInv => OutcomesAgree
  <2>1. SUFFICES ASSUME OutcomeInv PROVE OutcomesAgree
    OBVIOUS
  <2>2. Agree(Now) /\ Final(Now) /\ Now.promise = promise
    BY <2>1, NowFacts DEF OutcomeInv, SoundNow, Sound
  <2>3. FollowerAgrees
    BY <2>2 DEF FollowerAgrees, Agree
  <2>4. FulfilledIsFinal
    BY <2>2 DEF FulfilledIsFinal, Final, FinalKinds, Chains
  <2> QED
    BY <2>3, <2>4 DEF OutcomesAgree
<1> QED
  BY <1>1, OutcomeInductive, PTL
=============================================================================
