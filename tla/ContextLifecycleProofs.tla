----------------------- MODULE ContextLifecycleProofs -----------------------
(***************************************************************************)
(* The properties of ContextLifecycle for any number of contexts,          *)
(* callbacks and jobs.  The inductive invariant relates self.context, the  *)
(* counts of all contexts, the closures and the waiting jobs.              *)
(***************************************************************************)
EXTENDS ContextLifecycle, SequenceTheorems, TLAPS

CtxRec == [status : {"live", "freed", "dangling"}, refs : Int]
FuncRec == [ctx : Nat, lost : BOOLEAN]
JobRec == [ctx : Nat, f : Nat]

\* The wrapper has a reference to the newest context and to no other.
Owned(W) ==
  /\ W.context \in Contexts(W) /\ W.context = Len(W.contexts)
  /\ W.contexts[W.context].status = "live"
  /\ \A c \in Contexts(W) : W.contexts[c].refs = IF c = W.context THEN 1 ELSE 0

\* What the current context can call has its closure; waiting jobs are its own.
Wired(W) ==
  /\ \A f \in DOMAIN W.func : W.func[f].ctx = W.context => f \in W.callbacks
  /\ \A f \in DOMAIN W.func : W.func[f].ctx \in Contexts(W)
  /\ \A i \in DOMAIN W.job_list :
       /\ W.job_list[i].ctx = W.context
       /\ W.job_list[i].f # 0 => W.job_list[i].f \in W.callbacks

\* No context was given back while on the collector's list; no function leaked.
Sound(W) == \A c \in Contexts(W) : W.contexts[c].status # "dangling"
Unlost(W) == \A f \in DOMAIN W.func : ~W.func[f].lost

\* What holds of a wrapper that is in use, given the failures X there were.
Good(W, X) ==
  /\ Sound(W)
  /\ "leftover_jobs" \notin X => Owned(W) /\ Wired(W)
  /\ "zero_name" \notin X => Unlost(W)
  /\ "class_proto" \notin X /\ "reset" \notin X

\* How a process may have died, given the failures X there were.
DiesOnly(W, X) ==
  /\ W.crash = "stale_closure" => "leftover_jobs" \in X
  /\ W.crash = "assert" =>
       X \cap {"class_proto", "reset", "zero_name", "leftover_jobs"} # {}
  /\ W.crash = "bad_context" =>
       X \cap {"class_proto", "leftover_jobs", "empty_queue"} # {}

Bounded(W) == /\ Len(W.contexts) <= MaxContexts
              /\ Len(W.func) <= MaxCallbacks + 1
              /\ Len(W.job_list) <= MaxJobs

Inv(w, W, X) ==
  /\ w \in {"none", "new", "live"}
  /\ W \in Life /\ Bounded(W)
  /\ X \subseteq Unhandled
  /\ DiesOnly(W, X)
  /\ W.crash = "none" /\ w # "none" => Good(W, X)
  /\ W.crash = "none" /\ w = "none" => W.job_list = <<>>
  /\ w = "new" => W.func = <<>>

\* The inductive invariant.
IInv == Inv(wrapper, life, failed)

-----------------------------------------------------------------------------
(* The engine's functions                                                  *)

\* The fields of a state have their types.
LEMMA FieldTypes ==
  ASSUME NEW W \in Life
  PROVE  /\ W.context \in Nat
         /\ W.contexts \in Seq(CtxRec)
         /\ W.func \in Seq(FuncRec)
         /\ W.callbacks \subseteq Nat
         /\ W.job_list \in Seq(JobRec)
         /\ W.crash \in {"none", "assert", "bad_context", "stale_closure"}
  BY DEF Life, CtxRec, FuncRec, JobRec

\* JS_NewContext appends a live context with one reference.
LEMMA NewContextFields ==
  ASSUME NEW W \in Life
  PROVE  /\ JS_NewContext(W) \in Life
         /\ JS_NewContext(W).contexts = Append(W.contexts, [status |-> "live", refs |-> 1])
         /\ JS_NewContext(W).context = W.context
         /\ JS_NewContext(W).func = W.func
         /\ JS_NewContext(W).callbacks = W.callbacks
         /\ JS_NewContext(W).job_list = W.job_list
         /\ JS_NewContext(W).crash = W.crash
<1>1. [status |-> "live", refs |-> 1] \in CtxRec
  BY DEF CtxRec
<1>2. Append(W.contexts, [status |-> "live", refs |-> 1]) \in Seq(CtxRec)
  BY <1>1, FieldTypes, AppendProperties
<1> QED  BY <1>2, FieldTypes, Zenon DEF JS_NewContext, Life, CtxRec

\* A context that could not be completed is appended as a dangling one.
LEMMA ClassProtoFields ==
  ASSUME NEW W \in Life
  PROVE  /\ ClassProtoFails(W) \in Life
         /\ ClassProtoFails(W).contexts
              = Append(W.contexts, [status |-> "dangling", refs |-> 0])
         /\ ClassProtoFails(W).context = W.context
         /\ ClassProtoFails(W).func = W.func
         /\ ClassProtoFails(W).job_list = W.job_list
         /\ ClassProtoFails(W).crash = W.crash
<1>1. [status |-> "dangling", refs |-> 0] \in CtxRec
  BY DEF CtxRec
<1>2. Append(W.contexts, [status |-> "dangling", refs |-> 0]) \in Seq(CtxRec)
  BY <1>1, FieldTypes, AppendProperties
<1> QED  BY <1>2, FieldTypes, Zenon DEF ClassProtoFails, Life, CtxRec

\* JS_FreeContext takes one reference from a live context.
LEMMA FreeContextFields ==
  ASSUME NEW W \in Life, NEW c, LiveIn(W, c)
  PROVE  LET F == JS_FreeContext(W, c)
         IN  /\ F \in Life
             /\ F.context = W.context /\ F.func = W.func /\ F.crash = W.crash
             /\ F.callbacks = W.callbacks /\ F.job_list = W.job_list
             /\ F.contexts \in Seq(CtxRec)
             /\ Len(F.contexts) = Len(W.contexts) /\ Contexts(F) = Contexts(W)
             /\ \A d \in Contexts(W) :
                  /\ F.contexts[d].status = W.contexts[d].status
                  /\ F.contexts[d].refs = W.contexts[d].refs - (IF d = c THEN 1 ELSE 0)
<1> DEFINE old == W.contexts
           new == [old EXCEPT ![c].refs = @ - 1]
<1>1. /\ old \in Seq(CtxRec) /\ c \in DOMAIN old /\ DOMAIN old = 1..Len(old)
      /\ Len(old) \in Nat /\ old \in [1..Len(old) -> CtxRec]
  BY FieldTypes, LenProperties DEF LiveIn, Contexts
<1>2. /\ old[c] \in CtxRec
      /\ [old[c] EXCEPT !.refs = @ - 1] \in CtxRec
      /\ [old[c] EXCEPT !.refs = @ - 1].status = old[c].status
      /\ [old[c] EXCEPT !.refs = @ - 1].refs = old[c].refs - 1
  BY <1>1, SMTT(30) DEF CtxRec
<1>3. new = [old EXCEPT ![c] = [old[c] EXCEPT !.refs = @ - 1]]
  BY <1>1, <1>2
<1>4. /\ new \in Seq(CtxRec) /\ Len(new) = Len(old) /\ DOMAIN new = DOMAIN old
      /\ \A d \in DOMAIN old :
           new[d] = IF d = c THEN [old[c] EXCEPT !.refs = @ - 1] ELSE old[d]
  <2> HIDE DEF old
  <2>1. c \in 1..Len(old)  BY <1>1
  <2>2. /\ new \in Seq(CtxRec) /\ Len(new) = Len(old)
        /\ \A d \in 1..Len(old) :
             new[d] = IF d = c THEN [old[c] EXCEPT !.refs = @ - 1] ELSE old[d]
    BY <2>1, <1>1, <1>2, <1>3, ExceptSeq
  <2>3. DOMAIN new = 1..Len(new)
    BY <2>2, LenProperties
  <2> QED  BY <2>2, <2>3, <1>1
<1>5. JS_FreeContext(W, c) = [W EXCEPT !.contexts = new]
  BY <1>1 DEF JS_FreeContext, Life
<1>6. \A d \in DOMAIN old : /\ new[d].status = old[d].status
                             /\ new[d].refs = old[d].refs - (IF d = c THEN 1 ELSE 0)
  <2> TAKE d \in DOMAIN old
  <2>1. old[d] \in CtxRec  BY <1>1
  <2>2. CASE d = c  BY <2>2, <1>2, <1>4
  <2>3. CASE d # c  BY <2>1, <2>3, <1>4 DEF CtxRec
  <2> QED  BY <2>2, <2>3
<1> HIDE DEF new
<1> QED  BY <1>1, <1>4, <1>5, <1>6, FieldTypes, Zenon DEF Life, CtxRec, Contexts

\* The collector frees the live contexts that nothing keeps, or finds a count
\* that is too low; it changes nothing else.
LEMMA RunGCFields ==
  ASSUME NEW W \in Life
  PROVE  LET G == JS_RunGC(W)
         IN  /\ G \in Life
             /\ G.context = W.context /\ G.func = W.func
             /\ G.callbacks = W.callbacks /\ G.job_list = W.job_list
             /\ Len(G.contexts) = Len(W.contexts) /\ Contexts(G) = Contexts(W)
             /\ \A c \in Contexts(W) :
                  /\ G.contexts[c].refs = W.contexts[c].refs
                  /\ \/ G.contexts[c].status = W.contexts[c].status
                     \/ /\ W.contexts[c].status = "live" /\ ~Rooted(W, c)
                        /\ G.contexts[c].status = "freed"
             /\ G.crash = W.crash \/ G.crash = "assert"
             /\ (\A c \in Contexts(W) : W.contexts[c].refs >= 0) =>
                  /\ G.crash = W.crash
                  /\ \A c \in Contexts(W) :
                       W.contexts[c].status = "live" /\ ~Rooted(W, c) =>
                         G.contexts[c].status = "freed"
<1> DEFINE old == W.contexts
           new == [c \in Contexts(W) |->
                     IF LiveIn(W, c) /\ ~Rooted(W, c) THEN [old[c] EXCEPT !.status = "freed"]
                     ELSE old[c]]
           low == \E c \in Contexts(W) : LiveIn(W, c) /\ W.contexts[c].refs < 0
<1>1. /\ Len(old) \in Nat /\ Contexts(W) = 1..Len(old) /\ old \in [1..Len(old) -> CtxRec]
  BY FieldTypes, LenProperties DEF Contexts
<1>2. \A c \in 1..Len(old) :
        /\ [old[c] EXCEPT !.status = "freed"] \in CtxRec
        /\ [old[c] EXCEPT !.status = "freed"].status = "freed"
        /\ [old[c] EXCEPT !.status = "freed"].refs = old[c].refs
  BY <1>1 DEF CtxRec
<1>3. /\ new \in [1..Len(old) -> CtxRec]
      /\ \A c \in 1..Len(old) :
           /\ new[c].refs = old[c].refs
           /\ LiveIn(W, c) /\ ~Rooted(W, c) => new[c].status = "freed"
           /\ ~(LiveIn(W, c) /\ ~Rooted(W, c)) => new[c].status = old[c].status
  <2> HIDE DEF old
  <2> QED  BY <1>1, <1>2
<1>4. /\ new \in Seq(CtxRec) /\ Len(new) = Len(old) /\ DOMAIN new = 1..Len(old)
  <2> HIDE DEF old, new
  <2> QED  BY <1>1, <1>3
<1>5. JS_RunGC(W) = IF low THEN [W EXCEPT !.crash = "assert"] ELSE [W EXCEPT !.contexts = new]
  BY DEF JS_RunGC, Life
<1>6. \A c \in Contexts(W) : LiveIn(W, c) <=> old[c].status = "live"
  BY DEF LiveIn
<1>7. (\A c \in Contexts(W) : W.contexts[c].refs >= 0) => ~low
  BY <1>1 DEF CtxRec
<1>8. CASE low
  <2>1. /\ JS_RunGC(W) \in Life
        /\ JS_RunGC(W).contexts = W.contexts /\ JS_RunGC(W).crash = "assert"
        /\ JS_RunGC(W).context = W.context /\ JS_RunGC(W).func = W.func
        /\ JS_RunGC(W).callbacks = W.callbacks /\ JS_RunGC(W).job_list = W.job_list
    BY <1>5, <1>8, Zenon DEF Life
  <2> HIDE DEF low
  <2> QED  BY <2>1, <1>7, <1>8 DEF Contexts
<1>9. CASE ~low
  <2> HIDE DEF low, new
  <2>1. /\ JS_RunGC(W) \in Life
        /\ JS_RunGC(W).contexts = new /\ JS_RunGC(W).crash = W.crash
        /\ JS_RunGC(W).context = W.context /\ JS_RunGC(W).func = W.func
        /\ JS_RunGC(W).callbacks = W.callbacks /\ JS_RunGC(W).job_list = W.job_list
    BY <1>4, <1>5, <1>9, FieldTypes, Zenon DEF Life, CtxRec
  <2>2. Contexts(JS_RunGC(W)) = Contexts(W)
    BY <2>1, <1>1, <1>4 DEF Contexts
  <2> QED  BY <2>1, <2>2, <1>1, <1>3, <1>4, <1>6
<1> QED  BY <1>8, <1>9

\* Freeing the runtime ends well if nothing keeps a context.
LEMMA FreeRuntimeFacts ==
  ASSUME NEW W \in Life, W.crash = "none", NEW ub \in BOOLEAN
  PROVE  LET V == JS_FreeRuntime(W, ub)
         IN  /\ V \in Life
             /\ V.job_list = <<>> /\ V.func = W.func
             /\ Len(V.contexts) = Len(W.contexts)
             /\ V.crash \in {"none", "assert", "bad_context"}
             /\ V.crash = "none" => Sound(V)
             /\ Sound(W) => V.crash # "bad_context"
             /\ Sound(W) /\ Unlost(W) /\ (\A c \in Contexts(W) : W.contexts[c].refs = 0)
                  => V.crash = "none"
<1> DEFINE J == [W EXCEPT !.job_list = <<>>]
           G == JS_RunGC(J)
           V == JS_FreeRuntime(W, ub)
           left == \E c \in Contexts(G) : G.contexts[c].status # "freed"
           end == IF ub /\ \E c \in Contexts(G) : G.contexts[c].status = "dangling"
                  THEN "bad_context" ELSE "assert"
<1>1. /\ J \in Life /\ J.job_list = <<>> /\ J.func = W.func /\ J.crash = "none"
      /\ J.contexts = W.contexts /\ J.context = W.context
  <2>1. <<>> \in Seq([ctx : Nat, f : Nat])
    BY EmptySeq
  <2> QED  BY <2>1, Zenon DEF Life
<1>2. Contexts(J) = Contexts(W)
  BY <1>1 DEF Contexts
<1>3. /\ G \in Life /\ G.func = W.func /\ G.job_list = <<>>
      /\ Len(G.contexts) = Len(W.contexts) /\ Contexts(G) = Contexts(W)
      /\ \A c \in Contexts(W) :
           \/ G.contexts[c].status = W.contexts[c].status
           \/ G.contexts[c].status = "freed"
      /\ G.crash = "none" \/ G.crash = "assert"
      /\ (\A c \in Contexts(W) : W.contexts[c].refs >= 0) =>
           /\ G.crash = "none"
           /\ \A c \in Contexts(W) :
                W.contexts[c].status = "live" /\ ~Rooted(J, c) => G.contexts[c].status = "freed"
  <2> HIDE DEF J
  <2> QED  BY <1>1, <1>2, RunGCFields
<1>4. V = IF G.crash # "none" THEN G ELSE IF left THEN [G EXCEPT !.crash = end] ELSE G
  BY DEF JS_FreeRuntime
<1> HIDE DEF J, G
<1>5. Sound(W) => ~\E c \in Contexts(G) : G.contexts[c].status = "dangling"
  BY <1>3 DEF Sound
<1>6. CASE G.crash # "none"
  <2>1. V = G /\ G.crash = "assert"  BY <1>3, <1>4, <1>6
  <2>2. ~\A c \in Contexts(W) : W.contexts[c].refs = 0
    <3> SUFFICES ASSUME \A c \in Contexts(W) : W.contexts[c].refs = 0  PROVE FALSE
      OBVIOUS
    <3>1. \A c \in Contexts(W) : W.contexts[c].refs >= 0  OBVIOUS
    <3> QED  BY <3>1, <1>3, <1>6
  <2> QED  BY <2>1, <2>2, <1>3
<1>7. CASE G.crash = "none" /\ left
  <2>1. V = [G EXCEPT !.crash = end] /\ end \in {"bad_context", "assert"}
    BY <1>4, <1>7
  <2>2. /\ V \in Life /\ V.job_list = <<>> /\ V.func = W.func /\ V.crash = end
        /\ Len(V.contexts) = Len(W.contexts)
    <3> HIDE DEF end, V
    <3> QED  BY <2>1, <1>3, Zenon DEF Life
  <2>3. Sound(W) => end # "bad_context"
    BY <1>5
  <2>4. ~(Sound(W) /\ Unlost(W) /\ \A c \in Contexts(W) : W.contexts[c].refs = 0)
    <3> SUFFICES ASSUME Sound(W), Unlost(W), \A c \in Contexts(W) : W.contexts[c].refs = 0
                 PROVE  FALSE
      OBVIOUS
    <3>1. PICK c \in Contexts(W) : G.contexts[c].status # "freed"
      BY <1>7, <1>3
    <3>2. W.contexts[c].status = "live"
      <4>1. W.contexts[c] \in CtxRec
        BY FieldTypes, LenProperties DEF Contexts
      <4> QED  BY <3>1, <1>3, <4>1 DEF Sound, CtxRec
    <3>3. ~Rooted(J, c)
      BY <1>1, <1>2 DEF Rooted, Unlost
    <3>4. \A d \in Contexts(W) : W.contexts[d].refs >= 0  OBVIOUS
    <3> QED  BY <3>1, <3>2, <3>3, <3>4, <1>3
  <2> HIDE DEF end
  <2> QED  BY <2>1, <2>2, <2>3, <2>4
<1>8. CASE G.crash = "none" /\ ~left
  <2>1. V = G  BY <1>4, <1>8
  <2>2. Sound(G)  BY <1>8 DEF Sound
  <2> QED  BY <2>1, <2>2, <1>3, <1>8
<1> QED  BY <1>3, <1>6, <1>7, <1>8

\* Dropping a wrapper ends well if it owns its context and no function leaked.
LEMMA DroppedFacts ==
  ASSUME NEW W \in Life, W.crash = "none", NEW ub \in BOOLEAN
  PROVE  LET D == Dropped(W, ub)
         IN  /\ D \in Life
             /\ Len(D.contexts) = Len(W.contexts) /\ D.func = W.func
             /\ D.job_list = W.job_list \/ D.job_list = <<>>
             /\ D.crash \in {"none", "assert", "bad_context"}
             /\ D.crash = "none" => Sound(D) /\ D.job_list = <<>>
             /\ LiveIn(W, W.context) /\ Sound(W) => D.crash # "bad_context"
             /\ Owned(W) /\ Sound(W) /\ Unlost(W) => D.crash = "none"
<1> DEFINE F == JS_FreeContext(W, W.context)
           V == DropWrapper(W, ub)
           D == Dropped(W, ub)
<1>1. ASSUME NEW U \in Life
      PROVE  LET E == [U EXCEPT !.callbacks = {}]
             IN  /\ E \in Life /\ E.contexts = U.contexts /\ E.func = U.func
                 /\ E.job_list = U.job_list /\ E.crash = U.crash
                 /\ Sound(U) => Sound(E)
  BY <1>1, Zenon DEF Life, Sound, Contexts
<1>2. D = [V EXCEPT !.callbacks = {}]
  BY DEF Dropped
<1>3. CASE ~LiveIn(W, W.context)
  <2>1. V = [W EXCEPT !.crash = "bad_context"]
    <3>1. F = [W EXCEPT !.crash = "bad_context"]  BY <1>3 DEF JS_FreeContext
    <3>2. F.crash # "none"  BY <3>1 DEF Life
    <3> QED  BY <3>1, <3>2 DEF DropWrapper
  <2>2. /\ V \in Life /\ V.contexts = W.contexts /\ V.func = W.func
        /\ V.job_list = W.job_list /\ V.crash = "bad_context"
    BY <2>1 DEF Life
  <2>3. ~Owned(W)
    BY <1>3 DEF Owned, LiveIn
  <2> HIDE DEF V
  <2> QED  BY <2>2, <2>3, <1>1, <1>2, <1>3
<1>4. CASE LiveIn(W, W.context)
  <2>1. /\ F \in Life /\ F.func = W.func /\ F.crash = "none"
        /\ Len(F.contexts) = Len(W.contexts) /\ Contexts(F) = Contexts(W)
        /\ \A d \in Contexts(W) :
             /\ F.contexts[d].status = W.contexts[d].status
             /\ F.contexts[d].refs = W.contexts[d].refs - (IF d = W.context THEN 1 ELSE 0)
    BY <1>4, FreeContextFields
  <2>2. V = JS_FreeRuntime(F, ub)
    BY <2>1 DEF DropWrapper
  <2> HIDE DEF F, V
  <2>3. Sound(W) => Sound(F)
    BY <2>1 DEF Sound
  <2>4. Unlost(W) => Unlost(F)
    BY <2>1 DEF Unlost
  <2>5. Owned(W) => \A c \in Contexts(F) : F.contexts[c].refs = 0
    BY <2>1 DEF Owned
  <2>6. /\ V \in Life /\ V.job_list = <<>> /\ V.func = W.func
        /\ Len(V.contexts) = Len(W.contexts)
        /\ V.crash \in {"none", "assert", "bad_context"}
        /\ V.crash = "none" => Sound(V)
        /\ Sound(W) => V.crash # "bad_context"
        /\ Owned(W) /\ Sound(W) /\ Unlost(W) => V.crash = "none"
    BY <2>1, <2>2, <2>3, <2>4, <2>5, FreeRuntimeFacts
  <2> QED  BY <2>6, <1>1, <1>2
<1> QED  BY <1>3, <1>4

\* Storing a closure adds it to callbacks.
LEMMA StoreClosureFields ==
  ASSUME NEW W \in Life
  PROVE  LET S == StoreClosure(W)
         IN  /\ S \in Life
             /\ S.context = W.context /\ S.contexts = W.contexts /\ S.func = W.func
             /\ S.callbacks = W.callbacks \cup {Len(W.func) + 1}
             /\ S.job_list = W.job_list /\ S.crash = W.crash
<1>1. W.callbacks \cup {Len(W.func) + 1} \subseteq Nat
  BY FieldTypes, LenProperties
<1> QED  BY <1>1, Zenon DEF StoreClosure, Life

\* A new function is the last one, belongs to the current context, and has a
\* closure.
LEMMA NewFunctionFields ==
  ASSUME NEW W \in Life, NEW isLost \in BOOLEAN
  PROVE  LET S == NewFunction(W, isLost)
         IN  /\ S \in Life
             /\ S.context = W.context /\ S.contexts = W.contexts
             /\ S.callbacks = W.callbacks \cup {Len(W.func) + 1}
             /\ S.job_list = W.job_list /\ S.crash = W.crash
             /\ Len(S.func) = Len(W.func) + 1
             /\ DOMAIN S.func = DOMAIN W.func \cup {Len(W.func) + 1}
             /\ Len(W.func) + 1 \notin DOMAIN W.func
             /\ \A f \in DOMAIN W.func : S.func[f] = W.func[f]
             /\ S.func[Len(W.func) + 1] = [ctx |-> W.context, lost |-> isLost]
<1> DEFINE r == [ctx |-> W.context, lost |-> isLost]
           new == Append(W.func, r)
<1>1. r \in FuncRec
  BY FieldTypes DEF FuncRec
<1>2. W.func \in Seq(FuncRec) /\ Len(W.func) \in Nat /\ DOMAIN W.func = 1..Len(W.func)
  BY FieldTypes, LenProperties
<1>3. /\ new \in Seq(FuncRec) /\ Len(new) = Len(W.func) + 1
      /\ \A f \in 1..Len(W.func) : new[f] = W.func[f]
      /\ new[Len(W.func) + 1] = r
  <2> HIDE DEF r
  <2> QED  BY <1>1, <1>2, AppendProperties
<1>4. DOMAIN new = 1..(Len(W.func) + 1)
  <2> HIDE DEF new
  <2> QED  BY <1>3, LenProperties
<1>5. NewFunction(W, isLost) = [StoreClosure(W) EXCEPT !.func = new]
  BY StoreClosureFields, Zenon DEF NewFunction, Life
<1> HIDE DEF new
<1>6. LET S == NewFunction(W, isLost)
      IN  /\ S \in Life /\ S.func = new
          /\ S.context = W.context /\ S.contexts = W.contexts
          /\ S.callbacks = W.callbacks \cup {Len(W.func) + 1}
          /\ S.job_list = W.job_list /\ S.crash = W.crash
  BY <1>3, <1>5, StoreClosureFields, ZenonT(30) DEF Life, FuncRec
<1>7. /\ 1..(Len(W.func) + 1) = 1..Len(W.func) \cup {Len(W.func) + 1}
      /\ Len(W.func) + 1 \notin 1..Len(W.func)
  BY <1>2
<1> QED  BY <1>2, <1>3, <1>4, <1>6, <1>7

-----------------------------------------------------------------------------
(* The steps                                                               *)

\* A wrapper in use whose context is gone was reset while jobs waited.
LEMMA ContextIsLive ==
  ASSUME NEW W, NEW X, Good(W, X), "leftover_jobs" \notin X
  PROVE  LiveIn(W, W.context)
  BY DEF Good, Owned, LiveIn

\* An operation that uses self.context does what it should, or meets a context
\* that is gone.
LEMMA UsesInv ==
  ASSUME IInv, Running, wrapper = "live", NEW W, NEW X, failed \subseteq X,
         Inv("live", W, X)
  PROVE  Inv("live", Uses(W), X)
<1>1. CASE LiveIn(life, life.context)
  BY <1>1 DEF Uses
<1>2. CASE ~LiveIn(life, life.context)
  <2>1. "leftover_jobs" \in X
    BY <1>2, ContextIsLive DEF IInv, Inv, Running
  <2>2. Uses(W) = [life EXCEPT !.crash = "bad_context"]
    BY <1>2 DEF Uses
  <2>3. /\ Uses(W) \in Life /\ Uses(W).crash = "bad_context"
        /\ Uses(W).contexts = life.contexts /\ Uses(W).func = life.func
        /\ Uses(W).job_list = life.job_list
    BY <2>2, Zenon DEF IInv, Inv, Life
  <2>4. Bounded(Uses(W))
    BY <2>3 DEF Bounded, IInv, Inv
  <2> QED  BY <2>1, <2>3, <2>4 DEF Inv, DiesOnly
<1> QED  BY <1>1, <1>2

\* Storing a closure disturbs nothing.
LEMMA StoreClosureGood ==
  ASSUME NEW W \in Life, NEW X, Good(W, X)
  PROVE  Good(StoreClosure(W), X)
<1> DEFINE S == StoreClosure(W)
<1>1. /\ S.context = W.context /\ S.contexts = W.contexts /\ S.func = W.func
      /\ W.callbacks \subseteq S.callbacks /\ S.job_list = W.job_list
  BY StoreClosureFields
<1>2. Contexts(S) = Contexts(W)  BY <1>1 DEF Contexts
<1> HIDE DEF S
<1>3. Sound(S) /\ (Unlost(W) => Unlost(S)) /\ (Owned(W) => Owned(S))
  BY <1>1, <1>2 DEF Good, Sound, Unlost, Owned
<1>4. Wired(W) => Wired(S)
  BY <1>1, <1>2 DEF Wired
<1> QED  BY <1>3, <1>4 DEF Good, S

\* A new function disturbs nothing, if it is recorded that it leaked.
LEMMA NewFunctionGood ==
  ASSUME NEW W \in Life, NEW isLost \in BOOLEAN, NEW X, Good(W, X),
         isLost => "zero_name" \in X
  PROVE  Good(NewFunction(W, isLost), X)
<1> DEFINE S == NewFunction(W, isLost)
           n == Len(W.func) + 1
<1>1. /\ S.context = W.context /\ S.contexts = W.contexts
      /\ S.callbacks = W.callbacks \cup {n} /\ S.job_list = W.job_list
      /\ DOMAIN S.func = DOMAIN W.func \cup {n}
      /\ \A f \in DOMAIN W.func : S.func[f] = W.func[f]
      /\ S.func[n] = [ctx |-> W.context, lost |-> isLost]
  BY NewFunctionFields
<1>2. Contexts(S) = Contexts(W)  BY <1>1 DEF Contexts
<1>3. S.func[n].ctx = W.context /\ S.func[n].lost = isLost
  BY <1>1
<1> HIDE DEF S, n
<1>4. Sound(S) /\ (Owned(W) => Owned(S))
  BY <1>1, <1>2 DEF Good, Sound, Owned
<1>5. Owned(W) /\ Wired(W) => Wired(S)
  BY <1>1, <1>2, <1>3 DEF Wired, Owned
<1>6. "zero_name" \notin X /\ Unlost(W) => Unlost(S)
  BY <1>1, <1>3 DEF Unlost
<1> QED  BY <1>4, <1>5, <1>6 DEF Good, S

\* Calling a closure changes nothing, unless the closure is gone.
LEMMA CallClosureInv ==
  ASSUME NEW W, NEW X, NEW f,
         Inv("live", W, X), W.crash = "none",
         "leftover_jobs" \notin X /\ f # 0 => f \in W.callbacks
  PROVE  Inv("live", CallClosure(W, f), X)
<1>1. CASE f = 0 \/ f \in W.callbacks
  BY <1>1 DEF CallClosure
<1>2. CASE ~(f = 0 \/ f \in W.callbacks)
  <2> DEFINE S == CallClosure(W, f)
  <2>1. S = [W EXCEPT !.crash = "stale_closure"]
    BY <1>2 DEF CallClosure
  <2>2. /\ S \in Life /\ S.crash = "stale_closure" /\ S.contexts = W.contexts
        /\ S.func = W.func /\ S.job_list = W.job_list
    BY <2>1, Zenon DEF Inv, Life
  <2>3. Bounded(S)
    BY <2>2 DEF Bounded, Inv
  <2> HIDE DEF S
  <2>4. "leftover_jobs" \in X
    BY <1>2
  <2>5. Inv("live", S, X)
    BY <2>2, <2>3, <2>4 DEF Inv, DiesOnly
  <2> QED  BY <2>5 DEF S
<1> QED  BY <1>1, <1>2

\* A wrapper in use can be dropped.
LEMMA DroppedInv ==
  ASSUME NEW W \in Life, W.crash = "none", Bounded(W), NEW X \in SUBSET Unhandled,
         Good(W, X), NEW ub \in BOOLEAN
  PROVE  Inv("none", Dropped(W, ub), X)
<1> DEFINE D == Dropped(W, ub)
<1>1. /\ D \in Life
      /\ Len(D.contexts) = Len(W.contexts) /\ D.func = W.func
      /\ D.job_list = W.job_list \/ D.job_list = <<>>
      /\ D.crash \in {"none", "assert", "bad_context"}
      /\ D.crash = "none" => D.job_list = <<>>
      /\ LiveIn(W, W.context) /\ Sound(W) => D.crash # "bad_context"
      /\ Owned(W) /\ Sound(W) /\ Unlost(W) => D.crash = "none"
  BY DroppedFacts
<1> HIDE DEF D
<1>2. Len(<<>>) = 0 /\ MaxJobs \in Nat
  BY LifeBoundsAssumption, EmptySeq
<1>3. Bounded(D)
  BY <1>1, <1>2 DEF Bounded
<1>4. D.crash = "bad_context" => "leftover_jobs" \in X
  BY <1>1, ContextIsLive DEF Good
<1>5. D.crash = "assert" => "leftover_jobs" \in X \/ "zero_name" \in X
  BY <1>1 DEF Good
<1>6. DiesOnly(D, X)
  BY <1>1, <1>4, <1>5 DEF DiesOnly
<1> QED  BY <1>1, <1>3, <1>6 DEF Inv, D

\* A new runtime has nothing in it.
LEMMA FreshFields ==
  ASSUME IInv, Running, wrapper = "none"
  PROVE  /\ Fresh \in Life /\ Fresh.contexts = <<>> /\ Fresh.func = <<>>
         /\ Fresh.job_list = <<>> /\ Fresh.callbacks = {} /\ Fresh.crash = "none"
<1>1. life \in Life /\ life.job_list = <<>> /\ life.crash = "none"
  BY DEF IInv, Inv, Running
<1>2. <<>> \in Seq([status : {"live", "freed", "dangling"}, refs : Int])
  BY EmptySeq
<1>3. <<>> \in Seq([ctx : Nat, lost : BOOLEAN])
  BY EmptySeq
<1> QED  BY <1>1, <1>2, <1>3, Zenon DEF Fresh, Life, NULL

\* A new wrapper starts with one context, or leaves nothing behind.
LEMMA NewStep ==
  ASSUME IInv, New
  PROVE  IInv'
<1>1. Running /\ wrapper = "none"
  BY DEF New
<1>2. /\ Fresh \in Life /\ Fresh.contexts = <<>> /\ Fresh.func = <<>>
      /\ Fresh.job_list = <<>> /\ Fresh.callbacks = {} /\ Fresh.crash = "none"
  BY <1>1, FreshFields
<1>3. /\ Len(<<>>) = 0 /\ DOMAIN <<>> = {}
      /\ MaxContexts \in Nat /\ MaxContexts >= 1 /\ MaxCallbacks \in Nat /\ MaxJobs \in Nat
  BY LifeBoundsAssumption
<1>4. CASE Step("new", [JS_NewContext(Fresh) EXCEPT !.context = 1], {})
  <2> DEFINE r == [status |-> "live", refs |-> 1]
             S == [JS_NewContext(Fresh) EXCEPT !.context = 1]
  <2>1. /\ S \in Life /\ S.context = 1 /\ S.contexts = Append(<<>>, r)
        /\ S.func = <<>> /\ S.job_list = <<>> /\ S.crash = "none"
    BY <1>2, NewContextFields, Zenon DEF Life
  <2>2. S.contexts = <<r>> /\ Len(S.contexts) = 1 /\ Contexts(S) = {1} /\ S.contexts[1] = r
    <3> HIDE DEF r, S
    <3> QED  BY <2>1 DEF Contexts
  <2>3. S.contexts[1].status = "live" /\ S.contexts[1].refs = 1
    <3> HIDE DEF S
    <3> QED  BY <2>2
  <2> HIDE DEF r, S
  <2>4. Owned(S)
    BY <2>1, <2>2, <2>3 DEF Owned
  <2>5. Wired(S) /\ Sound(S) /\ Unlost(S)
    BY <2>1, <2>2, <2>3, <1>3 DEF Wired, Sound, Unlost
  <2>6. Bounded(S)
    BY <2>1, <2>2, <1>3 DEF Bounded
  <2>7. Inv("new", S, {})
    BY <2>1, <2>4, <2>5, <2>6 DEF Inv, Good, DiesOnly
  <2>8. wrapper' = "new" /\ life' = S /\ failed' = {}
    BY <1>4 DEF Step, S
  <2> QED  BY <2>7, <2>8 DEF IInv
<1>5. CASE UNCHANGED vars
  BY <1>5 DEF vars, IInv
<1>6. CASE \E ub \in BOOLEAN : Step("none", JS_FreeRuntime(Fresh, ub), {})
  <2>1. PICK ub \in BOOLEAN : Step("none", JS_FreeRuntime(Fresh, ub), {})
    BY <1>6
  <2> DEFINE V == JS_FreeRuntime(Fresh, ub)
  <2>2. Contexts(Fresh) = {} /\ Sound(Fresh) /\ Unlost(Fresh)
    BY <1>2, <1>3 DEF Contexts, Sound, Unlost
  <2>3. /\ V \in Life /\ V.job_list = <<>> /\ V.func = <<>> /\ Len(V.contexts) = 0
        /\ V.crash = "none"
    BY <1>2, <1>3, <2>2, FreeRuntimeFacts
  <2> HIDE DEF V
  <2>4. Bounded(V)
    BY <2>3, <1>3 DEF Bounded
  <2>5. Inv("none", V, {})
    BY <2>3, <2>4 DEF Inv, DiesOnly
  <2>6. wrapper' = "none" /\ life' = V /\ failed' = {}
    BY <2>1 DEF Step, V
  <2> QED  BY <2>5, <2>6 DEF IInv
<1>7. CASE \E ub \in BOOLEAN :
             Step("none", JS_FreeRuntime(ClassProtoFails(Fresh), ub), {"class_proto"})
  <2> DEFINE C == ClassProtoFails(Fresh)
  <2>1. PICK ub \in BOOLEAN : Step("none", JS_FreeRuntime(C, ub), {"class_proto"})
    BY <1>7
  <2> DEFINE V == JS_FreeRuntime(C, ub)
  <2>2. /\ C \in Life /\ C.func = <<>> /\ C.crash = "none"
    BY <1>2, ClassProtoFields
  <2>3. Len(C.contexts) = 1
    <3>1. C.contexts = Append(<<>>, [status |-> "dangling", refs |-> 0])
      BY <1>2, ClassProtoFields
    <3> HIDE DEF C
    <3> QED  BY <3>1
  <2> HIDE DEF C
  <2>4. /\ V \in Life /\ V.job_list = <<>> /\ V.func = <<>> /\ Len(V.contexts) = 1
        /\ V.crash \in {"none", "assert", "bad_context"}
    BY <2>2, <2>3, FreeRuntimeFacts
  <2> HIDE DEF V
  <2>5. Bounded(V)
    BY <2>4, <1>3 DEF Bounded
  <2>6. DiesOnly(V, {"class_proto"})
    BY <2>4 DEF DiesOnly
  <2>7. {"class_proto"} \subseteq Unhandled
    BY DEF Unhandled
  <2>8. Inv("none", V, {"class_proto"})
    BY <2>4, <2>5, <2>6, <2>7 DEF Inv
  <2>9. wrapper' = "none" /\ life' = V /\ failed' = {"class_proto"}
    BY <2>1 DEF Step, V
  <2> QED  BY <2>8, <2>9 DEF IInv
<1> QED  BY <1>4, <1>5, <1>6, <1>7 DEF New

\* set_console ends with a wrapper in use or with a dropped one.
LEMMA BuildStep ==
  ASSUME IInv, Build
  PROVE  IInv'
<1>1. /\ wrapper = "new" /\ life \in Life /\ life.crash = "none"
      /\ Bounded(life) /\ Good(life, failed) /\ failed \in SUBSET Unhandled
      /\ life.func = <<>>
  BY DEF Build, IInv, Inv, Running
<1> DEFINE S == StoreClosure(life)
           N == NewFunction(life, FALSE)
<1>2. /\ S \in Life /\ S.contexts = life.contexts /\ S.func = life.func
      /\ S.job_list = life.job_list /\ S.crash = "none"
  BY <1>1, StoreClosureFields
<1>3. /\ N \in Life /\ N.contexts = life.contexts /\ Len(N.func) = Len(life.func) + 1
      /\ N.job_list = life.job_list /\ N.crash = "none"
  BY <1>1, NewFunctionFields, Zenon
<1>4. Good(S, failed) /\ Good(N, failed)
  BY <1>1, StoreClosureGood, NewFunctionGood, Zenon
<1>5. Len(life.func) = 0 /\ MaxCallbacks \in Nat
  BY <1>1, LifeBoundsAssumption
<1> HIDE DEF S, N
<1>6. Bounded(S) /\ Bounded(N)
  BY <1>1, <1>2, <1>3, <1>5 DEF Bounded
<1>7. CASE Goes("live", life)
  <2>1. Inv("live", life, failed)
    BY <1>1 DEF Inv, DiesOnly
  <2> QED  BY <2>1, <1>7 DEF Goes, Step, IInv
<1>8. CASE Goes("live", N)
  <2>1. Inv("live", N, failed)
    BY <1>1, <1>3, <1>4, <1>6 DEF Inv, DiesOnly
  <2> QED  BY <2>1, <1>8 DEF Goes, Step, IInv
<1>9. CASE \E ub \in BOOLEAN, W \in {S, N} : Goes("none", Dropped(W, ub))
  <2>1. PICK ub \in BOOLEAN, W \in {S, N} : Goes("none", Dropped(W, ub))
    BY <1>9
  <2>2. Inv("none", Dropped(W, ub), failed)
    BY <1>1, <1>2, <1>3, <1>4, <1>6, DroppedInv
  <2> QED  BY <2>1, <2>2 DEF Goes, Step, IInv
<1> QED  BY <1>7, <1>8, <1>9, Zenon DEF Build, S, N

\* What holds in a state with a wrapper in use.
LEMMA LiveFacts ==
  ASSUME IInv, Running, wrapper = "live"
  PROVE  /\ life \in Life /\ life.crash = "none" /\ Bounded(life)
         /\ Good(life, failed) /\ failed \in SUBSET Unhandled
         /\ DiesOnly(life, failed)
  BY DEF IInv, Inv, Running

\* add_callback keeps the closure of every function it makes.
LEMMA AddCallbackStep ==
  ASSUME IInv, AddCallback
  PROVE  IInv'
<1>1. Running /\ wrapper = "live" /\ Len(life.func) < MaxCallbacks
  BY DEF AddCallback
<1>2. /\ life \in Life /\ life.crash = "none" /\ Bounded(life)
      /\ Good(life, failed) /\ failed \in SUBSET Unhandled
  BY <1>1, LiveFacts
<1>3. Len(life.func) \in Nat /\ MaxCallbacks \in Nat
  BY <1>2, FieldTypes, LenProperties, LifeBoundsAssumption
<1> DEFINE S == StoreClosure(life)
<1>4. ASSUME NEW isLost \in BOOLEAN, NEW X \in SUBSET Unhandled, failed \subseteq X,
             isLost => "zero_name" \in X, Good(life, X)
      PROVE  Inv("live", Uses(NewFunction(life, isLost)), X)
  <2> DEFINE N == NewFunction(life, isLost)
  <2>1. /\ N \in Life /\ N.contexts = life.contexts /\ Len(N.func) = Len(life.func) + 1
        /\ N.job_list = life.job_list /\ N.crash = "none"
    BY <1>2, NewFunctionFields, Zenon
  <2>2. Good(N, X)
    BY <1>2, <1>4, NewFunctionGood
  <2> HIDE DEF N
  <2>3. Bounded(N)
    BY <1>1, <1>2, <1>3, <2>1 DEF Bounded
  <2>4. Inv("live", N, X)
    BY <1>4, <2>1, <2>2, <2>3 DEF Inv, DiesOnly
  <2> QED  BY <1>1, <1>4, <2>4, UsesInv DEF N
<1>5. CASE Goes("live", Uses(NewFunction(life, FALSE)))
  <2>1. Inv("live", Uses(NewFunction(life, FALSE)), failed)
    BY <1>2, <1>4, Zenon
  <2> QED  BY <2>1, <1>5, Zenon DEF Goes, Step, IInv
<1>6. CASE Goes("live", Uses(S))
  <2>1. /\ S \in Life /\ S.contexts = life.contexts /\ S.func = life.func
        /\ S.job_list = life.job_list /\ S.crash = "none"
    BY <1>2, StoreClosureFields
  <2>2. Good(S, failed)
    BY <1>2, StoreClosureGood
  <2> HIDE DEF S
  <2>3. Bounded(S)
    BY <1>2, <2>1 DEF Bounded
  <2>4. Inv("live", S, failed)
    BY <1>2, <2>1, <2>2, <2>3 DEF Inv, DiesOnly
  <2>5. Inv("live", Uses(S), failed)
    BY <1>1, <2>4, UsesInv
  <2> QED  BY <2>5, <1>6 DEF Goes, Step, IInv
<1>7. CASE Step("live", Uses(NewFunction(life, TRUE)), failed \cup {"zero_name"})
  <2> DEFINE X == failed \cup {"zero_name"}
  <2>1. X \in SUBSET Unhandled /\ failed \subseteq X /\ "zero_name" \in X
    BY <1>2 DEF Unhandled
  <2>2. Good(life, X)
    BY <1>2 DEF Good
  <2>3. Inv("live", Uses(NewFunction(life, TRUE)), X)
    <3> HIDE DEF X
    <3> QED  BY <2>1, <2>2, <1>4, Zenon
  <2> QED  BY <2>3, <1>7, Zenon DEF Step, IInv
<1> QED  BY <1>5, <1>6, <1>7, Zenon DEF AddCallback

\* A script calls callbacks of its own context, whose closures are kept.
LEMMA EvalCallsStep ==
  ASSUME IInv, EvalCalls
  PROVE  IInv'
<1>1. Running /\ wrapper = "live"
  BY DEF EvalCalls
<1>2. PICK f \in InScope : Goes("live", Uses(CallClosure(life, f)))
  BY DEF EvalCalls
<1>3. /\ life.crash = "none" /\ Good(life, failed)
  BY <1>1, LiveFacts
<1>4. "leftover_jobs" \notin failed => f \in life.callbacks
  BY <1>2, <1>3 DEF Good, Wired, InScope
<1>5. Inv("live", life, failed)
  BY <1>1 DEF IInv
<1>6. Inv("live", CallClosure(life, f), failed)
  BY <1>3, <1>4, <1>5, CallClosureInv
<1>7. Inv("live", Uses(CallClosure(life, f)), failed)
  BY <1>1, <1>6, UsesInv
<1> QED  BY <1>2, <1>7 DEF Goes, Step, IInv

\* A job of the current context can be queued where there is room.
LEMMA QueueInv ==
  ASSUME NEW W, NEW X, NEW c \in Nat, NEW f \in Nat,
         Inv("live", W, X), Len(W.job_list) < MaxJobs,
         W.crash = "none" /\ "leftover_jobs" \notin X =>
           c = W.context /\ (f # 0 => f \in W.callbacks)
  PROVE  Inv("live", [W EXCEPT !.job_list = Append(@, [ctx |-> c, f |-> f])], X)
<1> DEFINE r == [ctx |-> c, f |-> f]
           new == Append(W.job_list, r)
           S == [W EXCEPT !.job_list = new]
<1>1. W \in Life /\ Bounded(W) /\ X \subseteq Unhandled /\ DiesOnly(W, X)
  BY DEF Inv
<1>2. /\ W.job_list \in Seq(JobRec) /\ Len(W.job_list) \in Nat
      /\ DOMAIN W.job_list = 1..Len(W.job_list) /\ MaxJobs \in Nat
  BY <1>1, FieldTypes, LenProperties, LifeBoundsAssumption
<1>3. r \in JobRec /\ r.ctx = c /\ r.f = f
  BY DEF JobRec
<1>4. /\ new \in Seq(JobRec) /\ Len(new) = Len(W.job_list) + 1
      /\ \A i \in 1..Len(W.job_list) : new[i] = W.job_list[i]
      /\ new[Len(W.job_list) + 1] = r
  <2> HIDE DEF r
  <2> QED  BY <1>2, <1>3, AppendProperties
<1> HIDE DEF r
<1>5. DOMAIN new = 1..(Len(W.job_list) + 1)
  <2> HIDE DEF new
  <2> QED  BY <1>4, LenProperties
<1> HIDE DEF new
<1>6. /\ S \in Life /\ S.job_list = new /\ S.context = W.context
      /\ S.contexts = W.contexts /\ S.func = W.func
      /\ S.callbacks = W.callbacks /\ S.crash = W.crash
  BY <1>1, <1>4, Zenon DEF Life, JobRec
<1> HIDE DEF S
<1>7. Bounded(S)
  BY <1>1, <1>2, <1>4, <1>6 DEF Bounded
<1>8. Contexts(S) = Contexts(W)
  BY <1>6 DEF Contexts
<1>9. W.crash = "none" => Good(S, X)
  <2> SUFFICES ASSUME W.crash = "none"  PROVE Good(S, X)
    OBVIOUS
  <2>1. Good(W, X)  BY DEF Inv
  <2>2. /\ Sound(S) /\ (Unlost(W) => Unlost(S)) /\ (Owned(W) => Owned(S))
    BY <2>1, <1>6, <1>8 DEF Good, Sound, Unlost, Owned
  <2>3. "leftover_jobs" \notin X => Wired(S)
    <3> SUFFICES ASSUME "leftover_jobs" \notin X  PROVE Wired(S)
      OBVIOUS
    <3>1. Wired(W)  BY <2>1 DEF Good
    <3>2. ASSUME NEW i \in DOMAIN S.job_list
          PROVE  /\ S.job_list[i].ctx = S.context
                 /\ S.job_list[i].f # 0 => S.job_list[i].f \in S.callbacks
      <4>1. CASE i \in 1..Len(W.job_list)
        BY <4>1, <3>1, <1>2, <1>4, <1>6 DEF Wired
      <4>2. CASE i = Len(W.job_list) + 1
        BY <4>2, <1>3, <1>4, <1>6
      <4> QED  BY <3>2, <4>1, <4>2, <1>2, <1>5, <1>6
    <3> QED  BY <3>1, <3>2, <1>6, <1>8 DEF Wired
  <2> QED  BY <2>1, <2>2, <2>3 DEF Good
<1>10. Inv("live", S, X)
  BY <1>1, <1>6, <1>7, <1>9 DEF Inv, DiesOnly
<1> QED  BY <1>10 DEF S, new, r

\* A script queues jobs of its own context.
LEMMA EvalQueuesStep ==
  ASSUME IInv, EvalQueues
  PROVE  IInv'
<1>1. Running /\ wrapper = "live" /\ Len(life.job_list) < MaxJobs
  BY DEF EvalQueues
<1> DEFINE Q(f) == [life EXCEPT !.job_list = Append(@, [ctx |-> life.context, f |-> f])]
<1>2. PICK f \in InScope \cup {0} : Goes("live", Uses(Q(f)))
  BY Zenon DEF EvalQueues
<1>3. life \in Life /\ life.crash = "none" /\ Good(life, failed)
  BY <1>1, LiveFacts
<1>4. f \in Nat /\ life.context \in Nat
  BY <1>2, <1>3, FieldTypes, LenProperties DEF InScope
<1>5. "leftover_jobs" \notin failed => (f # 0 => f \in life.callbacks)
  BY <1>2, <1>3 DEF Good, Wired, InScope
<1>6. Inv("live", life, failed)
  BY <1>1 DEF IInv
<1>7. Inv("live", Q(f), failed)
  BY <1>1, <1>4, <1>5, <1>6, QueueInv
<1> HIDE DEF Q
<1>8. Inv("live", Uses(Q(f)), failed)
  BY <1>1, <1>7, UsesInv
<1> QED  BY <1>2, <1>8 DEF Goes, Step, IInv

\* The loop runs a job in the context that queued it.
LEMMA RunJobStep ==
  ASSUME IInv, RunJob
  PROVE  IInv'
<1> DEFINE job == Head(life.job_list)
           W == [life EXCEPT !.job_list = Tail(@), !.context = job.ctx]
           C == CallClosure(W, job.f)
           A == [C EXCEPT !.job_list = Append(@, [job EXCEPT !.f = 0])]
<1>1. /\ Running /\ wrapper = "live" /\ life.job_list # <<>>
      /\ Goes("live", Uses(C)) \/ Goes("live", Uses(A))
  BY DEF RunJob
<1>2. /\ life \in Life /\ life.crash = "none" /\ Bounded(life)
      /\ Good(life, failed) /\ failed \in SUBSET Unhandled
  BY <1>1, LiveFacts
<1>3. /\ life.job_list \in Seq(JobRec) /\ Len(life.job_list) \in Nat
      /\ DOMAIN life.job_list = 1..Len(life.job_list) /\ MaxJobs \in Nat
  BY <1>2, FieldTypes, LenProperties, LifeBoundsAssumption
<1>4. /\ job \in JobRec /\ job = life.job_list[1] /\ 1 \in DOMAIN life.job_list
      /\ Tail(life.job_list) \in Seq(JobRec)
      /\ Len(Tail(life.job_list)) = Len(life.job_list) - 1
      /\ \A i \in 1..Len(Tail(life.job_list)) :
           Tail(life.job_list)[i] = life.job_list[i + 1]
  BY <1>1, <1>3, HeadTailProperties
<1>5. DOMAIN Tail(life.job_list) = 1..Len(Tail(life.job_list))
  BY <1>4, LenProperties
<1> HIDE DEF job
<1>6. /\ job.ctx \in Nat /\ job.f \in Nat
      /\ [job EXCEPT !.f = 0] = [ctx |-> job.ctx, f |-> 0]
  BY <1>4, SMTT(30) DEF JobRec
<1>7. /\ W \in Life /\ W.job_list = Tail(life.job_list) /\ W.context = job.ctx
      /\ W.contexts = life.contexts /\ W.func = life.func
      /\ W.callbacks = life.callbacks /\ W.crash = "none"
  BY <1>2, <1>4, <1>6, Zenon DEF Life, JobRec
<1> HIDE DEF W
<1>8. Contexts(W) = Contexts(life)
  BY <1>7 DEF Contexts
<1>9. "leftover_jobs" \notin failed =>
        /\ W.context = life.context
        /\ job.f # 0 => job.f \in W.callbacks
  BY <1>2, <1>4, <1>7 DEF Good, Wired
<1>10. "leftover_jobs" \notin failed => Wired(W)
  <2> SUFFICES ASSUME "leftover_jobs" \notin failed  PROVE Wired(W)
    OBVIOUS
  <2>1. Wired(life)  BY <1>2 DEF Good
  <2>2. ASSUME NEW i \in DOMAIN W.job_list
        PROVE  i + 1 \in DOMAIN life.job_list /\ W.job_list[i] = life.job_list[i + 1]
    BY <2>2, <1>3, <1>4, <1>5, <1>7
  <2> QED  BY <2>1, <2>2, <1>7, <1>8, <1>9 DEF Wired
<1>11. Good(W, failed)
  <2>1. Sound(W) /\ (Unlost(life) => Unlost(W))
    BY <1>2, <1>7, <1>8 DEF Good, Sound, Unlost
  <2>2. "leftover_jobs" \notin failed => Owned(W)
    BY <1>2, <1>7, <1>8, <1>9 DEF Good, Owned
  <2> QED  BY <2>1, <2>2, <1>2, <1>10 DEF Good
<1>12. Bounded(W)
  BY <1>2, <1>3, <1>4, <1>7 DEF Bounded
<1>13. Inv("live", W, failed)
  BY <1>2, <1>7, <1>11, <1>12 DEF Inv, DiesOnly
<1>14. Inv("live", C, failed)
  BY <1>7, <1>9, <1>13, CallClosureInv
<1>15. C.job_list = W.job_list /\ C.context = W.context /\ C.callbacks = W.callbacks
  BY <1>7 DEF CallClosure, Life
<1> HIDE DEF C
<1>16. Inv("live", A, failed)
  <2>1. Len(C.job_list) < MaxJobs
    BY <1>2, <1>3, <1>4, <1>7, <1>15 DEF Bounded
  <2>2. C.crash = "none" /\ "leftover_jobs" \notin failed => job.ctx = C.context
    BY <1>7, <1>15
  <2>3. A = [C EXCEPT !.job_list = Append(@, [ctx |-> job.ctx, f |-> 0])]
    BY <1>6, Zenon
  <2> HIDE DEF A
  <2> QED  BY <2>1, <2>2, <2>3, <1>6, <1>14, QueueInv
<1> HIDE DEF A
<1>17. Inv("live", Uses(C), failed) /\ Inv("live", Uses(A), failed)
  BY <1>1, <1>14, <1>16, UsesInv
<1> QED  BY <1>1, <1>17 DEF Goes, Step, IInv

\* A loop without a job to run ends the process, as its failure says.
LEMMA RunNoJobStep ==
  ASSUME IInv, RunNoJob
  PROVE  IInv'
<1> DEFINE W == [life EXCEPT !.context = NULL, !.crash = "bad_context"]
           X == failed \cup {"empty_queue"}
<1>1. /\ Running /\ wrapper = "live" /\ Step("live", W, X)
  BY DEF RunNoJob
<1>2. life \in Life /\ Bounded(life) /\ failed \in SUBSET Unhandled
  BY <1>1, LiveFacts
<1>3. /\ W \in Life /\ W.contexts = life.contexts /\ W.func = life.func
      /\ W.job_list = life.job_list /\ W.crash = "bad_context"
  BY <1>2, Zenon DEF Life, NULL
<1> HIDE DEF W
<1>4. Bounded(W)
  BY <1>2, <1>3 DEF Bounded
<1>5. X \subseteq Unhandled
  BY <1>2 DEF Unhandled
<1>6. DiesOnly(W, X)
  BY <1>3 DEF DiesOnly
<1>7. Inv("live", W, X)
  BY <1>3, <1>4, <1>5, <1>6 DEF Inv
<1> QED  BY <1>1, <1>7 DEF Step, IInv

\* Dropping a Context frees all of it, but for the failures that leak.
LEMMA DropStep ==
  ASSUME IInv, Drop
  PROVE  IInv'
<1>1. Running /\ wrapper = "live"
  BY DEF Drop
<1>2. PICK ub \in BOOLEAN : Goes("none", Dropped(life, ub))
  BY DEF Drop
<1>3. Inv("none", Dropped(life, ub), failed)
  BY <1>1, LiveFacts, DroppedInv
<1> QED  BY <1>2, <1>3 DEF Goes, Step, IInv

\* The collector never frees the context the wrapper owns.
LEMMA CollectGarbageStep ==
  ASSUME IInv, CollectGarbage
  PROVE  IInv'
<1> DEFINE G == JS_RunGC(life)
<1>1. Running /\ wrapper = "live" /\ Goes("live", Uses(G))
  BY DEF CollectGarbage
<1>2. /\ life \in Life /\ life.crash = "none" /\ Bounded(life)
      /\ Good(life, failed) /\ failed \in SUBSET Unhandled
  BY <1>1, LiveFacts
<1>3. /\ G \in Life
      /\ G.context = life.context /\ G.func = life.func
      /\ G.callbacks = life.callbacks /\ G.job_list = life.job_list
      /\ Len(G.contexts) = Len(life.contexts) /\ Contexts(G) = Contexts(life)
      /\ \A c \in Contexts(life) :
           /\ G.contexts[c].refs = life.contexts[c].refs
           /\ \/ G.contexts[c].status = life.contexts[c].status
              \/ /\ life.contexts[c].status = "live" /\ ~Rooted(life, c)
                 /\ G.contexts[c].status = "freed"
      /\ G.crash = life.crash \/ G.crash = "assert"
  BY <1>2, RunGCFields
<1>4. "leftover_jobs" \notin failed => G.crash = "none"
  <2> SUFFICES ASSUME "leftover_jobs" \notin failed  PROVE G.crash = "none"
    OBVIOUS
  <2>1. \A c \in Contexts(life) : ~(life.contexts[c].refs < 0)
    BY <1>2 DEF Good, Owned
  <2>2. G = [life EXCEPT !.contexts =
               [c \in Contexts(life) |->
                  IF LiveIn(life, c) /\ ~Rooted(life, c)
                  THEN [life.contexts[c] EXCEPT !.status = "freed"]
                  ELSE life.contexts[c]]]
    BY <2>1 DEF JS_RunGC
  <2> QED  BY <2>2, <1>2 DEF Life
<1> HIDE DEF G
<1>5. DiesOnly(G, failed) /\ Bounded(G)
  BY <1>2, <1>3, <1>4 DEF DiesOnly, Bounded
<1>6. Good(G, failed)
  <2>1. Sound(G) /\ (Unlost(life) => Unlost(G))
    BY <1>2, <1>3 DEF Good, Sound, Unlost
  <2>2. Owned(life) => Owned(G)
    <3> SUFFICES ASSUME Owned(life)  PROVE Owned(G)
      OBVIOUS
    <3>1. Rooted(life, life.context)
      BY DEF Owned, Rooted
    <3> QED  BY <3>1, <1>3 DEF Owned
  <2>3. Wired(life) => Wired(G)
    BY <1>3 DEF Wired
  <2> QED  BY <2>1, <2>2, <2>3, <1>2 DEF Good
<1>7. Inv("live", G, failed)
  BY <1>2, <1>3, <1>5, <1>6 DEF Inv
<1>8. Inv("live", Uses(G), failed)
  BY <1>1, <1>7, UsesInv
<1> QED  BY <1>1, <1>8 DEF Goes, Step, IInv

\* A reset moves the wrapper's reference to a new context, with no closures; if
\* none can be made, self is dropped with a context it no longer owns.
LEMMA ResetStep ==
  ASSUME IInv, Reset
  PROVE  IInv'
<1> DEFINE F == JS_FreeContext(life, life.context)
           C == [F EXCEPT !.callbacks = {}]
           n == Len(life.contexts)
           N == JS_NewContext(C)
           S == [N EXCEPT !.context = n + 1]
           P == ClassProtoFails(C)
           X == AfterReset
<1>1. Running /\ wrapper = "live" /\ n < MaxContexts
  BY DEF Reset, Room
<1>2. \/ F.crash # "none" /\ Step("none", F, X)
      \/ /\ F.crash = "none"
         /\ \/ Step("live", S, X)
            \/ \E ub \in BOOLEAN : Step("none", Dropped(C, ub), X \cup {"reset"})
            \/ \E ub \in BOOLEAN :
                 Step("none", Dropped(P, ub), X \cup {"reset", "class_proto"})
  BY Zenon DEF Reset
<1>3. /\ life \in Life /\ life.crash = "none" /\ Bounded(life)
      /\ Good(life, failed) /\ failed \in SUBSET Unhandled
  BY <1>1, LiveFacts
<1>4. /\ failed \subseteq X /\ X \subseteq failed \cup {"leftover_jobs"}
      /\ X \subseteq Unhandled
      /\ "leftover_jobs" \notin X => life.job_list = <<>> /\ "leftover_jobs" \notin failed
  BY <1>3 DEF AfterReset, Unhandled
<1>5. /\ n \in Nat /\ MaxContexts \in Nat /\ MaxCallbacks \in Nat /\ MaxJobs \in Nat
      /\ life.contexts \in Seq(CtxRec) /\ Contexts(life) = 1..n
      /\ Len(life.job_list) \in Nat
  BY <1>3, FieldTypes, LenProperties, LifeBoundsAssumption DEF Contexts
<1> HIDE DEF X
<1>6. CASE ~LiveIn(life, life.context)
  <2>1. "leftover_jobs" \in X
    BY <1>3, <1>4, <1>6, ContextIsLive
  <2>2. F = [life EXCEPT !.crash = "bad_context"]
    BY <1>6 DEF JS_FreeContext
  <2>3. /\ F \in Life /\ F.contexts = life.contexts /\ F.func = life.func
        /\ F.job_list = life.job_list /\ F.crash = "bad_context"
    BY <2>2, <1>3, Zenon DEF Life
  <2> HIDE DEF F
  <2>4. Bounded(F) /\ DiesOnly(F, X)
    BY <2>1, <2>3, <1>3 DEF Bounded, DiesOnly
  <2>5. Inv("none", F, X)
    BY <2>3, <2>4, <1>4 DEF Inv
  <2> QED  BY <2>3, <2>5, <1>2 DEF Step, IInv
<1>7. CASE LiveIn(life, life.context)
  <2>1. /\ F \in Life
        /\ F.context = life.context /\ F.func = life.func /\ F.crash = "none"
        /\ F.job_list = life.job_list
        /\ F.contexts \in Seq(CtxRec)
        /\ Len(F.contexts) = n /\ Contexts(F) = 1..n
        /\ \A d \in 1..n :
             /\ F.contexts[d].status = life.contexts[d].status
             /\ F.contexts[d].refs
                  = life.contexts[d].refs - (IF d = life.context THEN 1 ELSE 0)
    BY <1>3, <1>5, <1>7, FreeContextFields
  <2> HIDE DEF F
  <2>2. /\ C \in Life /\ C.context = life.context /\ C.func = life.func
        /\ C.crash = "none" /\ C.job_list = life.job_list /\ C.contexts = F.contexts
    BY <2>1, Zenon DEF Life
  <2> HIDE DEF C
  <2>3. /\ Contexts(C) = 1..n /\ Len(C.contexts) = n
        /\ LiveIn(C, C.context) /\ Sound(C)
    BY <2>1, <2>2, <1>3, <1>5, <1>7, ZenonT(30) DEF Contexts, LiveIn, Sound, Good
  <2>4. ASSUME Step("live", S, X)  PROVE IInv'
    <3> DEFINE r == [status |-> "live", refs |-> 1]
    <3>1. /\ N \in Life /\ N.contexts = Append(C.contexts, r) /\ N.func = life.func
          /\ N.job_list = life.job_list /\ N.crash = "none"
      BY <2>2, NewContextFields, Zenon
    <3> HIDE DEF N
    <3>2. /\ S \in Life /\ S.contexts = Append(C.contexts, r) /\ S.func = life.func
          /\ S.job_list = life.job_list /\ S.crash = "none" /\ S.context = n + 1
      <4>1. n + 1 \in Nat
        BY <1>5
      <4> HIDE DEF n, r
      <4>2. /\ S \in Life /\ S.contexts = N.contexts /\ S.func = N.func
            /\ S.job_list = N.job_list /\ S.crash = N.crash /\ S.context = n + 1
        BY <4>1, <3>1, Zenon DEF Life
      <4> QED  BY <4>2, <3>1
    <3> HIDE DEF S
    <3>3. r \in CtxRec /\ r.status = "live" /\ r.refs = 1
      BY DEF CtxRec
    <3> HIDE DEF r
    <3>4. /\ Len(S.contexts) = n + 1 /\ S.contexts \in Seq(CtxRec)
          /\ \A c \in 1..n : S.contexts[c] = F.contexts[c]
          /\ S.contexts[n + 1] = r
      BY <2>1, <2>2, <3>2, <3>3, AppendProperties
    <3>5. Contexts(S) = 1..(n + 1)
      BY <3>4, LenProperties DEF Contexts
    <3>6. Bounded(S)
      BY <3>2, <3>4, <1>1, <1>3, <1>5 DEF Bounded
    <3>7. Sound(S)
      <4>1. \A c \in 1..n : S.contexts[c].status # "dangling"
        BY <3>4, <2>1, <1>3, <1>5, ZenonT(30) DEF Good, Sound
      <4> QED  BY <4>1, <3>3, <3>4, <3>5, <1>5 DEF Sound
    <3>8. "leftover_jobs" \notin X => Owned(S)
      <4> SUFFICES ASSUME "leftover_jobs" \notin X  PROVE Owned(S)
        OBVIOUS
      <4>1. Owned(life)
        BY <1>3, <1>4 DEF Good
      <4>2. \A c \in 1..n :
              life.contexts[c].refs = IF c = life.context THEN 1 ELSE 0
        BY <4>1, <1>5 DEF Owned
      <4>3. \A c \in 1..n : F.contexts[c].refs = 0
        BY <4>2, <2>1
      <4>4. \A c \in 1..n : S.contexts[c].refs = 0
        BY <4>3, <3>4
      <4> QED  BY <4>4, <3>2, <3>3, <3>4, <3>5, <1>5 DEF Owned
    <3>9. "leftover_jobs" \notin X => Wired(S)
      <4> SUFFICES ASSUME "leftover_jobs" \notin X  PROVE Wired(S)
        OBVIOUS
      <4>1. Wired(life) /\ life.job_list = <<>>
        BY <1>3, <1>4 DEF Good
      <4>2. DOMAIN S.job_list = {}
        BY <4>1, <3>2
      <4>3. \A f \in DOMAIN S.func : S.func[f].ctx \in 1..n
        BY <4>1, <3>2, <1>5 DEF Wired
      <4> QED  BY <4>2, <4>3, <3>2, <3>5, <1>5 DEF Wired
    <3>10. Good(S, X)
      <4>1. Unlost(life) => Unlost(S)
        BY <3>2 DEF Unlost
      <4> QED  BY <4>1, <3>7, <3>8, <3>9, <1>3, <1>4 DEF Good
    <3>11. Inv("live", S, X)
      BY <3>2, <3>6, <3>10, <1>4 DEF Inv, DiesOnly
    <3> QED  BY <2>4, <3>11 DEF Step, IInv
  <2>5. ASSUME NEW ub \in BOOLEAN, Step("none", Dropped(C, ub), X \cup {"reset"})
        PROVE  IInv'
    <3> DEFINE D == Dropped(C, ub)
               Y == X \cup {"reset"}
    <3>1. /\ D \in Life /\ Len(D.contexts) = n /\ D.func = life.func
          /\ D.job_list = life.job_list \/ D.job_list = <<>>
          /\ D.crash \in {"none", "assert"}
          /\ D.crash = "none" => D.job_list = <<>>
      BY <2>2, <2>3, DroppedFacts
    <3> HIDE DEF D
    <3>2. Bounded(D)
      BY <3>1, <1>3, <1>5 DEF Bounded
    <3>3. DiesOnly(D, Y)
      BY <3>1, Zenon DEF DiesOnly
    <3>4. Y \subseteq Unhandled
      BY <1>4 DEF Unhandled
    <3>5. Inv("none", D, Y)
      BY <3>1, <3>2, <3>3, <3>4 DEF Inv
    <3> QED  BY <2>5, <3>5 DEF Step, IInv, D
  <2>6. ASSUME NEW ub \in BOOLEAN,
               Step("none", Dropped(P, ub), X \cup {"reset", "class_proto"})
        PROVE  IInv'
    <3> DEFINE r == [status |-> "dangling", refs |-> 0]
               D == Dropped(P, ub)
               Y == X \cup {"reset", "class_proto"}
    <3>1. /\ P \in Life /\ P.contexts = Append(C.contexts, r) /\ P.func = life.func
          /\ P.job_list = life.job_list /\ P.crash = "none"
      BY <2>2, ClassProtoFields
    <3>2. r \in CtxRec
      BY DEF CtxRec
    <3> HIDE DEF P, r
    <3>3. Len(P.contexts) = n + 1
      BY <3>1, <3>2, <2>1, <2>2, AppendProperties
    <3>4. /\ D \in Life /\ Len(D.contexts) = n + 1 /\ D.func = life.func
          /\ D.job_list = life.job_list \/ D.job_list = <<>>
          /\ D.crash \in {"none", "assert", "bad_context"}
          /\ D.crash = "none" => D.job_list = <<>>
      BY <3>1, <3>3, DroppedFacts
    <3> HIDE DEF D
    <3>5. Bounded(D)
      BY <3>4, <1>1, <1>3, <1>5 DEF Bounded
    <3>6. DiesOnly(D, Y)
      BY <3>4, Zenon DEF DiesOnly
    <3>7. Y \subseteq Unhandled
      BY <1>4 DEF Unhandled
    <3>8. Inv("none", D, Y)
      BY <3>4, <3>5, <3>6, <3>7 DEF Inv
    <3> QED  BY <2>6, <3>8 DEF Step, IInv, D
  <2> QED  BY <2>1, <2>4, <2>5, <2>6, <1>2, Zenon
<1> QED  BY <1>6, <1>7

-----------------------------------------------------------------------------
(* The theorems                                                            *)

\* Before the first wrapper there is nothing to get wrong.
LEMMA InitInv ==
  ASSUME Init
  PROVE  IInv
<1>1. Len(<<>>) = 0 /\ <<>> \in Seq(CtxRec) /\ <<>> \in Seq(FuncRec) /\ <<>> \in Seq(JobRec)
  BY EmptySeq
<1>2. /\ life \in Life /\ life.contexts = <<>> /\ life.func = <<>>
      /\ life.job_list = <<>> /\ life.crash = "none"
  BY <1>1 DEF Init, Life, NULL, CtxRec, FuncRec, JobRec
<1>3. Bounded(life)
  BY <1>1, <1>2, LifeBoundsAssumption DEF Bounded
<1> QED  BY <1>2, <1>3 DEF Init, IInv, Inv, DiesOnly

\* The invariant holds in every reachable state: each operation preserves it.
LEMMA Inductive == Spec => []IInv
<1>1. Init => IInv
  BY InitInv
<1>2. IInv /\ [Next]_vars => IInv'
  <2> SUFFICES ASSUME IInv, [Next]_vars  PROVE IInv'
    OBVIOUS
  <2>1. CASE Next
    BY <2>1, NewStep, BuildStep, AddCallbackStep, EvalCallsStep, EvalQueuesStep,
       RunJobStep, RunNoJobStep, ResetStep, DropStep, CollectGarbageStep DEF Next
  <2>2. CASE UNCHANGED vars
    BY <2>2 DEF vars, IInv
  <2> QED  BY <2>1, <2>2
<1> QED  BY <1>1, <1>2, PTL DEF Spec

\* The wrapper's fields and the runtime's lists keep their types and bounds.
THEOREM TypeCorrect == Spec => []TypeOK
<1>1. IInv => TypeOK
  BY DEF IInv, Inv, Bounded, TypeOK
<1> QED  BY <1>1, Inductive, PTL

\* Whatever the order of evals, callbacks, collections and resets, self.context is
\* alive and is the only context the wrapper has a reference to.
THEOREM WrapperOwnsItsContext == Spec => []OwnsItsContext
<1>1. IInv => OwnsItsContext
  <2> SUFFICES ASSUME IInv, "leftover_jobs" \notin failed, wrapper # "none", Running
               PROVE  /\ LiveIn(life, life.context)
                      /\ \A c \in Contexts(life) :
                           life.contexts[c].refs = IF c = life.context THEN 1 ELSE 0
    BY DEF OwnsItsContext, Without
  <2>1. Owned(life)
    BY DEF IInv, Inv, Good, Running
  <2> QED  BY <2>1 DEF Owned, LiveIn
<1> QED  BY <1>1, Inductive, PTL

\* A callback finds its closure alive, unless a reset left jobs behind.
THEOREM CallsFindTheirClosure == Spec => []ClosuresOutliveCalls
<1>1. IInv => ClosuresOutliveCalls
  BY DEF IInv, Inv, DiesOnly, ClosuresOutliveCalls, NoStaleClosure, Without
<1> QED  BY <1>1, Inductive, PTL

\* The assertions of gc_decref_child and JS_FreeRuntime hold unless a context
\* could not be made, a name was no C string or a reset left jobs behind.
THEOREM AssertionsHold == Spec => []NoFailedAssertion
<1>1. IInv => NoFailedAssertion
  BY DEF IInv, Inv, DiesOnly, NoFailedAssertion, Without
<1> QED  BY <1>1, Inductive, PTL

\* The engine is given no freed or NULL context unless class_proto could not be
\* allocated, a reset left jobs behind or the loop found no job.
THEOREM ContextsAreValid == Spec => []NoBadContext
<1>1. IInv => NoBadContext
  BY DEF IInv, Inv, DiesOnly, NoBadContext, Without
<1> QED  BY <1>1, Inductive, PTL

\* Both at once, as the model is checked: nothing crashes outside the failures that
\* the two properties name.
THEOREM NoCallCrashes == Spec => []NothingCrashes
<1>1. NoFailedAssertion /\ NoBadContext => NothingCrashes
  BY DEF NothingCrashes
<1> QED  BY <1>1, AssertionsHold, ContextsAreValid, PTL

\* A reset is final: code always runs in the newest context.
THEOREM ResetLeavesTheNewest == Spec => []ResetIsFinal
<1>1. IInv => ResetIsFinal
  <2> SUFFICES ASSUME IInv, "leftover_jobs" \notin failed, wrapper = "live", Running
               PROVE  life.context = Len(life.contexts)
    BY DEF ResetIsFinal, Without
  <2> QED  BY DEF IInv, Inv, Good, Running, Owned
<1> QED  BY <1>1, Inductive, PTL
=============================================================================
