--------------------------- MODULE ScriptSemantics ---------------------------
(***************************************************************************)
(* What a program means, as the language defines it: evaluation of the     *)
(* syntax tree, with completions.  It knows nothing of the bytecode and is *)
(* what the compiled code is compared with.  The outcomes of the events    *)
(* are given; when they run out, evaluation stops at the next event.       *)
(*                                                                         *)
(* S is the state: trace, outcomes, environment (variable -> cell), cells, *)
(* the cells of the closures created, and the event it stopped at.  A      *)
(* result is [S, t, v, l]: type of completion, value, target label.        *)
(***************************************************************************)
EXTENDS Compiler

NoValue == <<"empty", 0>>
Result(S, t, v, l) == [S |-> S, t |-> t, v |-> v, l |-> l]
Ok(S, v) == Result(S, "ok", v, "")
Thrown(S, v) == Result(S, "throw", v, "")
Then(r, F(_, _)) == IF r.t = "ok" THEN F(r.S, r.v) ELSE r
Suspended(r) == r.t \in {"stop", "halt"}

(* An event: its result is <<"res", n>>.                                   *)
Perform(S, op, args) ==
  LET n == Len(S.tr) + 1
      S1 == [S EXCEPT !.tr = Append(@, Event(op, args))]
  IN IF n > Len(S.out) THEN Result([S EXCEPT !.ev = Event(op, args)], "stop", Undef, "")
     ELSE IF S.out[n] = "throw" THEN Thrown(S1, <<"exc", n>>)
     ELSE IF S.out[n] = "interrupt" THEN Result(S1, "halt", Undef, "")
     ELSE Ok(S1, <<"res", n>>)
OutcomeOf(S, v) == S.out[v[2]]

(* Bindings.                                                               *)
Bind(S, v, val) == [S EXCEPT !.store = Append(@, val),
                             !.env = [x \in DOMAIN @ \cup {v} |-> IF x = v THEN Len(S.store) + 1 ELSE @[x]]]
RECURSIVE BindAll(_, _)
BindAll(S, vs) == IF vs = <<>> THEN S ELSE BindAll(Bind(S, Head(vs), Uninitialized), Tail(vs))
ReadVar(S, v) == IF S.store[S.env[v]] = Uninitialized THEN Thrown(S, <<"tdz", 0>>)
                 ELSE Ok(S, S.store[S.env[v]])
InitVar(S, v, val) == [S EXCEPT !.store[S.env[v]] = val]
WriteVar(S, v, val) == IF S.store[S.env[v]] = Uninitialized THEN Thrown(S, <<"tdz", 0>>)
                       ELSE Ok(InitVar(S, v, val), val)
LetsOf(ss) == LET ls == SelectSeq(ss, LAMBDA s : s.k = "let") IN [n \in DOMAIN ls |-> ls[n].v]
Leave(r, env) == [r EXCEPT !.S.env = env]

ToKey(S, v) == IF IsKey(v) THEN Ok(S, v)
               ELSE Then(Perform(S, "key", <<v>>), LAMBDA S1, r : Ok(S1, <<"key", r[2]>>))
ToNumeric(S, v) == IF v[1] = "int" THEN Ok(S, v) ELSE Perform(S, "num", <<v>>)

(* A binary operation on two values.                                       *)
Operate(S, op, a, b) ==
  IF op \in {"strict_eq", "strict_neq"} /\ {a, b} \cap {Undef, Null} # {}
  THEN Ok(S, Bool(SameNullish(S, a, b) = (op = "strict_eq")))
  ELSE IF Ints(a, b) THEN Ok(S, Arith(op, a[2], b[2]))
  ELSE IF op = "strict_neq"
  THEN Then(Perform(S, "strict_eq", <<a, b>>), LAMBDA S1, r : Ok(S1, Bool(OutcomeOf(S1, r) # "yes")))
  ELSE Perform(S, op, <<a, b>>)

ShortCircuits(S, op, v) == CASE op = "and" -> ~JS_ToBool(S, v)
                             [] op = "or" -> JS_ToBool(S, v)
                             [] op = "nullish" -> ~IsNullish(S, v)

(***************************************************************************)
(* References: <<"var", name>>, <<"prop", base, key>>, and                 *)
(* <<"super", this, base, key>>; a chain also has a last value and a       *)
(* receiver, and may have been cut short by an optional access.            *)
(***************************************************************************)
GetRef(S, r) ==
  CASE r.t = "var" -> ReadVar(S, r.v)
    [] r.t = "prop" -> Perform(S, "get", <<r.b, r.k>>)
    [] r.t = "super" -> Perform(S, "getsuper", <<<<"push_this", 0>>, r.b, r.k>>)
    [] r.t = "value" -> Ok(S, r.b)
PutRef(S, r, val) ==
  LET done(S1, x) == Ok(S1, val)
  IN CASE r.t = "var" -> WriteVar(S, r.v, val)
       [] r.t = "prop" -> Then(Perform(S, "set", <<r.b, r.k, val>>), done)
       [] r.t = "super" -> Then(Perform(S, "setsuper", <<<<"push_this", 0>>, r.b, r.k, val>>), done)
Ref(t, v, b, k) == [t |-> t, v |-> v, b |-> b, k |-> k]
ValueRef(v) == Ref("value", "", v, Undef)

RECURSIVE Eval(_, _)
RECURSIVE EvalAll(_, _, _)
EvalAll(S, es, vs) ==
  IF es = <<>> THEN Ok(S, vs)
  ELSE Then(Eval(S, Head(es)), LAMBDA S1, v : EvalAll(S1, Tail(es), Append(vs, v)))

(* One step of a chain from the reference r; an optional step on null or   *)
(* undefined ends the whole chain.                                         *)
RECURSIVE EvalChain(_, _, _, _)
EvalChain(S, r, ops, new) ==
  IF ops = <<>> THEN Ok(S, r)
  ELSE
    LET p == Head(ops)
        kind == IF r.t = "home" THEN "super" ELSE "prop"
        OnBase(S1, base) ==
          Then(IF p.t = "field" THEN Ok(S1, <<p.f, 0>>) ELSE Then(Eval(S1, p.e), ToKey), LAMBDA S2, key :
            EvalChain(S2, Ref(kind, "", base, key), Tail(ops), new))
        OnCallee(S1, f) ==
          Then(EvalAll(S1, p.es, <<>>), LAMBDA S2, vs :
            Then(IF new THEN Perform(S2, "new", <<f, f>> \o vs)
                 ELSE Perform(S2, "call", <<CASE r.t = "prop" -> r.b
                                         [] r.t = "super" -> <<"push_this", 0>>
                                         [] OTHER -> Undef, f>> \o vs), LAMBDA S3, v :
              EvalChain(S3, ValueRef(v), Tail(ops), FALSE)))
    IN Then(IF r.t = "home" THEN Ok(S, <<"super", 0>>) ELSE GetRef(S, r), LAMBDA S1, v :
         IF p.opt /\ IsNullish(S1, v) THEN Ok(S1, Ref("cut", "", Undef, Undef))
         ELSE IF p.t = "call" THEN OnCallee(S1, v) ELSE OnBase(S1, v))

(* The reference an expression denotes: "cut" for a chain that ended early.*)
RECURSIVE EvalRef(_, _)
EvalRef(S, e) ==
  CASE e.k = "var" -> Ok(S, Ref("var", e.v, Undef, Undef))
    [] e.k = "super" -> Ok(S, Ref("home", "", Undef, Undef))
    [] e.k = "chain" ->
         Then(EvalRef(S, e.p), LAMBDA S1, r :
           EvalChain(S1, IF r.t = "cut" THEN ValueRef(Undef) ELSE r, e.ops, e.new))
    [] OTHER -> Then(Eval(S, e), LAMBDA S1, v : Ok(S1, ValueRef(v)))
GetValue(S, r) == IF r.t = "cut" THEN Ok(S, Undef) ELSE GetRef(S, r)

RECURSIVE EvalLogic(_, _, _, _)
EvalLogic(S, op, v, es) ==
  IF es = <<>> \/ ShortCircuits(S, op, v) THEN Ok(S, v)
  ELSE Then(Eval(S, Head(es)), LAMBDA S1, v1 : EvalLogic(S1, op, v1, Tail(es)))

EvalAssign(S, e) ==
  Then(EvalRef(S, e.a), LAMBDA S1, r :
    IF e.op = "=" THEN Then(Eval(S1, e.b), LAMBDA S2, v : PutRef(S2, r, v))
    ELSE Then(GetValue(S1, r), LAMBDA S2, old :
      IF e.op \in {"and", "or", "nullish"}
      THEN IF ShortCircuits(S2, e.op, old) THEN Ok(S2, old)
           ELSE Then(Eval(S2, e.b), LAMBDA S3, v : PutRef(S3, r, v))
      ELSE Then(Eval(S2, e.b), LAMBDA S3, v :
             Then(Operate(S3, e.op, old, v), LAMBDA S4, w : PutRef(S4, r, w)))))

EvalUpdate(S, e) ==
  Then(EvalRef(S, e.e), LAMBDA S1, r :
    Then(GetValue(S1, r), LAMBDA S2, v :
      Then(ToNumeric(S2, v), LAMBDA S3, old :
        Then(PutRef(S3, r, Stepped(e.op, old)), LAMBDA S4, new :
          Ok(S4, IF e.prefix THEN new ELSE old)))))

(* A property of super cannot be deleted.  The language throws without     *)
(* reading it, the engine reads it first: that read is granted to it.      *)
EvalDelete(S, e) ==
  IF e.e.k = "var" THEN Ok(S, Bool(FALSE))
  ELSE Then(EvalRef(S, e.e), LAMBDA S1, r :
         CASE r.t = "prop" -> Perform(S1, "delete", <<r.b, r.k>>)
           [] r.t = "super" -> Then(GetRef(S1, r), LAMBDA S2, v : Thrown(S2, <<"delete super", 0>>))
           [] OTHER -> Ok(S1, Bool(TRUE)))

EvalUnary(S, e) ==
  Then(Eval(S, e.e), LAMBDA S1, v :
    CASE e.op = "void" -> Ok(S1, Undef)
      [] e.op = "lnot" -> Ok(S1, Bool(~JS_ToBool(S1, v)))
      [] OTHER -> Then(ToNumeric(S1, v), LAMBDA S2, n : Ok(S2, Signed(e.op, n))))

Eval(S, e) ==
  CASE e.k = "num" -> Ok(S, JSInt(e.n))
    [] e.k = "null" -> Ok(S, Null)
    [] e.k = "fn" -> Ok([S EXCEPT !.fns = Append(@, S.env[e.v])], <<"fn", Len(S.fns) + 1>>)
    [] e.k \in {"var", "chain"} -> Then(EvalRef(S, e), GetValue)
    [] e.k = "unary" -> EvalUnary(S, e)
    [] e.k = "update" -> EvalUpdate(S, e)
    [] e.k = "delete" -> EvalDelete(S, e)
    [] e.k = "binary" ->
         Then(Eval(S, e.a), LAMBDA S1, a : Then(Eval(S1, e.b), LAMBDA S2, b : Operate(S2, e.op, a, b)))
    [] e.k = "logic" ->
         Then(Eval(S, Head(e.es)), LAMBDA S1, v : EvalLogic(S1, e.op, v, Tail(e.es)))
    [] e.k = "cond" -> Then(Eval(S, e.c), LAMBDA S1, v : Eval(S1, IF JS_ToBool(S1, v) THEN e.a ELSE e.b))
    [] e.k = "assign" -> EvalAssign(S, e)
    [] e.k = "comma" -> Then(EvalAll(S, e.es, <<>>), LAMBDA S1, vs : Ok(S1, vs[Len(vs)]))
    [] e.k = "yield" ->
         Then(Eval(S, e.e), LAMBDA S1, v : Then(Perform(S1, "yield", <<v>>), LAMBDA S2, r :
           IF OutcomeOf(S2, r) = "return" THEN Result(S2, "return", r, "") ELSE Ok(S2, r)))

(***************************************************************************)
(* Statements.  An "ok" result has the completion value, or NoValue.       *)
(***************************************************************************)
UpdateEmpty(r, v) == IF r.t \in {"ok", "break", "continue"} /\ r.v = NoValue THEN [r EXCEPT !.v = v] ELSE r

RECURSIVE Exec(_, _, _)
RECURSIVE ExecAll(_, _, _)
ExecAll(S, ss, v) ==
  IF ss = <<>> THEN Ok(S, v)
  ELSE LET r == UpdateEmpty(Exec(S, Head(ss), {}), v)
       IN IF r.t = "ok" THEN ExecAll(r.S, Tail(ss), r.v) ELSE r
ExecBlock(S, ss) == Leave(ExecAll(BindAll(S, LetsOf(ss)), ss, NoValue), S.env)

(* Loops: `names' are the labels of the loop.                              *)
Continues(r, names) == r.t = "ok" \/ (r.t = "continue" /\ r.l \in names \cup {""})
EndLoop(r, v, names) ==
  LET u == UpdateEmpty(r, v) IN IF u.t = "break" /\ u.l \in names \cup {""} THEN Ok(u.S, u.v) ELSE u
NewValue(r, v) == UpdateEmpty(r, v).v

RECURSIVE Loop(_, _, _, _, _)
Loop(S, s, names, v, first) ==
  LET c == IF s.k = "do" /\ first THEN Ok(S, JSInt(1)) ELSE Eval(S, s.c)
  IN IF c.t # "ok" THEN c
     ELSE IF ~JS_ToBool(c.S, c.v) THEN Ok(c.S, v)
     ELSE LET r == Exec(c.S, s.b, {})
          IN IF Continues(r, names) THEN Loop(r.S, s, names, NewValue(r, v), FALSE) ELSE EndLoop(r, v, names)

(* for (let ...): a fresh copy of the variable for every iteration.        *)
Fresh(S, s) == IF s.i # <<>> /\ s.i[1].k = "let" THEN Bind(S, s.i[1].v, S.store[S.env[s.i[1].v]]) ELSE S
RECURSIVE ForLoop(_, _, _, _, _)
ForLoop(S, s, names, v, first) ==
  LET S0 == Fresh(S, s)
      u == IF first \/ s.u = <<>> THEN Ok(S0, Undef) ELSE Eval(S0, s.u[1])
      c == Then(u, LAMBDA S1, x : IF s.t = <<>> THEN Ok(S1, JSInt(1)) ELSE Eval(S1, s.t[1]))
  IN IF c.t # "ok" THEN c
     ELSE IF ~JS_ToBool(c.S, c.v) THEN Ok(c.S, v)
     ELSE LET r == Exec(c.S, s.b, {})
          IN IF Continues(r, names) THEN ForLoop(r.S, s, names, NewValue(r, v), FALSE) ELSE EndLoop(r, v, names)

(* Leaving a for-of loop early closes the iterator; an error of the close  *)
(* replaces any completion but a throw.                                    *)
CloseIterator(r, it) ==
  IF Suspended(r) THEN r
  ELSE LET c == Perform(r.S, "close", <<it>>)
       IN IF c.t = "ok" \/ (c.t = "throw" /\ r.t = "throw") THEN [r EXCEPT !.S = c.S] ELSE c
AssignTarget(S, d, v) ==
  IF d.k = "let" THEN Ok(InitVar(Bind(S, d.v, Uninitialized), d.v, v), v)
  ELSE Then(EvalRef(S, d), LAMBDA S1, r : PutRef(S1, r, v))
RECURSIVE Iterate(_, _, _, _, _)
Iterate(S, s, it, names, v) ==
  LET of == s.k = "forof"
      n == Perform(S, IF of THEN "next" ELSE "innext", <<it>>)
      r == Then(AssignTarget(n.S, s.d, n.v), LAMBDA S1, x : Exec(S1, s.b, {}))
      b == [r EXCEPT !.S.env = S.env]
  IN IF n.t # "ok" THEN n
     ELSE IF OutcomeOf(n.S, n.v) = "done" THEN Ok(n.S, v)
     ELSE IF Continues(r, names) THEN Iterate(b.S, s, it, names, NewValue(r, v))
     ELSE EndLoop(IF of THEN CloseIterator(b, it) ELSE b, v, names)
ExecForInOf(S, s, names) ==
  Then(Leave(Eval(IF s.d.k = "let" THEN Bind(S, s.d.v, Uninitialized) ELSE S, s.e), S.env), LAMBDA S1, o :
    Then(Perform(S1, IF s.k = "forof" THEN "iter" ELSE "enum", <<o>>), LAMBDA S2, it :
      Iterate(S2, s, it, names, Undef)))

(* switch: the case to start from, then the statements after it.           *)
RECURSIVE FindCase(_, _, _, _)
FindCase(S, v, cs, n) ==
  IF n > Len(cs)
  THEN LET ds == {k \in DOMAIN cs : cs[k].t = "default"}
       IN Ok(S, IF ds = {} THEN n ELSE CHOOSE k \in ds : TRUE)
  ELSE IF cs[n].t # "case" THEN FindCase(S, v, cs, n + 1)
  ELSE Then(Eval(S, cs[n].e), LAMBDA S1, w : Then(Operate(S1, "strict_eq", v, w), LAMBDA S2, q :
         IF JS_ToBool(S2, q) THEN Ok(S2, n) ELSE FindCase(S2, v, cs, n + 1)))
CaseStatements(cs) == LET ss == SelectSeq(cs, LAMBDA c : c.t = "stmt") IN [k \in DOMAIN ss |-> ss[k].s]
ExecSwitch(S, s) ==
  LET found == Then(Eval(S, s.e), LAMBDA S1, v :
                 FindCase(BindAll(S1, LetsOf(CaseStatements(s.cs))), v, s.cs, 1))
      r == Then(found, LAMBDA S2, n : ExecAll(S2, CaseStatements(SubSeq(s.cs, n, Len(s.cs))), NoValue))
  IN Leave(EndLoop(r, Undef, {}), S.env)

ExecTry(S, s) ==
  LET b == ExecBlock(S, s.b)
      bound == IF s.v = <<>> THEN b.S ELSE Bind(b.S, s.v[1], b.v)
      c == IF b.t = "throw" /\ s.c # <<>> THEN Leave(ExecBlock(bound, s.c[1]), S.env) ELSE b
      f == ExecBlock(c.S, s.f[1])
      r == IF s.f = <<>> \/ Suspended(c) THEN c ELSE IF f.t = "ok" THEN [c EXCEPT !.S = f.S] ELSE f
  IN UpdateEmpty(r, Undef)

Exec(S, s, names) ==
  CASE s.k = "expr" -> Eval(S, s.e)
    [] s.k = "empty" -> Ok(S, NoValue)
    [] s.k = "block" -> ExecBlock(S, s.ss)
    [] s.k = "return" ->
         Then(EvalAll(S, s.es, <<>>), LAMBDA S1, vs : Result(S1, "return", IF vs = <<>> THEN Undef ELSE vs[1], ""))
    [] s.k = "throw" -> Then(Eval(S, s.e), Thrown)
    [] s.k = "let" ->
         Then(EvalAll(S, s.es, <<>>), LAMBDA S1, vs :
           Ok(InitVar(S1, s.v, IF vs = <<>> THEN Undef ELSE vs[1]), NoValue))
    [] s.k = "if" ->
         Then(Eval(S, s.c), LAMBDA S1, v :
           UpdateEmpty(IF JS_ToBool(S1, v) THEN Exec(S1, s.a, {}) ELSE ExecAll(S1, s.b, NoValue), Undef))
    [] s.k \in {"while", "do"} -> Loop(S, s, names, Undef, TRUE)
    [] s.k = "for" ->
         LET S0 == IF s.i # <<>> /\ s.i[1].k = "let" THEN Bind(S, s.i[1].v, Uninitialized) ELSE S
         IN Leave(Then(ExecAll(S0, s.i, NoValue), LAMBDA S1, x : ForLoop(S1, s, names, Undef, TRUE)), S.env)
    [] s.k \in {"forin", "forof"} -> ExecForInOf(S, s, names)
    [] s.k \in {"break", "continue"} -> Result(S, s.k, NoValue, s.name)
    [] s.k = "switch" -> ExecSwitch(S, s)
    [] s.k = "try" -> ExecTry(S, s)
    [] s.k = "label" ->
         LET r == Exec(S, s.s, {s.name})
         IN IF r.t = "break" /\ r.l = s.name THEN Ok(r.S, r.v) ELSE r

(* The meaning of a body with these parameters, the k-th of which has the  *)
(* value <<"arg", k>>: where it stops, or how it ends.                      *)
Arg(k) == <<"arg", k>>
Meaning(ss, params, out) ==
  ExecBlock([tr |-> <<>>, out |-> out, ev |-> NoEvent, fns |-> <<>>,
             env |-> [v \in {params[k] : k \in DOMAIN params} |-> CHOOSE k \in DOMAIN params : params[k] = v],
             store |-> [k \in DOMAIN params |-> Arg(k)]], ss)
=============================================================================
