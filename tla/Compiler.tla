------------------------------- MODULE Compiler -------------------------------
(***************************************************************************)
(* The parser of quickjs.c as a code generator: what it emits for every    *)
(* expression and statement, while it parses, with the state it keeps for  *)
(* that (JSFunctionDef): the code so far, the last opcode (which get_lvalue,*)
(* calls and delete patch), label reference counts, the stack of BlockEnv  *)
(* entries that break, continue and return unwind, and the scopes.         *)
(* The syntax tree stands for the tokens.                                  *)
(***************************************************************************)
EXTENDS Bytecode

(* Expressions.                                                            *)
Num(n) == [k |-> "num", n |-> n]
Var(v) == [k |-> "var", v |-> v]
Fn(v) == [k |-> "fn", v |-> v]
NullE == [k |-> "null"]
Super == [k |-> "super"]
Field(f, opt) == [t |-> "field", f |-> f, opt |-> opt]
Elem(e, opt) == [t |-> "elem", e |-> e, opt |-> opt]
Args(es, opt) == [t |-> "call", es |-> es, opt |-> opt]
Chain(p, ops) == [k |-> "chain", p |-> p, ops |-> ops, new |-> FALSE]
New(p, ops) == [k |-> "chain", p |-> p, ops |-> ops, new |-> TRUE]
Unary(op, e) == [k |-> "unary", op |-> op, e |-> e]
Update(op, prefix, e) == [k |-> "update", op |-> op, prefix |-> prefix, e |-> e]
Binary(op, a, b) == [k |-> "binary", op |-> op, a |-> a, b |-> b]
Logic(op, es) == [k |-> "logic", op |-> op, es |-> es]
Cond(c, a, b) == [k |-> "cond", c |-> c, a |-> a, b |-> b]
Assign(op, a, b) == [k |-> "assign", op |-> op, a |-> a, b |-> b]
Comma(es) == [k |-> "comma", es |-> es]
Delete(e) == [k |-> "delete", e |-> e]
Yield(e) == [k |-> "yield", e |-> e]

(* Statements.                                                             *)
ExprS(e) == [k |-> "expr", e |-> e]
Block(ss) == [k |-> "block", ss |-> ss]
Return(es) == [k |-> "return", es |-> es]
Throw(e) == [k |-> "throw", e |-> e]
Let(v, es) == [k |-> "let", v |-> v, es |-> es]
If(c, a, b) == [k |-> "if", c |-> c, a |-> a, b |-> b]
While(c, b) == [k |-> "while", c |-> c, b |-> b]
Do(b, c) == [k |-> "do", c |-> c, b |-> b]
For(i, t, u, b) == [k |-> "for", i |-> i, t |-> t, u |-> u, b |-> b]
ForIn(d, e, b) == [k |-> "forin", d |-> d, e |-> e, b |-> b]
ForOf(d, e, b) == [k |-> "forof", d |-> d, e |-> e, b |-> b]
Break(name) == [k |-> "break", name |-> name]
Continue(name) == [k |-> "continue", name |-> name]
Switch(e, cs) == [k |-> "switch", e |-> e, cs |-> cs]
Case(e) == [t |-> "case", e |-> e]
Default == [t |-> "default"]
InCase(s) == [t |-> "stmt", s |-> s]
Try(b, v, c, f) == [k |-> "try", b |-> b, v |-> v, c |-> c, f |-> f]
Labelled(name, s) == [k |-> "label", name |-> name, s |-> s]
Empty == [k |-> "empty"]

Ret == "<ret>"   \* the hidden variable that holds the value of an eval

(***************************************************************************)
(* Emission.                                                               *)
(***************************************************************************)
NewFunction(kind) ==
  [code |-> <<>>, last |-> 0, refs |-> <<>>, env |-> <<>>, scope |-> 0, scopes |-> <<>>,
   vars |-> <<>>, captured |-> {}, kind |-> kind, ret |-> kind = "eval", err |-> ""]

emit_op(E, i) == [E EXCEPT !.code = Append(@, i), !.last = Len(E.code) + 1]
emit_ops(E, is) ==
  IF is = <<>> THEN E ELSE [E EXCEPT !.code = @ \o is, !.last = Len(E.code) + Len(is)]

get_prev_opcode(E) == IF E.last = 0 THEN "invalid" ELSE E.code[E.last].op
js_is_live_code(E) ==
  get_prev_opcode(E) \notin {"tail_call", "tail_call_method", "return", "return_undef",
                             "return_async", "throw", "throw_var", "goto", "ret"}
Fail(E, msg) == IF E.err = "" THEN [E EXCEPT !.err = msg] ELSE E

new_label(E) == [E EXCEPT !.refs = Append(@, 0)]
LastLabel(E) == Len(E.refs)
emit_label(E, l) == IF l = 0 THEN E ELSE emit_op(E, OpL("label", l))

(* emit_goto: nothing in dead code; label 0 asks for a new one.            *)
goto_label(E, l) == IF ~js_is_live_code(E) THEN 0 ELSE IF l = 0 THEN Len(E.refs) + 1 ELSE l
emit_goto(E, op, l) ==
  LET k == goto_label(E, l)
      E1 == IF l = 0 THEN new_label(E) ELSE E
  IN IF k = 0 THEN E ELSE [emit_op(E1, OpL(op, k)) EXCEPT !.refs[k] = @ + 1]

RemoveLast(E) == [E EXCEPT !.code = SubSeq(@, 1, E.last - 1), !.last = 0]
PatchLast(E, op) == [E EXCEPT !.code[E.last].op = op]

push_scope(E) ==
  LET n == Len(E.scopes) + 1
  IN [emit_op(E, OpN("enter_scope", n)) EXCEPT !.scopes = Append(@, E.scope), !.scope = n]
pop_scope(E) ==
  [emit_op(E, OpN("leave_scope", E.scope)) EXCEPT !.scope = E.scopes[E.scope]]
RECURSIVE close_scopes(_, _, _)
close_scopes(E, scope, stop) ==
  IF scope <= stop THEN E
  ELSE close_scopes(emit_op(E, OpN("leave_scope", scope)), E.scopes[scope], stop)
js_define_var(E, v, lexical) ==
  [E EXCEPT !.vars = Append(@, [v |-> v, scope |-> E.scope, lexical |-> lexical])]

(***************************************************************************)
(* Assignment targets.  get_lvalue removes the instruction that reads the  *)
(* target, and with `keep' emits one that also leaves the reference;       *)
(* put_lvalue stores.                                                      *)
(***************************************************************************)
LvalueDepth == [scope_get_var |-> 2, get_field |-> 1, get_array_el |-> 2, get_super_value |-> 3]
IsLvalue(E) == get_prev_opcode(E) \in DOMAIN LvalueDepth

get_lvalue(E, keep) ==
  LET op == get_prev_opcode(E)
      i == E.code[E.last]
      E1 == RemoveLast(E)
      E2 == new_label(E1)
      ref == [emit_op(E2, [Op("scope_make_ref") EXCEPT !.v = i.v, !.l = LastLabel(E2)])
                EXCEPT !.refs[LastLabel(E2)] = 1]
      to(E0, is) == [E |-> emit_ops(E0, is), op |-> op, v |-> i.v, l |-> 0, depth |-> LvalueDepth[op]]
  IN IF ~IsLvalue(E)
     THEN [E |-> Fail(E, "invalid assignment left-hand side"), op |-> "", v |-> "", l |-> 0, depth |-> 1]
     ELSE CASE op = "scope_get_var" ->
                 [to(ref, IF keep THEN <<Op("get_ref_value")>> ELSE <<>>)
                    EXCEPT !.op = "get_ref_value", !.l = LastLabel(E2)]
            [] op = "get_field" -> to(E1, IF keep THEN <<OpV("get_field2", i.v)>> ELSE <<>>)
            [] op = "get_array_el" ->
                 to(E1, <<Op("to_propkey2")>> \o
                        (IF keep THEN <<Op("dup2"), Op("get_array_el")>> ELSE <<>>))
            [] op = "get_super_value" ->
                 to(E1, <<Op("to_propkey")>> \o
                        (IF keep THEN <<Op("dup3"), Op("get_super_value")>> ELSE <<>>))

LvalueShuffle ==
  [KEEP_TOP |-> <<"insert2", "insert3", "insert4">>, KEEP_SECOND |-> <<"perm3", "perm4", "perm5">>,
   NOKEEP_BOTTOM |-> <<"swap", "rot3l", "rot4l">>]
put_lvalue(E, lv, special) ==
  LET E1 == emit_label(E, lv.l)
      E2 == IF special \in DOMAIN LvalueShuffle
            THEN emit_op(E1, Op(LvalueShuffle[special][lv.depth]))
            ELSE IF special = "NOKEEP" /\ lv.depth = 2 THEN emit_op(E1, Op("nop"))
            ELSE E1
  IN CASE lv.op = "get_field" -> emit_op(E2, OpV("put_field", lv.v))
       [] lv.op = "get_array_el" -> emit_op(E2, Op("put_array_el"))
       [] lv.op = "get_ref_value" -> emit_op(E2, Op("put_ref_value"))
       [] lv.op = "get_super_value" -> emit_op(E2, Op("put_super_value"))
       [] OTHER -> E2

(***************************************************************************)
(* Leaving blocks.  emit_break and emit_return walk the entries outwards:  *)
(* close iterators, drop what the blocks keep on the stack, call finally.  *)
(***************************************************************************)
push_break_entry(E, name, brk, cont, drop) ==
  [E EXCEPT !.env = Append(@, [name |-> name, brk |-> brk, cont |-> cont, drop |-> drop,
                               fin |-> 0, scope |-> E.scope, iter |-> FALSE])]
pop_break_entry(E) == [E EXCEPT !.env = SubSeq(@, 1, Len(@) - 1)]
Repeat(i, n) == [k \in 1..n |-> i]

RECURSIVE emit_break_rec(_, _, _, _, _)
emit_break_rec(E, n, scope, name, is_cont) ==
  IF n = 0 THEN Fail(E, "break/continue label not found")
  ELSE LET top == E.env[n]
           E1 == close_scopes(E, scope, top.scope)
           l == IF is_cont THEN top.cont ELSE top.brk
           E2 == emit_ops(E1, IF top.iter
                              THEN <<Op("iterator_close")>> \o Repeat(Op("drop"), top.drop - 3)
                              ELSE Repeat(Op("drop"), top.drop))
           E3 == IF top.fin = 0 THEN E2
                 ELSE emit_op(emit_goto(emit_op(E2, Op("undefined")), "gosub", top.fin), Op("drop"))
       IN IF l # 0 /\ name \in {"", top.name} THEN emit_goto(E1, "goto", l)
          ELSE emit_break_rec(E3, n - 1, top.scope, name, is_cont)
emit_break(E, name, is_cont) == emit_break_rec(E, Len(E.env), E.scope, name, is_cont)

RECURSIVE emit_return_rec(_, _, _, _)
emit_return_rec(E, n, hasval, drop_count) ==
  IF n = 0
  THEN IF E.kind = "generator"
       THEN emit_ops(E, (IF hasval THEN <<>> ELSE <<Op("undefined")>>) \o <<Op("return_async")>>)
       ELSE emit_op(E, Op(IF hasval THEN "return" ELSE "return_undef"))
  ELSE LET top == E.env[n]
           E1 == IF ~top.iter THEN E
                 ELSE emit_ops(E, (IF hasval THEN <<>> ELSE <<Op("undefined")>>)
                                  \o <<Op("iterator_close_return"), Op("iterator_close")>>)
           has1 == hasval \/ top.iter
           drops == (IF top.iter THEN -3 ELSE drop_count) + top.drop
           E2 == emit_ops(E1, Repeat(Op(IF has1 THEN "nip" ELSE "drop"), drops)
                              \o (IF has1 THEN <<>> ELSE <<Op("undefined")>>))
       IN IF top.fin = 0 THEN emit_return_rec(E1, n - 1, has1, drops)
          ELSE emit_return_rec(emit_goto(E2, "gosub", top.fin), n - 1, TRUE, 0)
emit_return(E, hasval) == emit_return_rec(E, Len(E.env), hasval, 0)

(***************************************************************************)
(* Expressions.                                                            *)
(***************************************************************************)
RECURSIVE js_parse_expr(_, _)
RECURSIVE parse_exprs(_, _)
parse_exprs(E, es) == IF es = <<>> THEN E ELSE parse_exprs(js_parse_expr(E, Head(es)), Tail(es))

(* optional_chain_test: leave undefined and jump to the end of the chain.  *)
optional_chain_test(C, drop_count) ==
  LET E0 == IF C.label = 0 THEN new_label(C.E) ELSE C.E
      label == IF C.label = 0 THEN LastLabel(E0) ELSE C.label
      E1 == emit_ops(E0, <<Op("dup"), Op("is_undefined_or_null")>>)
      next == goto_label(E1, 0)
      E2 == emit_ops(emit_goto(E1, "if_false", 0), Append(Repeat(Op("drop"), drop_count), Op("undefined")))
  IN [C EXCEPT !.E = emit_label(emit_goto(E2, "goto", label), next), !.label = label]

(* One accessor or call of a postfix expression.  A call turns the read    *)
(* before it into one that keeps the object as `this'.                     *)
Keeping == [get_field |-> "get_field2", get_array_el |-> "get_array_el2",
            get_super_value |-> "get_array_el"]
parse_postfix(C, p) ==
  LET prev == get_prev_opcode(C.E)
      Test(c, n) == IF p.opt THEN optional_chain_test(c, n) ELSE c
      method == ~C.new /\ prev \in DOMAIN Keeping
      called == IF C.new THEN [C EXCEPT !.E = emit_op(@, Op("dup"))]
                ELSE IF method THEN Test([C EXCEPT !.E = PatchLast(@, Keeping[prev])], 2)
                ELSE Test(C, 1)
  IN CASE p.t = "field" /\ prev = "get_super" ->
            [C EXCEPT !.E = emit_ops(@, <<OpV("push_atom_value", p.f), Op("get_super_value")>>)]
       [] p.t = "field" /\ prev # "get_super" ->
            LET c == Test(C, 1) IN [c EXCEPT !.E = emit_op(@, OpV("get_field", p.f))]
       [] p.t = "elem" ->
            LET c == Test(C, 1)
            IN [c EXCEPT !.E = emit_op(js_parse_expr(@, p.e),
                   Op(IF prev = "get_super" THEN "get_super_value" ELSE "get_array_el"))]
       [] p.t = "call" ->
            [called EXCEPT !.new = FALSE,
               !.E = emit_op(parse_exprs(@, p.es),
                       OpN(IF C.new THEN "call_constructor"
                           ELSE IF method THEN "call_method" ELSE "call", Len(p.es)))]
RECURSIVE parse_postfixes(_, _)
parse_postfixes(C, ops) ==
  IF ops = <<>> THEN C ELSE parse_postfixes(parse_postfix(C, Head(ops)), Tail(ops))
js_parse_postfix_expr(E, e) ==
  LET C == parse_postfixes([E |-> js_parse_expr(E, e.p), label |-> 0, new |-> e.new], e.ops)
  IN emit_label(C.E, C.label)

(* The programs are sloppy and have neither classes nor a `delete this':   *)
(* the refusals of strict mode and of a private field, and the test for    *)
(* this and new.target, cannot be met.  super is read before the throw.    *)
js_parse_delete(E, e) ==
  LET E1 == js_parse_expr(E, e.e)
      prev == get_prev_opcode(E1)
      i == E1.code[E1.last]
  IN CASE prev = "get_field" ->
            emit_ops(RemoveLast(E1), <<OpV("push_atom_value", i.v), Op("delete")>>)
       [] prev = "get_array_el" -> emit_op(RemoveLast(E1), Op("delete"))
       [] prev = "scope_get_var" -> PatchLast(E1, "scope_delete_var")
       [] prev = "get_super_value" -> emit_op(E1, Op("throw_var"))
       [] OTHER -> emit_ops(E1, <<Op("drop"), Op("push_true")>>)

js_parse_unary(E, e) ==
  LET E1 == js_parse_expr(E, e.e)
      lv == get_lvalue(E1, TRUE)
  IN IF e.k = "update"
     THEN IF e.prefix THEN put_lvalue(emit_op(lv.E, Op(e.op)), lv, "KEEP_TOP")
          ELSE put_lvalue(emit_op(lv.E, Op(IF e.op = "inc" THEN "post_inc" ELSE "post_dec")),
                          lv, "KEEP_SECOND")
     ELSE IF e.op = "void" THEN emit_ops(E1, <<Op("drop"), Op("undefined")>>)
     ELSE emit_op(E1, Op(e.op))

js_parse_expr_binary(E, e) == emit_op(js_parse_expr(js_parse_expr(E, e.a), e.b), Op(e.op))

(* && and || and ??: duplicate, test, drop, next operand.                  *)
LogicTest(op) == IF op = "nullish" THEN <<Op("dup"), Op("is_undefined_or_null")>> ELSE <<Op("dup")>>
LogicJump(op) == IF op = "or" THEN "if_true" ELSE "if_false"
RECURSIVE parse_operands(_, _, _, _)
parse_operands(E, op, es, label) ==
  IF es = <<>> THEN emit_label(E, label)
  ELSE LET E1 == emit_goto(emit_ops(E, LogicTest(op)), LogicJump(op), label)
       IN parse_operands(js_parse_expr(emit_op(E1, Op("drop")), Head(es)), op, Tail(es), label)
js_parse_logical(E, e) ==
  LET E1 == new_label(js_parse_expr(E, Head(e.es)))
  IN parse_operands(E1, e.op, Tail(e.es), LastLabel(E1))

js_parse_cond_expr(E, e) ==
  LET E1 == js_parse_expr(E, e.c)
      label1 == goto_label(E1, 0)
      E2 == js_parse_expr(emit_goto(E1, "if_false", 0), e.a)
      label2 == goto_label(E2, 0)
      E3 == js_parse_expr(emit_label(emit_goto(E2, "goto", 0), label1), e.b)
  IN emit_label(E3, label2)

js_parse_assign_expr(E, e) ==
  LET lv == get_lvalue(js_parse_expr(E, e.a), e.op # "=")
      stored == js_parse_expr(lv.E, e.b)
      E1 == emit_ops(lv.E, LogicTest(e.op))
      label1 == goto_label(E1, 0)
      E2 == js_parse_expr(emit_op(emit_goto(E1, LogicJump(e.op), 0), Op("drop")), e.b)
      E3 == put_lvalue(emit_op(E2, Op(LvalueShuffle["KEEP_TOP"][lv.depth])), lv, "NOKEEP_DEPTH")
      label2 == goto_label(E3, 0)
      E4 == emit_ops(emit_label(emit_goto(E3, "goto", 0), label1), Repeat(Op("nip"), lv.depth))
  IN IF e.op \in {"and", "or", "nullish"} THEN emit_label(E4, label2)
     ELSE put_lvalue(IF e.op = "=" THEN stored ELSE emit_op(stored, Op(e.op)), lv, "KEEP_TOP")

(* yield: the resumer says whether to return.                              *)
js_parse_yield(E, e) ==
  LET E1 == emit_op(js_parse_expr(E, e.e), Op("yield"))
      next == goto_label(E1, 0)
  IN emit_label(emit_return(emit_goto(E1, "if_false", 0), TRUE), next)

RECURSIVE parse_comma(_, _)
parse_comma(E, es) ==
  IF es = <<>> THEN E
  ELSE parse_comma([js_parse_expr(emit_op(E, Op("drop")), Head(es)) EXCEPT !.last = 0], Tail(es))
js_parse_expr2(E, e) == parse_comma(js_parse_expr(E, Head(e.es)), Tail(e.es))

js_parse_expr(E, e) ==
  CASE E.err # "" -> E
    [] e.k = "num" -> emit_op(E, OpN("push_i32", e.n))
    [] e.k = "null" -> emit_op(E, Op("null"))
    [] e.k = "var" -> emit_op(E, OpV("scope_get_var", e.v))
    [] e.k = "fn" -> [emit_op(E, OpV("fclosure", e.v)) EXCEPT !.captured = @ \cup {e.v}]
    [] e.k = "super" -> emit_ops(E, <<Op("push_this"), Op("push_home"), Op("get_super")>>)
    [] e.k = "chain" -> js_parse_postfix_expr(E, e)
    [] e.k = "delete" -> js_parse_delete(E, e)
    [] e.k \in {"unary", "update"} -> js_parse_unary(E, e)
    [] e.k = "binary" -> js_parse_expr_binary(E, e)
    [] e.k = "logic" -> js_parse_logical(E, e)
    [] e.k = "cond" -> js_parse_cond_expr(E, e)
    [] e.k = "assign" -> js_parse_assign_expr(E, e)
    [] e.k = "yield" -> js_parse_yield(E, e)
    [] e.k = "comma" -> js_parse_expr2(E, e)

(***************************************************************************)
(* Statements.                                                             *)
(***************************************************************************)
RECURSIVE js_parse_statement(_, _, _)
RECURSIVE parse_statements(_, _)
parse_statements(E, ss) ==
  IF E.err # "" \/ ss = <<>> THEN E ELSE parse_statements(js_parse_statement(E, Head(ss), ""), Tail(ss))
js_parse_block(E, ss) == IF ss = <<>> THEN E ELSE pop_scope(parse_statements(push_scope(E), ss))

set_eval_ret_undefined(E) ==
  IF E.ret THEN emit_ops(E, <<Op("undefined"), OpV("put_loc", Ret)>>) ELSE E

js_parse_var(E, s) ==
  LET E1 == js_define_var(E, s.v, TRUE)
      E2 == IF s.es = <<>> THEN emit_op(E1, Op("undefined")) ELSE parse_exprs(E1, s.es)
  IN emit_op(E2, OpV("scope_put_var_init", s.v))

parse_if(E, s) ==
  LET E1 == js_parse_expr(set_eval_ret_undefined(push_scope(E)), s.c)
      label1 == goto_label(E1, 0)
      E2 == js_parse_statement(emit_goto(E1, "if_false", 0), s.a, "")
      label2 == goto_label(E2, 0)
      E3 == parse_statements(emit_label(emit_goto(E2, "goto", 0), label1), s.b)
  IN IF E2.err # "" THEN E2
     ELSE pop_scope(IF s.b = <<>> THEN emit_label(E2, label1) ELSE emit_label(E3, label2))

parse_while(E, s, name) ==
  LET cont == Len(E.refs) + 1
      brk == Len(E.refs) + 2
      E1 == push_break_entry(new_label(new_label(E)), name, brk, cont, 0)
      E2 == js_parse_expr(emit_label(set_eval_ret_undefined(E1), cont), s.c)
      E3 == js_parse_statement(emit_goto(E2, "if_false", brk), s.b, "")
  IN IF E3.err # "" THEN E3 ELSE pop_break_entry(emit_label(emit_goto(E3, "goto", cont), brk))

parse_do(E, s, name) ==
  LET cont == Len(E.refs) + 1
      brk == Len(E.refs) + 2
      top == Len(E.refs) + 3
      E1 == push_break_entry(new_label(new_label(new_label(E))), name, brk, cont, 0)
      E2 == js_parse_statement(set_eval_ret_undefined(emit_label(E1, top)), s.b, "")
      E3 == emit_goto(js_parse_expr(emit_label(E2, cont), s.c), "if_true", top)
  IN IF E2.err # "" THEN E2 ELSE pop_break_entry(emit_label(E3, brk))

(* Move the code from a to b - 1 to the end, leaving nops: the increment of *)
(* a for loop, the assignment of a for-in or for-of loop.  Both end in a   *)
(* goto.                                                                   *)
MoveCode(E, a, b) ==
  [E EXCEPT !.code = [p \in DOMAIN @ |-> IF p >= a /\ p < b THEN Op("nop") ELSE @[p]]
                     \o SubSeq(@, a, b - 1),
            !.last = Len(E.code) + b - a]

parse_for(E, s, name) ==
  LET level == E.scope
      E0 == push_scope(set_eval_ret_undefined(E))
      init == IF s.i = <<>> THEN E0
              ELSE IF s.i[1].k = "let" THEN js_parse_var(E0, s.i[1])
              ELSE emit_op(js_parse_expr(E0, s.i[1].e), Op("drop"))
      E1 == IF s.i = <<>> THEN E0 ELSE close_scopes(init, init.scope, level)
      n == Len(E1.refs)
      body == n + 3
      test == IF s.t = <<>> THEN body ELSE n + 1
      cont == IF s.u = <<>> THEN test ELSE n + 2
      brk == n + 4
      E2 == push_break_entry(new_label(new_label(new_label(new_label(E1)))), name, brk, cont, 0)
      E3 == IF s.t = <<>> THEN E2
            ELSE emit_goto(js_parse_expr(emit_label(E2, test), s.t[1]), "if_false", brk)
      E4 == emit_goto(E3, "goto", body)
      inc == emit_op(js_parse_expr(emit_label(E4, cont), s.u[1]), Op("drop"))
      E5 == IF s.u = <<>> THEN E3
            ELSE IF s.t = <<>> THEN inc ELSE emit_goto(inc, "goto", test)
      E6 == js_parse_statement(emit_label(E5, body), s.b, "")
      E7 == close_scopes(E6, E6.scope, level)
      E8 == IF s.t # <<>> /\ s.u # <<>>
            THEN MoveCode(E7, Len(E4.code) + 1, Len(E5.code) + 1)
            ELSE emit_goto(E7, "goto", cont)
  IN CASE E5.err # "" -> E5
       [] E6.err # "" -> E6
       [] OTHER -> pop_scope(pop_break_entry(emit_label(E8, brk)))

js_parse_for_in_of(E, s, name) ==
  LET level == E.scope
      of == s.k = "forof"
      n == Len(E.refs)
      cont == n + 1
      body == n + 2
      brk == n + 3
      next == n + 4
      E0 == push_scope(new_label(new_label(new_label(new_label(set_eval_ret_undefined(E))))))
      E1 == push_break_entry(E0, name, brk, cont, 1)
      E2 == [E1 EXCEPT !.env[Len(E1.env)].scope = level]
      expr == goto_label(E2, 0)
      E3 == emit_goto(E2, "goto", 0)
      E4 == emit_label(E3, next)
      lv == get_lvalue(js_parse_expr(E4, s.d), FALSE)
      E5 == IF s.d.k = "let"
            THEN emit_op(js_define_var(E4, s.d.v, TRUE), OpV("scope_put_var_init", s.d.v))
            ELSE put_lvalue(lv.E, lv, "NOKEEP_BOTTOM")
      E6 == emit_goto(E5, "goto", body)
      E7 == [emit_label(E6, expr) EXCEPT !.env[Len(E1.env)].iter = of,
                                         !.env[Len(E1.env)].drop = IF of THEN 3 ELSE 1]
      E8 == js_parse_expr(E7, s.e)
      E9 == emit_op(close_scopes(E8, E8.scope, level), Op(IF of THEN "for_of_start" ELSE "for_in_start"))
      E10 == MoveCode(emit_goto(E9, "goto", cont), Len(E3.code) + 1, Len(E6.code) + 1)
      E11 == js_parse_statement(emit_label(E10, body), s.b, "")
      E12 == emit_label(close_scopes(E11, E11.scope, level), cont)
      E13 == emit_goto(emit_op(E12, Op(IF of THEN "for_of_next" ELSE "for_in_next")), "if_false", next)
      E14 == emit_ops(E13, <<Op("drop"), OpL("label", brk), Op(IF of THEN "iterator_close" ELSE "drop")>>)
  IN CASE E8.err # "" -> E8
       [] E11.err # "" -> E11
       [] OTHER -> pop_scope(pop_break_entry(E14))

(* The clauses of a switch: `case' is the label of the next test, `dflt'   *)
(* the position of the label to be patched for default.                    *)
RECURSIVE parse_cases(_, _, _)
parse_cases(W, cs, label1) ==
  LET E1 == emit_op(js_parse_expr(emit_op(W.E, Op("dup")), Head(cs).e), Op("strict_eq"))
      l1 == goto_label(E1, label1)
  IN IF Len(cs) > 1 /\ cs[2].t = "case"
     THEN parse_cases([W EXCEPT !.E = emit_goto(E1, "if_true", label1)], Tail(cs), l1)
     ELSE [E |-> emit_label(emit_goto(E1, "if_false", 0), label1),
           case |-> goto_label(E1, 0), dflt |-> W.dflt, rest |-> Tail(cs)]
RECURSIVE parse_clauses(_)
parse_clauses(W) ==
  IF W.rest = <<>> THEN W
  ELSE LET c == Head(W.rest)
           label1 == IF W.case = 0 THEN 0 ELSE goto_label(W.E, 0)
           E1 == emit_label(IF W.case = 0 THEN W.E ELSE emit_goto(W.E, "goto", 0), W.case)
           E2 == IF W.case = 0 THEN emit_goto(W.E, "goto", 0) ELSE W.E
       IN parse_clauses(
            CASE c.t = "case" -> parse_cases([W EXCEPT !.E = E1, !.case = 0], W.rest, label1)
              [] c.t = "default" ->
                   [E |-> emit_op(E2, OpL("label", 0)), dflt |-> Len(E2.code) + 1, rest |-> Tail(W.rest),
                    case |-> IF W.case = 0 THEN goto_label(W.E, 0) ELSE W.case]
              [] c.t = "stmt" ->
                   [W EXCEPT !.E = js_parse_statement(@, c.s, ""), !.rest = Tail(@)])
parse_switch(E, s, name) ==
  LET E0 == new_label(push_scope(js_parse_expr(set_eval_ret_undefined(E), s.e)))
      brk == LastLabel(E0)
      W == parse_clauses([E |-> push_break_entry(E0, name, brk, 0, 1), case |-> 0, dflt |-> 0,
                          rest |-> s.cs])
      E1 == IF W.dflt # 0 THEN [W.E EXCEPT !.code[W.dflt].l = W.case] ELSE emit_label(W.E, W.case)
  IN IF W.E.err # "" THEN W.E
     ELSE pop_scope(pop_break_entry(emit_op(emit_label(E1, brk), Op("drop"))))

(* try: the end of the block and of the catch block call finally with a    *)
(* dummy value, the handlers with the exception.                           *)
EndTry(E, fin, end) ==
  IF ~js_is_live_code(E) THEN E
  ELSE emit_goto(emit_op(emit_goto(emit_ops(E, <<Op("drop"), Op("undefined")>>), "gosub", fin),
                         Op("drop")), "goto", end)
GuardedBlock(E, ss, fin) ==
  LET E1 == push_break_entry(E, "", 0, 0, 1)
  IN pop_break_entry(js_parse_block([E1 EXCEPT !.env[Len(E1.env)].fin = fin], ss))
Rethrow(E, label, fin) == emit_op(emit_goto(emit_label(E, label), "gosub", fin), Op("throw"))
parse_try(E, s) ==
  LET n == Len(E.refs)
      catch == n + 1
      catch2 == n + 2
      fin == n + 3
      end == n + 4
      E0 == new_label(new_label(new_label(new_label(set_eval_ret_undefined(E)))))
      E1 == EndTry(GuardedBlock(emit_goto(E0, "catch", catch), s.b, fin), fin, end)
      E2 == emit_label(push_scope(E1), catch)
      E3 == IF s.v = <<>> THEN emit_op(E2, Op("drop"))
            ELSE emit_op(js_define_var(E2, s.v[1], FALSE), OpV("scope_put_var", s.v[1]))
      E4 == pop_scope(pop_scope(GuardedBlock(push_scope(emit_goto(E3, "catch", catch2)), s.c[1], fin)))
      E5 == IF s.c = <<>> THEN Rethrow(E1, catch, fin)
            ELSE Rethrow(EndTry(E4, fin, end), catch2, fin)
      E6 == emit_label(E5, fin)
      E7 == [push_break_entry(E6, "", 0, 0, 2) EXCEPT !.ret = FALSE]
      E8 == IF s.f = <<>> THEN E6
            ELSE [pop_break_entry(js_parse_block(E7, s.f[1])) EXCEPT !.ret = E.ret]
  IN CASE E1.err # "" -> E1
       [] E5.err # "" -> E5
       [] OTHER -> emit_label(emit_op(E8, Op("ret")), end)

js_parse_statement(E, s, name) ==
  CASE E.err # "" -> E
    [] s.k = "expr" ->
         emit_op(js_parse_expr(E, s.e), IF E.ret THEN OpV("put_loc", Ret) ELSE Op("drop"))
    [] s.k = "block" -> js_parse_block(E, s.ss)
    [] s.k = "return" -> emit_return(parse_exprs(E, s.es), s.es # <<>>)
    [] s.k = "throw" -> emit_op(js_parse_expr(E, s.e), Op("throw"))
    [] s.k = "let" -> js_parse_var(E, s)
    [] s.k = "if" -> parse_if(E, s)
    [] s.k = "while" -> parse_while(E, s, name)
    [] s.k = "do" -> parse_do(E, s, name)
    [] s.k = "for" -> parse_for(E, s, name)
    [] s.k \in {"forin", "forof"} -> js_parse_for_in_of(E, s, name)
    [] s.k \in {"break", "continue"} -> emit_break(E, s.name, s.k = "continue")
    [] s.k = "switch" -> parse_switch(E, s, name)
    [] s.k = "try" -> parse_try(E, s)
    [] s.k = "label" ->
         IF \E n \in DOMAIN E.env : E.env[n].name = s.name THEN Fail(E, "duplicate label name")
         ELSE IF s.s.k \in {"for", "forin", "forof", "do", "while"}
         THEN js_parse_statement(E, s.s, s.name)
         ELSE LET E1 == new_label(E)
                  E2 == js_parse_statement(push_break_entry(E1, s.name, LastLabel(E1), 0, 0), s.s, "")
              IN pop_break_entry(emit_label(E2, LastLabel(E1)))
    [] s.k = "empty" -> E

(* A function body, or the program of an eval.                             *)
js_parse_program(kind, ss) ==
  LET E == parse_statements(push_scope(NewFunction(kind)), ss)
  IN IF kind = "eval" THEN emit_ops(E, <<OpV("get_loc", Ret), Op("return")>>)
     ELSE IF js_is_live_code(E) THEN emit_return(E, FALSE) ELSE E
-----------------------------------------------------------------------------
(***************************************************************************)
(* The two passes between the parser and the interpreter.                  *)
(* resolve_variables turns scope operations into accesses of locals and    *)
(* drops dead code; resolve_labels rewrites short patterns, follows jumps  *)
(* and replaces labels by addresses.  Both rest on the reference counts of *)
(* the labels: a label nobody refers to does not keep code alive.          *)
(***************************************************************************)

(* code_match: the instructions from pos on have opcodes in these sets.    *)
code_match(code, pos, pats) ==
  pos + Len(pats) - 1 <= Len(code) /\ \A k \in DOMAIN pats : code[pos + k - 1].op \in pats[k]
LabelPos(code, l) == 1 + CHOOSE p \in DOMAIN code : code[p] = OpL("label", l)
AddRef(R, l, d) == [R EXCEPT !.refs[l] = @ + d]
Out(R, is, pos) == [R EXCEPT !.out = @ \o is, !.pos = pos]
LabelOps == {"goto", "if_true", "if_false", "gosub", "catch", "scope_make_ref"}

RECURSIVE skip_dead_code(_, _)
skip_dead_code(R, pos) ==
  IF pos > Len(R.code) THEN [R EXCEPT !.pos = pos]
  ELSE LET i == R.code[pos]
       IN IF i.op = "label"
          THEN IF R.refs[i.l] > 0 THEN [R EXCEPT !.pos = pos] ELSE skip_dead_code(R, pos + 1)
          ELSE skip_dead_code(IF i.op \in LabelOps THEN AddRef(R, i.l, -1) ELSE R, pos + 1)

(* get_label_pos: where a jump to the label ends up, through gotos.        *)
RECURSIVE label_pos_rec(_, _, _)
label_pos_rec(code, pos, n) ==
  IF code[pos].op = "label" THEN label_pos_rec(code, pos + 1, n)
  ELSE IF code[pos].op # "goto" \/ n = 0 THEN pos
  ELSE label_pos_rec(code, LabelPos(code, code[pos].l), n - 1)
get_label_pos(code, l) == label_pos_rec(code, LabelPos(code, l), 19)

(***************************************************************************)
(* resolve_variables.                                                      *)
(***************************************************************************)
Lexical(E, v) == \E k \in DOMAIN E.vars : E.vars[k].v = v /\ E.vars[k].lexical
ScopeVars(E, scope) == SelectSeq(E.vars, LAMBDA d : d.scope = scope)

can_opt_put_ref_value(code, p) ==
  code_match(code, p, <<{"insert3", "perm4", "nop", "rot3l"}, {"put_ref_value"}>>)

(* Mutant: the store does not check that the variable is initialised.      *)
MutUncheckedStore(R, i, check, next) ==
  LET p == LabelPos(R.code, i.l)
      put == OpV("put_loc", i.v)
      keep == R.code[p].op = "insert3"
      get == R.code[next].op = "get_ref_value"
  IN [R EXCEPT !.code[p - 1] = IF keep THEN Op("dup") ELSE put,
               !.code[p] = IF keep THEN put ELSE Op("nop"),
               !.code[p + 1] = Op("nop"),
               !.out = IF get THEN Append(@, OpV(IF check THEN "get_loc_check" ELSE "get_loc", i.v)) ELSE @,
               !.pos = IF get THEN next + 1 ELSE next]

(* The store after the label of a reference becomes a store to the local;  *)
(* the label makes room for it.                                            *)
optimize_scope_make_ref(R, i, check, next) ==
  LET p == LabelPos(R.code, i.l)
      put == OpV(IF check THEN "put_loc_check" ELSE "put_loc", i.v)
      keep == R.code[p].op = "insert3"
      get == R.code[next].op = "get_ref_value"
  IN [R EXCEPT !.code[p - 1] = IF keep THEN Op("dup") ELSE put,
               !.code[p] = IF keep THEN put ELSE Op("nop"),
               !.code[p + 1] = Op("nop"),
               !.out = IF get THEN Append(@, OpV(IF check THEN "get_loc_check" ELSE "get_loc", i.v))
                       ELSE @,
               !.pos = IF get THEN next + 1 ELSE next]

resolve_scope_var(R, E, i, next) ==
  LET check == Lexical(E, i.v)
  IN CASE i.op = "scope_get_var" ->
            Out(R, <<OpV(IF check THEN "get_loc_check" ELSE "get_loc", i.v)>>, next)
       [] i.op = "scope_put_var" ->
            Out(R, <<OpV(IF check THEN "put_loc_check" ELSE "put_loc", i.v)>>, next)
       [] i.op = "scope_put_var_init" -> Out(R, <<OpV("put_loc", i.v)>>, next)
       [] i.op = "scope_delete_var" -> Out(R, <<Op("push_false")>>, next)
       [] i.op = "scope_make_ref" ->
            LET R1 == AddRef(R, i.l, -1)
            IN IF can_opt_put_ref_value(R.code, LabelPos(R.code, i.l))
               THEN optimize_scope_make_ref(R1, i, check, next)
               ELSE Out(R1, <<OpV("make_loc_ref", i.v)>>, next)

(* dup if_x(l1) drop, where l1 leads to if_x(l2): if_x(l2).                *)
RECURSIVE same_test(_, _, _)
same_test(code, l, op) ==
  LET p == get_label_pos(code, l)
  IN IF code_match(code, p, <<{"dup"}, {op}, {"drop"}>>) THEN same_test(code, code[p + 1].l, op) ELSE p

(* The step at R.pos.                                                      *)
resolve_variable(R, E) ==
    LET i == R.code[R.pos]
        next == R.pos + 1
        j == R.code[next]
        test == same_test(R.code, j.l, j.op)
    IN
         CASE i.op \in {"scope_get_var", "scope_put_var", "scope_put_var_init",
                        "scope_delete_var", "scope_make_ref"} -> resolve_scope_var(R, E, i, next)
           [] i.op = "gosub" /\ R.code[LabelPos(R.code, i.l)].op = "ret" ->
                Out(AddRef(R, i.l, -1), <<>>, next)
           [] i.op = "insert3" /\ code_match(R.code, next, <<{"put_array_el", "put_ref_value"}, {"drop"}>>) ->
                Out(R, <<j>>, next + 2)
           [] i.op \in {"goto", "tail_call", "tail_call_method", "return", "return_undef", "throw",
                        "throw_var", "ret"} ->
                skip_dead_code(Out(R, <<i>>, next), next)
           [] i.op = "enter_scope" ->
                LET vs == ScopeVars(E, i.n)
                IN Out(R, [k \in DOMAIN vs |-> OpV("set_loc_uninitialized", vs[k].v)], next)
           [] i.op = "leave_scope" ->
                LET vs == SelectSeq(ScopeVars(E, i.n), LAMBDA d : d.v \in E.captured)
                IN Out(R, [k \in DOMAIN vs |-> OpV("close_loc", vs[k].v)], next)
           [] i.op = "dup" /\ code_match(R.code, next, <<{"if_false", "if_true"}, {"drop"}>>)
              /\ R.code[test].op = j.op ->
                LET l2 == R.code[test].l
                IN Out(AddRef(AddRef(R, j.l, -1), l2, 1), <<OpL(j.op, l2)>>, next + 2)
           [] i.op = "nop" -> Out(R, <<>>, next)
           [] OTHER -> Out(R, <<i>>, next)

(* The whole pass: at most 2^k steps.                                      *)
RECURSIVE resolve_variables(_, _, _)
resolve_variables(R, E, k) ==
  IF R.pos > Len(R.code) THEN R
  ELSE IF k = 0 THEN resolve_variable(R, E)
  ELSE resolve_variables(resolve_variables(R, E, k - 1), E, k - 1)

(***************************************************************************)
(* resolve_labels.                                                         *)
(***************************************************************************)
(* find_jump_target: the label a chain of gotos leads to, and the          *)
(* instruction there; drops before return_undef do not count.              *)
RECURSIVE after_drops(_, _)
after_drops(code, p) == IF code[p].op = "drop" THEN after_drops(code, p + 1) ELSE p
RECURSIVE jump_target_rec(_, _, _, _)
jump_target_rec(code, l, p, n) ==
  LET op == code[p].op
  IN CASE op = "label" -> jump_target_rec(code, l, p + 1, n)
       [] op = "goto" /\ n > 0 -> jump_target_rec(code, code[p].l, LabelPos(code, code[p].l), n - 1)
       [] op = "drop" /\ code[after_drops(code, p)].op = "return_undef" -> [l |-> l, op |-> "return_undef"]
       [] OTHER -> [l |-> IF op = "goto" THEN code[p].l ELSE l, op |-> op]
find_jump_target(code, l) == jump_target_rec(code, l, LabelPos(code, l), 9)

Retarget(R, l, t) == AddRef(AddRef(R, l, -1), t.l, 1)

RECURSIVE code_has_label(_, _, _)
code_has_label(code, p, l) ==
  /\ p <= Len(code)
  /\ \/ code[p].op = "label" /\ (code[p].l = l \/ code_has_label(code, p + 1, l))
     \/ code[p].op = "goto" /\ code[p].l = l

has_label(R, op, l, next) ==
  LET R1 == Out(R, <<OpL(op, l)>>, next)
  IN IF op = "goto" THEN skip_dead_code(R1, next) ELSE R1
has_goto(R, l, next) ==
  LET t == find_jump_target(R.code, l)
      R1 == Retarget(R, l, t)
  IN IF code_has_label(R.code, next, t.l) THEN Out(AddRef(R1, t.l, -1), <<>>, next)
     ELSE IF t.op \in {"return", "return_undef", "throw"}
     THEN skip_dead_code(Out(AddRef(R1, t.l, -1), <<Op(t.op)>>, next), next)
     ELSE has_label(R1, "goto", t.l, next)
Negated(op) == IF op = "if_true" THEN "if_false" ELSE "if_true"
has_if(R, i, next) ==
  LET t == find_jump_target(R.code, i.l)
      R1 == Retarget(R, i.l, t)
      g == R.code[next]
  IN IF code_has_label(R.code, next, t.l) THEN Out(AddRef(R1, t.l, -1), <<Op("drop")>>, next)
     ELSE IF g.op = "goto" /\ code_has_label(R.code, next + 1, t.l)
     THEN has_label(AddRef(R1, t.l, -1), Negated(i.op), g.l, next + 1)
     ELSE has_label(R1, i.op, t.l, next)

(* A constant followed by a test of it.                                    *)
IfOps == {"if_false", "if_true"}
has_constant_test(R, val, next) ==
  LET j == R.code[next]
  IN IF val = (j.op = "if_true") THEN has_goto(R, j.l, next + 1)
     ELSE Out(AddRef(R, j.l, -1), <<>>, next + 1)
(* null and undefined: === and !== against them have an opcode.            *)
has_nullish(R, i, next) ==
  LET is == Op(IF i.op = "null" THEN "is_null" ELSE "is_undefined")
  IN CASE code_match(R.code, next, <<IfOps>>) -> has_constant_test(R, FALSE, next)
       [] code_match(R.code, next, <<{"strict_eq"}>>) -> Out(R, <<is>>, next + 1)
       [] code_match(R.code, next, <<{"strict_neq"}, IfOps>>) ->
            has_label(Out(R, <<is>>, next), Negated(R.code[next + 1].op), R.code[next + 1].l, next + 2)
       [] OTHER -> Out(R, <<i>>, next)

(* The store of a variable and what follows it.                            *)
Reads(code, p, v) == p <= Len(code) /\ code[p] = OpV("get_loc", v)
has_store(R, pre, v, next) ==
  IF Reads(R.code, next, v) THEN Out(R, pre \o <<OpV("set_loc", v)>>, next + 1)
  ELSE Out(R, pre \o <<OpV("put_loc", v)>>, next)
PostOps == {"post_inc", "post_dec"}
StepOf(op) == IF op \in {"inc", "post_inc"} THEN "inc" ELSE "dec"
has_get_loc(R, i, next) ==
  LET c == R.code
      Same(k) == c[next + k].v = i.v
      loc == OpV(IF StepOf(c[next].op) = "inc" THEN "inc_loc" ELSE "dec_loc", i.v)
  IN CASE code_match(c, next, <<PostOps, {"put_loc"}, {"drop"}>>) /\ Same(1) -> Out(R, <<loc>>, next + 3)
       [] code_match(c, next, <<{"inc", "dec"}, {"dup"}, {"put_loc"}, {"drop"}>>) /\ Same(2) ->
            Out(R, <<loc>>, next + 4)
       [] code_match(c, next, <<{"push_i32", "push_atom_value", "get_loc"}, {"add"}, {"dup"}, {"put_loc"}, {"drop"}>>)
          /\ Same(3) -> Out(R, <<c[next], OpV("add_loc", i.v)>>, next + 5)
       [] OTHER -> Out(R, <<i>>, next)

resolve_label(R) ==
    LET c == R.code
        i == c[R.pos]
        next == R.pos + 1
        j == c[next]
        Is(k, ops) == code_match(c, next + k, <<ops>>)
        Same == Out(R, <<i>>, next)
    IN
         CASE i.op \in {"call", "call_method"} /\ Is(0, {"return"}) ->
                skip_dead_code(Out(R, <<[i EXCEPT !.op = IF @ = "call" THEN "tail_call"
                                                         ELSE "tail_call_method"]>>, next + 1), next + 1)
           [] i.op \in {"return", "return_undef", "return_async", "throw", "throw_var"} ->
                skip_dead_code(Same, next)
           [] i.op = "goto" -> has_goto(R, i.l, next)
           [] i.op \in IfOps -> has_if(R, i, next)
           [] i.op = "drop" /\ Is(0, {"return_undef"}) -> Out(R, <<>>, next)
           [] i.op = "push_i32" /\ i.n # 0 /\ Is(0, {"neg"}) ->
                IF Is(1, {"drop"}) THEN Out(R, <<>>, next + 2) ELSE Out(R, <<OpN("push_i32", -i.n)>>, next + 1)
           [] i.op \in {"push_i32", "undefined", "push_atom_value"} /\ Is(0, {"drop"}) ->
                Out(R, <<>>, next + 1)
           [] i.op = "push_i32" /\ Is(0, IfOps) -> has_constant_test(R, i.n # 0, next)
           [] i.op \in {"push_true", "push_false"} /\ Is(0, IfOps) ->
                has_constant_test(R, i.op = "push_true", next)
           [] i.op = "undefined" /\ Is(0, {"return"}) -> Out(R, <<Op("return_undef")>>, next + 1)
           [] i.op \in {"undefined", "null"} /\ ~Is(0, {"drop", "return"}) -> has_nullish(R, i, next)
           [] i.op \in {"to_propkey", "to_propkey2"} /\ Is(1, {"put_array_el"})
              /\ Is(0, {"get_loc", "push_i32", "push_atom_value", "undefined", "null", "push_true",
                        "push_false"}) -> Out(R, <<>>, next)
           [] i.op = "insert2" /\ Is(0, {"put_field"}) /\ Is(1, {"drop"}) -> Out(R, <<j>>, next + 2)
           [] i.op = "dup" /\ Is(0, {"put_loc"}) ->
                IF Is(1, {"drop"}) THEN has_store(R, <<>>, j.v, next + 2)
                ELSE Out(R, <<OpV("set_loc", j.v)>>, next + 1)
           [] i.op = "get_loc" -> has_get_loc(R, i, next)
           [] i.op = "put_loc" -> has_store(R, <<>>, i.v, next)
           [] i.op \in PostOps /\ Is(0, {"put_loc"}) /\ Is(1, {"drop"}) ->
                has_store(R, <<Op(StepOf(i.op))>>, j.v, next + 2)
           [] i.op \in PostOps /\ Is(2, {"drop"})
              /\ (code_match(c, next, <<{"perm3"}, {"put_field"}>>)
                  \/ code_match(c, next, <<{"perm4"}, {"put_array_el"}>>)) ->
                Out(R, <<Op(StepOf(i.op)), c[next + 1]>>, next + 3)
           [] OTHER -> Same
RECURSIVE resolve_labels(_, _)
resolve_labels(R, k) ==
  IF R.pos > Len(R.code) THEN R
  ELSE IF k = 0 THEN resolve_label(R)
  ELSE resolve_labels(resolve_labels(R, k - 1), k - 1)

(* Labels become addresses: every label is bound to the instruction that   *)
(* follows it.                                                             *)
IsInstr(i) == i.op # "label"
Address(out, l) == 1 + Cardinality({p \in 1..LabelPos(out, l) - 1 : IsInstr(out[p])})
Link(out) ==
  LET is == SelectSeq(out, IsInstr)
  IN [k \in DOMAIN is |-> IF is[k].l # 0 THEN [is[k] EXCEPT !.l = Address(out, @)] ELSE is[k]]

(* js_create_function, for a body: the passes in order.                    *)
js_create_function(kind, ss) ==
  LET E == js_parse_program(kind, ss)
      R0 == [code |-> E.code, pos |-> 1, out |-> <<>>, refs |-> E.refs]
      R1 == resolve_variables(R0, E, MaxLog)
      R2 == resolve_labels([R1 EXCEPT !.code = R1.out, !.out = <<>>, !.pos = 1], MaxLog)
      code == Link(R2.out)
      size == compute_stack_size(code)
  IN IF E.err # "" THEN [code |-> <<>>, tab |-> <<>>, err |-> E.err, vars |-> {}, refs |-> <<>>, out |-> <<>>]
     ELSE [code |-> code, tab |-> size.tab, err |-> size.err,
           vars |-> {E.vars[k].v : k \in DOMAIN E.vars}, refs |-> R2.refs, out |-> R2.out]
===============================================================================
