------------------------------ MODULE Bytecode ------------------------------
(***************************************************************************)
(* The bytecode of one function and its interpreter, JS_CallInternal, as   *)
(* far as control flow is concerned: the operand stack, jumps, the catch   *)
(* offsets that mark exception handlers and open iterators, the gosub/ret  *)
(* pair of a finally block, unwinding, the local variables and the cells   *)
(* that closures share with them, and compute_stack_size.                  *)
(*                                                                         *)
(* Values are pairs <<kind, number>>.  An operation that may run user code *)
(* is an event: it is added to the trace and the environment chooses its   *)
(* outcome ("throw", or "yes"/"no"/"nil" for a truthy, a falsy and a null  *)
(* result); <<"res", n>> is the result of the n-th event.                  *)
(***************************************************************************)
EXTENDS Integers, Sequences, FiniteSets

Undef == <<"undef", 0>>
Null == <<"null", 0>>
Bool(b) == <<"bool", IF b THEN 1 ELSE 0>>
JSInt(n) == <<"int", n>>
Uninitialized == <<"uninit", 0>>
CatchOffset(pc) == <<"catch", pc>>

(* An instruction: opcode, integer operand, label (a target position once  *)
(* the labels are resolved) and variable or atom.                          *)
Op(op) == [op |-> op, n |-> 0, l |-> 0, v |-> ""]
OpN(op, n) == [Op(op) EXCEPT !.n = n]
OpL(op, l) == [Op(op) EXCEPT !.l = l]
OpV(op, v) == [Op(op) EXCEPT !.v = v]

(***************************************************************************)
(* quickjs-opcode.h: what an opcode pops and pushes.  A call also pops its *)
(* arguments.                                                              *)
(***************************************************************************)
PushOps == {"push_i32", "undefined", "null", "push_false", "push_true",
            "fclosure", "push_atom_value", "push_this", "push_home", "get_loc", "get_loc_check", "catch"}
UnaryOps == {"get_field", "get_super", "lnot", "neg", "plus", "not", "typeof", "inc", "dec",
             "is_undefined_or_null", "is_undefined", "is_null", "to_propkey",
             "set_loc", "for_in_start"}
BinaryOps == {"get_array_el", "delete", "add", "sub", "mul", "lt", "strict_eq",
              "strict_neq"}
PopOps == {"put_loc", "put_loc_check", "if_true", "if_false", "throw", "return",
           "return_async", "ret", "drop", "add_loc"}

opcode_info(op) ==
  CASE op \in PushOps -> <<0, 1>>
    [] op \in UnaryOps -> <<1, 1>>
    [] op \in BinaryOps -> <<2, 1>>
    [] op \in PopOps -> <<1, 0>>
    [] op \in {"nip"} -> <<2, 1>>
    [] op \in {"nip1"} -> <<3, 2>>
    [] op \in {"dup", "get_field2", "post_inc", "post_dec", "yield"} -> <<1, 2>>
    [] op \in {"dup1", "insert2"} -> <<2, 3>>
    [] op = "dup2" -> <<2, 4>>
    [] op = "dup3" -> <<3, 6>>
    [] op \in {"insert3"} -> <<3, 4>>
    [] op \in {"insert4"} -> <<4, 5>>
    [] op \in {"perm3", "rot3l", "rot3r"} -> <<3, 3>>
    [] op \in {"perm4", "rot4l", "swap2"} -> <<4, 4>>
    [] op \in {"perm5", "rot5l"} -> <<5, 5>>
    [] op \in {"swap", "to_propkey2", "get_array_el2"} -> <<2, 2>>
    [] op = "put_field" -> <<2, 0>>
    [] op = "make_loc_ref" -> <<0, 2>>
    [] op = "get_ref_value" -> <<2, 3>>
    [] op \in {"put_array_el", "put_ref_value"} -> <<3, 0>>
    [] op = "get_super_value" -> <<3, 1>>
    [] op = "put_super_value" -> <<4, 0>>
    [] op = "call" -> <<1, 1>>
    [] op = "tail_call" -> <<1, 0>>
    [] op \in {"call_method", "call_constructor"} -> <<2, 1>>
    [] op = "tail_call_method" -> <<2, 0>>
    [] op = "for_of_start" -> <<1, 3>>
    [] op = "for_in_next" -> <<1, 3>>
    [] op = "for_of_next" -> <<3, 5>>
    [] op = "iterator_close" -> <<3, 0>>
    [] op = "iterator_close_return" -> <<4, 4>>
    [] OTHER -> <<0, 0>>  \* goto gosub return_undef nop close_loc inc_loc dec_loc ...

CallOps == {"call", "tail_call", "call_method", "tail_call_method", "call_constructor"}
NPop(i) == opcode_info(i.op)[1] + (IF i.op \in CallOps THEN i.n ELSE 0)
NPush(i) == opcode_info(i.op)[2]

(***************************************************************************)
(* compute_stack_size: the depth of the stack at every reachable position. *)
(* The recursion of compute_stack_size_rec is a list of positions still to *)
(* be explored; `err' names the error it would raise.                      *)
(***************************************************************************)
Terminators == {"tail_call", "tail_call_method", "return", "return_undef", "return_async",
                "throw", "throw_var", "ret"}

compute_stack_size_at(code, s) ==
  LET pos == Head(s.todo)[1]
      len == Head(s.todo)[2]
      i == code[pos]
      after == len - NPop(i) + NPush(i)
      next == CASE i.op \in Terminators -> <<>>
                [] i.op = "goto" -> <<<<i.l, after>>>>
                [] i.op \in {"if_true", "if_false", "catch"} -> <<<<i.l, after>>, <<pos + 1, after>>>>
                [] i.op = "gosub" -> <<<<i.l, after + 1>>, <<pos + 1, after>>>>
                [] OTHER -> <<<<pos + 1, after>>>>
  IN CASE pos > Len(code) -> [s EXCEPT !.err = "bytecode buffer overflow"]
       [] pos <= Len(code) /\ s.tab[pos] = len -> [s EXCEPT !.todo = Tail(@)]
       [] pos <= Len(code) /\ s.tab[pos] \notin {-1, len} -> [s EXCEPT !.err = "unconsistent stack size"]
       [] pos <= Len(code) /\ s.tab[pos] = -1 /\ len < NPop(i) -> [s EXCEPT !.err = "stack underflow"]
       [] OTHER -> [s EXCEPT !.todo = next \o Tail(@), !.tab[pos] = len,
                             !.max = IF after > @ THEN after ELSE @]

(* At most 2^k steps.                                                      *)
MaxLog == 8   \* a program has at most 2^8 instructions
RECURSIVE compute_stack_size_rec(_, _, _)
compute_stack_size_rec(code, s, k) ==
  IF s.todo = <<>> \/ s.err # "" THEN s
  ELSE IF k = 0 THEN compute_stack_size_at(code, s)
  ELSE compute_stack_size_rec(code, compute_stack_size_rec(code, s, k - 1), k - 1)
compute_stack_size(code) ==
  compute_stack_size_rec(code,
    [todo |-> <<<<1, 0>>>>, tab |-> [p \in 1..Len(code) |-> -1], max |-> 0, err |-> ""], MaxLog)

(***************************************************************************)
(* Instructions that only rearrange the stack: how many values they take,  *)
(* and which of these, numbered from the deepest, they leave.              *)
(***************************************************************************)
Shuffle ==
  [drop    |-> <<1, <<>>>>,              nip     |-> <<2, <<2>>>>,
   nip1    |-> <<3, <<2, 3>>>>,          dup     |-> <<1, <<1, 1>>>>,
   dup1    |-> <<2, <<1, 1, 2>>>>,       dup2    |-> <<2, <<1, 2, 1, 2>>>>,
   dup3    |-> <<3, <<1, 2, 3, 1, 2, 3>>>>,
   insert2 |-> <<2, <<2, 1, 2>>>>,       insert3 |-> <<3, <<3, 1, 2, 3>>>>,
   insert4 |-> <<4, <<4, 1, 2, 3, 4>>>>, perm3   |-> <<3, <<2, 1, 3>>>>,
   perm4   |-> <<4, <<3, 1, 2, 4>>>>,    perm5   |-> <<5, <<4, 1, 2, 3, 5>>>>,
   swap    |-> <<2, <<2, 1>>>>,          swap2   |-> <<4, <<3, 4, 1, 2>>>>,
   rot3l   |-> <<3, <<2, 3, 1>>>>,       rot3r   |-> <<3, <<3, 1, 2>>>>,
   rot4l   |-> <<4, <<2, 3, 4, 1>>>>,    rot5l   |-> <<5, <<2, 3, 4, 5, 1>>>>]

(* A stack: pop n values, the value k places below the top, push values.   *)
Pop(st, n) == SubSeq(st, 1, Len(st) - n)
Top(st, k) == st[Len(st) - k]
TopSeq(st, n) == SubSeq(st, Len(st) - n + 1, Len(st))

(***************************************************************************)
(* The frame: program counter, stack, locals, cells (JSVarRef: open while  *)
(* they point to the local), trace and outcomes, the event whose outcome   *)
(* is awaited, the exception being unwound, and the result.                *)
(***************************************************************************)
NoEvent == [op |-> "", args |-> <<>>]
Event(op, args) == [op |-> op, args |-> args]

NewFrame(locals) ==
  [pc |-> 1, st |-> <<>>, loc |-> locals, cells |-> <<>>, tr |-> <<>>, out |-> <<>>,
   ev |-> NoEvent, unw |-> <<>>, status |-> "run", val |-> Undef, fns |-> <<>>, lost |-> FALSE, ok |-> TRUE]

JS_ToBool(M, v) == CASE v[1] = "res" -> M.out[v[2]] = "yes"
                     [] v[1] \in {"bool", "int"} -> v[2] # 0
                     [] OTHER -> v[1] \notin {"undef", "null"}
IsNullish(M, v) == v[1] \in {"undef", "null"} \/ (v[1] = "res" /\ M.out[v[2]] = "nil")
IsKey(v) == v[1] \notin {"res"}
(* Identity with null or undefined ("nil" is null).                        *)
IsNull(M, v) == v = Null \/ (v[1] = "res" /\ M.out[v[2]] = "nil")
SameNullish(M, a, b) == (IsNull(M, a) /\ IsNull(M, b)) \/ (a = Undef /\ b = Undef)

(* The closed value of a cell, and what a closure sees through it now.     *)
CellValue(M, c) == IF M.cells[c].open THEN M.loc[M.cells[c].v] ELSE M.cells[c].val

(* get_var_ref: a closure reuses the open cell of the variable.            *)
OpenCell(M, v) == {c \in DOMAIN M.cells : M.cells[c].v = v /\ M.cells[c].open}
get_var_ref(M, v) ==
  IF OpenCell(M, v) # {} THEN M
  ELSE [M EXCEPT !.cells = Append(@, [v |-> v, open |-> TRUE, val |-> Undef])]

(* close_lexical_var: the cell keeps the value and leaves the frame.       *)
close_lexical_var(M, v) ==
  [M EXCEPT !.cells = [c \in DOMAIN @ |->
     IF @[c].v = v /\ @[c].open THEN [@[c] EXCEPT !.open = FALSE, !.val = M.loc[v]]
     ELSE @[c]]]

(***************************************************************************)
(* The exception label: pop the stack down to a catch offset.  Offset 0    *)
(* belongs to an iterator, which is closed; whatever the close does, the   *)
(* original exception stays.                                               *)
(***************************************************************************)
RECURSIVE Unwind(_, _)
Unwind(M, exc) ==
  IF M.st = <<>> THEN [M EXCEPT !.status = "threw", !.val = exc]
  ELSE LET v == Top(M.st, 0)
           M1 == [M EXCEPT !.st = Pop(@, 1)]
           M2 == [M EXCEPT !.st = Pop(@, 2)]
       IN IF v[1] # "catch" THEN Unwind(M1, exc)
          ELSE IF v[2] # 0
          THEN [M1 EXCEPT !.st = Append(@, exc), !.pc = v[2],
                          !.lost = @ \/ \E c \in DOMAIN M.cells : M.cells[c].open]
          ELSE IF Top(M2.st, 0) = Undef THEN Unwind(M2, exc)
          ELSE [M2 EXCEPT !.unw = <<exc>>, !.ev = Event("close", <<Top(M2.st, 0)>>)]

(***************************************************************************)
(* The event an instruction has to wait for, if any.  A property key that  *)
(* is not yet a key is converted first.                                    *)
(***************************************************************************)
Ints(a, b) == a[1] = "int" /\ b[1] = "int"
EventOf(M, i) ==
  LET t(k) == Top(M.st, k)
      KeyOr(k, ev) == IF IsKey(t(k)) THEN ev ELSE Event("key", <<t(k)>>)
  IN CASE i.op \in {"get_field", "get_field2"} -> Event("get", <<t(0), <<i.v, 0>>>>)
       [] i.op = "put_field" -> Event("set", <<t(1), <<i.v, 0>>, t(0)>>)
       [] i.op \in {"get_array_el", "get_array_el2"} -> KeyOr(0, Event("get", <<t(1), t(0)>>))
       [] i.op = "put_array_el" -> KeyOr(1, Event("set", <<t(2), t(1), t(0)>>))
       [] i.op = "get_super_value" -> KeyOr(0, Event("getsuper", <<t(2), t(1), t(0)>>))
       [] i.op = "put_super_value" -> Event("setsuper", <<t(3), t(2), t(1), t(0)>>)
       [] i.op \in {"to_propkey", "to_propkey2"} -> KeyOr(0, NoEvent)
       [] i.op = "delete" -> KeyOr(0, Event("delete", <<t(1), t(0)>>))
       [] i.op \in {"call", "tail_call"} -> Event("call", <<Undef>> \o TopSeq(M.st, i.n + 1))
       [] i.op \in {"call_method", "tail_call_method"} ->
            Event("call", TopSeq(M.st, i.n + 2))
       [] i.op = "call_constructor" -> Event("new", TopSeq(M.st, i.n + 2))
       [] i.op \in {"strict_eq", "strict_neq"} /\ {t(0), t(1)} \cap {Undef, Null} # {} -> NoEvent
       [] i.op \in {"add", "sub", "mul", "lt", "strict_eq", "strict_neq"} /\ ~Ints(t(1), t(0)) ->
            Event(IF i.op = "strict_neq" THEN "strict_eq" ELSE i.op, <<t(1), t(0)>>)
       [] i.op = "add_loc" /\ ~Ints(M.loc[i.v], t(0)) -> Event("add", <<M.loc[i.v], t(0)>>)
       [] i.op \in {"inc", "dec", "post_inc", "post_dec", "neg", "plus", "not"} /\ t(0)[1] # "int" ->
            Event("num", <<t(0)>>)
       [] i.op \in {"inc_loc", "dec_loc"} /\ M.loc[i.v][1] # "int" -> Event("num", <<M.loc[i.v]>>)
       [] i.op = "for_in_start" -> Event("enum", <<t(0)>>)
       [] i.op = "for_in_next" -> Event("innext", <<t(0)>>)
       [] i.op = "for_of_start" -> Event("iter", <<t(0)>>)
       [] i.op = "for_of_next" /\ t(2) # Undef -> Event("next", <<t(2)>>)
       [] i.op = "iterator_close" /\ t(2) # Undef -> Event("close", <<t(2)>>)
       [] i.op = "yield" -> Event("yield", <<t(0)>>)
       [] OTHER -> NoEvent

(* What the environment may answer.                                        *)
Outcomes(op) ==
  CASE op = "call" -> {"throw", "yes", "no", "nil", "interrupt"}
    [] op \in {"get", "getsuper"} -> {"throw", "yes", "nil"}
    [] op \in {"strict_eq", "lt"} -> {"yes", "no"}
    [] op \in {"next", "innext"} -> {"throw", "yes", "done"}
    [] op = "yield" -> {"throw", "next", "return"}
    [] OTHER -> {"throw", "yes"}

(* Arithmetic on small integers runs no user code.                         *)
Arith(op, a, b) == CASE op \in {"add", "add_loc"} -> JSInt(a + b)
                     [] op = "sub" -> JSInt(a - b)
                     [] op = "mul" -> JSInt(a * b)
                     [] op = "lt" -> Bool(a < b)
                     [] op = "strict_eq" -> Bool(a = b)
                     [] op = "strict_neq" -> Bool(a # b)
Stepped(op, v) == LET d == IF op \in {"inc", "post_inc", "inc_loc"} THEN 1 ELSE -1
                  IN IF v[1] = "int" THEN JSInt(v[2] + d) ELSE <<IF d = 1 THEN "inc" ELSE "dec", v[2]>>
Signed(op, v) == IF op = "neg" THEN (IF v[1] = "int" THEN JSInt(-v[2]) ELSE <<"neg", v[2]>>)
                 ELSE IF op = "not" THEN (IF v[1] = "int" THEN JSInt(-v[2] - 1) ELSE <<"not", v[2]>>)
                 ELSE v

(***************************************************************************)
(* One instruction, by groups; `r' is the result of its event if it had    *)
(* one, and `o' the outcome.                                               *)
(***************************************************************************)
Advance(M, st) == [M EXCEPT !.st = st, !.pc = @ + 1]
Push(M, n, vs) == Advance(M, Pop(M.st, n) \o vs)
Jump(M, n, l) == [M EXCEPT !.st = Pop(@, n), !.pc = l]

ConstantOps == {"push_i32", "push_atom_value", "undefined", "null", "push_true", "push_false",
                "push_this", "push_home", "get_super"}
ExecConstant(M, i) ==
  CASE i.op = "push_i32" -> Push(M, 0, <<JSInt(i.n)>>)
    [] i.op = "push_atom_value" -> Push(M, 0, <<<<i.v, 0>>>>)
    [] i.op = "undefined" -> Push(M, 0, <<Undef>>)
    [] i.op = "null" -> Push(M, 0, <<Null>>)
    [] i.op \in {"push_true", "push_false"} -> Push(M, 0, <<Bool(i.op = "push_true")>>)
    [] i.op \in {"push_this", "push_home"} -> Push(M, 0, <<<<i.op, 0>>>>)
    [] i.op = "get_super" -> Push(M, 1, <<<<"super", 0>>>>)

ExecShuffle(M, i) ==
  LET s == Shuffle[i.op] IN Push(M, s[1], [k \in 1..Len(s[2]) |-> Top(M.st, s[1] - s[2][k])])

(* Locals.  A checked access throws while the variable is uninitialised.   *)
LocalOps == {"get_loc", "put_loc", "set_loc", "get_loc_check", "put_loc_check",
             "set_loc_uninitialized", "close_loc"}
Unset(M, i) == i.op \in {"get_loc_check", "put_loc_check"} /\ M.loc[i.v] = Uninitialized
ExecLocal(M, i) ==
  CASE Unset(M, i) -> Unwind(M, <<"tdz", 0>>)
    [] ~Unset(M, i) /\ i.op \in {"get_loc", "get_loc_check"} -> Push(M, 0, <<M.loc[i.v]>>)
    [] ~Unset(M, i) /\ i.op \in {"put_loc", "put_loc_check"} -> [Push(M, 1, <<>>) EXCEPT !.loc[i.v] = Top(M.st, 0)]
    [] i.op = "set_loc" -> [Push(M, 0, <<>>) EXCEPT !.loc[i.v] = Top(M.st, 0)]
    [] i.op = "set_loc_uninitialized" -> [Push(M, 0, <<>>) EXCEPT !.loc[i.v] = Uninitialized]
    [] i.op = "close_loc" -> close_lexical_var(Push(M, 0, <<>>), i.v)

(* A reference to a local: an object and the name of its only property.    *)
RefOps == {"make_loc_ref", "get_ref_value", "put_ref_value"}
ExecRef(M, i) ==
  CASE i.op = "make_loc_ref" -> Push(M, 0, <<<<"ref", 0>>, <<i.v, 0>>>>)
    [] i.op = "get_ref_value" -> IF M.loc[Top(M.st, 0)[1]] = Uninitialized THEN Unwind(M, <<"tdz", 0>>)
                                 ELSE Push(M, 0, <<M.loc[Top(M.st, 0)[1]]>>)
    [] i.op = "put_ref_value" -> [Push(M, 3, <<>>) EXCEPT !.loc[Top(M.st, 1)[1]] = Top(M.st, 0)]

ExecClosure(M, i) ==
  LET M1 == get_var_ref(M, i.v)
      M2 == [M1 EXCEPT !.fns = Append(@, CHOOSE c \in OpenCell(M1, i.v) : TRUE)]
  IN Push(M2, 0, <<<<"fn", Len(M2.fns)>>>>)

JumpOps == {"goto", "if_true", "if_false", "catch", "gosub", "ret"}
ExecJump(M, i) ==
  LET t == Top(M.st, 0)
  IN CASE i.op = "goto" -> Jump(M, 0, i.l)
       [] i.op \in {"if_true", "if_false"} -> IF JS_ToBool(M, t) = (i.op = "if_true") THEN Jump(M, 1, i.l)
                                              ELSE Push(M, 1, <<>>)
       [] i.op = "catch" -> Push(M, 0, <<CatchOffset(i.l)>>)
       [] i.op = "gosub" -> [M EXCEPT !.st = Append(@, JSInt(M.pc + 1)), !.pc = i.l]
       [] i.op = "ret" -> IF t[1] # "int" THEN Unwind(M, <<"invalid ret value", 0>>) ELSE Jump(M, 1, t[2])

ExitOps == {"throw", "throw_var", "return", "return_async", "return_undef", "tail_call", "tail_call_method"}
ExecExit(M, i, r) ==
  CASE i.op = "throw" -> Unwind([M EXCEPT !.st = Pop(@, 1)], Top(M.st, 0))
    [] i.op = "throw_var" -> Unwind(M, <<"delete super", 0>>)
    [] i.op \in {"return", "return_async"} -> [M EXCEPT !.status = "returned", !.val = Top(M.st, 0)]
    [] i.op = "return_undef" -> [M EXCEPT !.status = "returned", !.val = Undef]
    [] i.op \in {"tail_call", "tail_call_method"} -> [M EXCEPT !.status = "returned", !.val = r]

(* Iteration: an iterator is three values (object, method, catch offset 0);*)
(* a finished one has undefined for its object.                            *)
IteratorOps == {"for_of_start", "for_of_next", "for_in_next", "iterator_close_return"}
ExecIterator(M, i, r, o) ==
  LET st == M.st
      n == Len(st)
  IN CASE i.op = "for_of_start" -> Push(M, 1, <<r, <<"nextfn", r[2]>>, CatchOffset(0)>>)
       [] i.op = "for_of_next" ->
            IF Top(st, 2) = Undef \/ o = "done"
            THEN Advance(M, [st EXCEPT ![n - 2] = Undef] \o <<Undef, Bool(TRUE)>>)
            ELSE Push(M, 0, <<r, Bool(FALSE)>>)
       [] i.op = "for_in_next" -> Push(M, 0, IF o = "done" THEN <<Undef, Bool(TRUE)>> ELSE <<r, Bool(FALSE)>>)
       [] i.op = "iterator_close_return" ->
            LET p == CHOOSE k \in 1..n - 1 : st[k][1] = "catch" /\ \A j \in k + 1..n - 1 : st[j][1] # "catch"
            IN Advance(M, SubSeq(st, 1, p - 3) \o <<Top(st, 0)>> \o SubSeq(st, p - 2, p))

(* Property keys: converted in place, then the instruction is retried.     *)
KeyAt(i) == IF i.op = "put_array_el" THEN 1 ELSE 0
ElementOps == {"get_array_el", "get_array_el2", "delete", "get_super_value", "put_array_el",
               "to_propkey", "to_propkey2"}
ExecElement(M, i, r) ==
  CASE ~IsKey(Top(M.st, KeyAt(i))) -> [M EXCEPT !.st[Len(M.st) - KeyAt(i)] = <<"key", r[2]>>]
    [] OTHER -> CASE i.op \in {"to_propkey", "to_propkey2"} -> Push(M, 0, <<>>)
                  [] i.op = "get_array_el2" -> Push(M, 1, <<r>>)
                  [] i.op = "put_array_el" -> Push(M, 3, <<>>)
                  [] OTHER -> Push(M, NPop(i), <<r>>)

ArithOps == {"add", "sub", "mul", "lt", "strict_eq", "strict_neq"}
Nullish(M) == {Top(M.st, 0), Top(M.st, 1)} \cap {Undef, Null} # {}
ExecArith(M, i, r, o) ==
  LET a == Top(M.st, 1)
      b == Top(M.st, 0)
  IN Push(M, 2, <<CASE i.op \in {"strict_eq", "strict_neq"} /\ Nullish(M) ->
                         Bool(SameNullish(M, a, b) = (i.op = "strict_eq"))
                    [] Ints(a, b) -> Arith(i.op, a[2], b[2])
                    [] OTHER -> IF i.op = "strict_neq" THEN Bool(o # "yes") ELSE r>>)

StepOps == {"inc", "dec", "post_inc", "post_dec", "inc_loc", "dec_loc", "neg", "plus", "not", "add_loc"}
ExecStep(M, i, r) ==
  LET Numeric(v) == IF v[1] = "int" THEN v ELSE r
      t == Top(M.st, 0)
  IN CASE i.op \in {"inc", "dec"} -> Push(M, 1, <<Stepped(i.op, Numeric(t))>>)
       [] i.op \in {"post_inc", "post_dec"} -> Push(M, 1, <<Numeric(t), Stepped(i.op, Numeric(t))>>)
       [] i.op \in {"inc_loc", "dec_loc"} -> [Push(M, 0, <<>>) EXCEPT !.loc[i.v] = Stepped(i.op, Numeric(@))]
       [] i.op = "add_loc" -> [Push(M, 1, <<>>) EXCEPT !.loc[i.v] = IF Ints(@, t) THEN Arith("add", @[2], t[2]) ELSE r]
       [] OTHER -> Push(M, 1, <<Signed(i.op, Numeric(t))>>)

TestOps == {"lnot", "is_undefined_or_null", "is_undefined", "is_null", "typeof"}
ExecTest(M, i) ==
  LET t == Top(M.st, 0)
  IN Push(M, 1, <<CASE i.op = "lnot" -> Bool(~JS_ToBool(M, t))
                    [] i.op = "is_undefined_or_null" -> Bool(IsNullish(M, t))
                    [] i.op = "is_undefined" -> Bool(t = Undef)
                    [] i.op = "is_null" -> Bool(IsNull(M, t))
                    [] i.op = "typeof" -> <<"typeof", t[2]>>>>)

(* Calls and fields: pop the operands, push the result.                    *)
ExecCall(M, i, r) == Push(M, NPop(i), IF NPush(i) = 1 THEN <<r>> ELSE <<>>)

Execute(M, i, r, o) ==
  CASE i.op \in DOMAIN Shuffle -> ExecShuffle(M, i)
    [] i.op \in ConstantOps -> ExecConstant(M, i)
    [] i.op \in LocalOps -> ExecLocal(M, i)
    [] i.op \in RefOps -> ExecRef(M, i)
    [] i.op = "fclosure" -> ExecClosure(M, i)
    [] i.op \in JumpOps -> ExecJump(M, i)
    [] i.op \in ExitOps -> ExecExit(M, i, r)
    [] i.op \in IteratorOps -> ExecIterator(M, i, r, o)
    [] i.op \in ElementOps -> ExecElement(M, i, r)
    [] i.op \in ArithOps -> ExecArith(M, i, r, o)
    [] i.op \in StepOps -> ExecStep(M, i, r)
    [] i.op \in TestOps -> ExecTest(M, i)
    [] i.op = "get_field2" -> Push(M, 0, <<r>>)
    [] i.op = "yield" -> Push(M, 1, <<r, Bool(o = "return")>>)
    [] OTHER -> ExecCall(M, i, r)

(***************************************************************************)
(* Run up to the next event.  `ok' records that the stack was never deeper *)
(* than compute_stack_size predicts; it may be less deep, because          *)
(* iterator_close_return drops what lies above the iterator.               *)
(***************************************************************************)
RECURSIVE RunToEvent(_, _, _)
RunToEvent(M, code, tab) ==
  IF M.status # "run" \/ M.ev # NoEvent THEN M
  ELSE LET i == code[M.pc]
           M1 == [M EXCEPT !.ok = @ /\ Len(M.st) <= tab[M.pc]]
           ev == EventOf(M1, i)
       IN IF ev # NoEvent THEN [M1 EXCEPT !.ev = ev]
          ELSE RunToEvent(Execute(M1, i, Undef, ""), code, tab)

(* The outcome of the awaited event.  An interrupted call raises an error  *)
(* that is not catchable: the frame is left without unwinding.             *)
Answer(M, code, tab, o) ==
  LET n == Len(M.tr) + 1
      M1 == [M EXCEPT !.tr = Append(@, M.ev), !.out = Append(@, o), !.ev = NoEvent]
      i == code[M.pc]
      exc == <<"exc", n>>
      res == <<"res", n>>
  IN RunToEvent(
       IF o = "interrupt" THEN [M1 EXCEPT !.status = "interrupted"]
       ELSE IF M.unw # <<>> THEN Unwind([M1 EXCEPT !.unw = <<>>], M.unw[1])
       ELSE IF o # "throw" THEN Execute(M1, i, res, o)
       ELSE CASE i.op = "for_of_next" ->
                   Unwind([M1 EXCEPT !.st[Len(M.st) - 2] = Undef], exc)
              [] i.op = "iterator_close" -> Unwind([M1 EXCEPT !.st = Pop(@, 2)], exc)
              [] OTHER -> Unwind(M1, exc), code, tab)
=============================================================================
