-------------------------------- MODULE MCData --------------------------------
(***************************************************************************)
(* Regular expressions, the binary form of values and functions, the       *)
(* buffers with their views, and maps and weak maps with their iterators,  *)
(* one beside the other: area says which one a behaviour is about.         *)
(***************************************************************************)
EXTENDS RegExpSemantics, BinaryObject, TypedArrays, Collections, TLC

(***************************************************************************)
(* Instances of the regular expression engine: patterns of one or two      *)
(* quantifiers in the contexts that matter, over texts of up to four       *)
(* units; sets of code points; sequences of up to five tokens.             *)
(***************************************************************************)
VARIABLES
  job,       \* "match", "ranges" or "syntax"
  ast        \* the pattern of the match, or the operands
RxVars == <<job, ast, re, text, vm>>

CONSTANT Compile(_, _)     \* lre_compile

la == Char(4)
lb == Char(5)
NoFlags == [ignore_case |-> FALSE, is_utf16 |-> FALSE, multi_line |-> FALSE, dotall |-> FALSE, sticky |-> FALSE]
Quants(x) ==
  {Rep(x, q[1], q[2], g) : g \in BOOLEAN,
     q \in {<<0, INT32_MAX>>, <<1, INT32_MAX>>, <<0, 1>>, <<0, 0>>, <<2, 2>>, <<0, 2>>, <<1, 2>>, <<2, INT32_MAX>>, <<1, 3>>}}
Bodies ==
  {la, Dot, NonCapturing(Cat(<<la, lb>>)), NonCapturing(Alt(<<la, lb>>)), NonCapturing(Alt(<<la, Cat(<<la, lb>>)>>)), NonCapturing(Alt(<<la, Empty>>)),
   Group(la), Group(Alt(<<la, lb>>)), Group(Alt(<<la, Empty>>)), NonCapturing(Alt(<<Group(la), lb>>)), NonCapturing(Empty),
   NonCapturing(Cat(<<Group(la), Ref(1)>>)), Group(Rep(la, 0, INT32_MAX, TRUE)), Group(Rep(la, 0, 1, FALSE)),
   Look(FALSE, FALSE, Group(la)), NonCapturing(Cat(<<Assertion("word_boundary"), la>>)), NonCapturing(Rep(Group(la), 2, 2, TRUE)),
   NonCapturing(Cat(<<Rep(Group(la), 0, 1, TRUE), lb>>))}
Repeated == UNION {Quants(x) : x \in Bodies}
Loops ==
  Repeated \cup {Cat(<<q, lb>>) : q \in Repeated} \cup {Cat(<<Group(q), Ref(1)>>) : q \in Repeated}
    \cup {Alt(<<Cat(<<q, la>>), lb>>) : q \in Repeated}
    \cup {Cat(<<Look(n, k, q), lb>>) : q \in Repeated, n \in BOOLEAN, k \in BOOLEAN}
(* Characters of two units, and what precedes and follows them.            *)
AnyChar == Class(TRUE, <<>>)
Surrogates ==
  {Cat(<<Group(x), y>>) : x \in {Rep(Dot, 0, INT32_MAX, TRUE), Rep(Dot, 1, 2, FALSE), Rep(AnyChar, 1, INT32_MAX, TRUE), Dot},
                   y \in {Char(PAIR), Char(LO), Ref(1), Look(FALSE, TRUE, Char(LO)), Look(TRUE, TRUE, Char(PAIR)),
                          Look(FALSE, TRUE, Cat(<<Group(Dot), Ref(2)>>)), Look(FALSE, TRUE, Cat(<<Ref(2), Group(Dot)>>))}}
Texts16 == {<<HI, LO>>, <<HI, LO, HI, LO>>, <<LO, HI, LO>>, <<HI, LO, LO>>, <<HI, HI, LO>>, <<HI, LO, HI>>}
(* Letters in both cases, classes, and the flags that change their sense.  *)
Item(name) == [t |-> "escape", name |-> name, inv |-> FALSE]
ClassPatterns ==
  {Class(inv, items) : inv \in BOOLEAN,
     items \in {<<>>, <<Interval(4, 4)>>, <<Interval(2, 2)>>, <<Interval(3, 4), Item("d")>>, <<Interval(1, 1), Interval(5, 8)>>,
                <<Item("w"), Interval(0, 0)>>, <<Interval(8, 8), Interval(2, 3)>>, <<Interval(2, PAIR)>>}}
Letters ==
  ClassPatterns \cup {Char(2), la, Dot, Escape("w", TRUE), Escape("s", FALSE), Escape("d", TRUE)}
Lines ==
  {Cat(<<x, y, z>>) : x \in {Empty, Assertion("line_start"), Assertion("not_word_boundary")}, y \in {la, Char(2), Dot},
                      z \in {Assertion("line_end"), Assertion("word_boundary"), Named("n", Dot)}}
Backwards ==
  {Cat(<<Look(n, TRUE, x), Dot>>) : n \in BOOLEAN,
     x \in {Cat(<<Group(x1), x2>>) : x1 \in {la, Dot, Rep(Dot, 0, 2, FALSE)}, x2 \in {Ref(1), lb, NonCapturing(Alt(<<la, lb>>)), Class(FALSE, <<Interval(4, 5)>>)}}
             \cup {Cat(<<NamedRef(1, "n"), Named("n", Dot)>>), Cat(<<Assertion("line_start"), Rep(Dot, 1, INT32_MAX, TRUE)>>)}}

WithFlags(is) == [f \in DOMAIN NoFlags |-> f \in is]
(* What each pattern is matched against.                                   *)
Subjects(x) ==
  IF x \in Loops THEN {<<WithFlags({}), t>> : t \in {<<4, 5, 5>>, <<4, 4, 5>>, <<5, 4, 5>>}}
  ELSE IF x \in Surrogates THEN {<<WithFlags(f), t>> : f \in {{}, {"is_utf16"}}, t \in Texts16}
  ELSE IF x \in Letters
  THEN {<<WithFlags(f), <<c>>>> : f \in {{}, {"ignore_case"}, {"ignore_case", "is_utf16"}, {"dotall", "is_utf16"}}, c \in 0..MAX16}
         \cup {<<WithFlags({"is_utf16"}), <<HI, LO>>>>}
  ELSE {<<WithFlags(f), t>> : f \in {{}, {"multi_line"}, {"ignore_case", "sticky"}}, t \in {<<4, 0, 2>>, <<4, 2, 4>>, <<5, 4, 0>>, <<4, 4, 5>>}}
Patterns == {x \in Loops \cup Surrogates \cup Letters \cup Lines \cup Backwards : ~UncheckedLoop(x)}
(* Sets of points, those that are not compressed included.                 *)
Points ==
  {<<>>} \cup {<<i, j>> : i \in 0..5, j \in 1..6} \cup {<<i, j, k, l>> : i \in 0..3, j \in 1..4, k \in 1..5, l \in 2..6}
PointSets == {pt \in Points : \A i \in 1..(Len(pt) - 1) : IF i % 2 = 1 THEN pt[i] < pt[i + 1] ELSE pt[i] <= pt[i + 1]}
T(t) == [t |-> t]
Tokens ==
  {la.tok, Ref(1).tok, T("star"), T("quest"), [t |-> "(", name |-> ""], T(")"), T("|"), [t |-> "(?=", neg |-> FALSE, back |-> FALSE]}
MoreTokens ==
  Tokens \cup {T("line_end"), [t |-> "braces", lo |-> 2, hi |-> 1], T("(?:"), [t |-> "(?<n>", name |-> "n"],
               [t |-> "(?=", neg |-> FALSE, back |-> TRUE]}

Idle == [ret |-> "idle"]
RxInit ==
  /\ re = Idle /\ text = <<>> /\ vm = Idle
  /\ \/ job = "match" /\ ast \in Patterns
     \/ job = "ranges" /\ ast \in PointSets
     \/ job = "syntax" /\ ast \in UNION {[1..n -> MoreTokens] : n \in 0..2}
RxStart ==
  /\ vm = Idle /\ UNCHANGED <<job, ast>>
  /\ \/ /\ job = "match"
        /\ \E s \in Subjects(ast) :
             /\ text' = s[2]
             /\ re' = Compile(Render(ast), s[1])
             /\ vm' = lre_exec(re', 0)
     \/ /\ job = "ranges" /\ text' \in PointSets /\ UNCHANGED re /\ vm' = [ret |-> "ranges"]
     \/ /\ job = "syntax" /\ Len(ast) = 2
        /\ text' \in UNION {[1..n -> Tokens] : n \in 0..2} \cup [1..1 -> MoreTokens]
        /\ \E u \in BOOLEAN : re' = Compile(ast \o text', WithFlags(IF u THEN {"is_utf16"} ELSE {}))
        /\ vm' = [ret |-> "parsed"]
RxNext == RxStart \/ (vm # Idle /\ job = "match" /\ ExecNext /\ UNCHANGED <<job, ast>>)

Finished == job = "match" /\ vm.ret \notin {"idle", "running"}
Agrees(rule) ==
  LET env == [chars |-> Characters(text, re.flags.is_utf16), flags |-> re.flags, rule |-> rule]
      r == FirstMatch(ast, env, 0)
  IN IF vm.ret = "no match" THEN r.p = NIL
     ELSE vm.ret = "match" /\ r.p # NIL /\ vm.capture = InUnits(env.chars, r)
(* The code lre_compile emits, executed by lre_exec_backtrack, finds the   *)
(* match and the captures its own rules for loops call for, and ends.      *)
MatchesAsCompiled == (Finished /\ ~UpperCaseClass(ast, re.flags)) => Agrees("kept")
(* Without captures in loops and without iterations that consume nothing   *)
(* that is the match of the standard.                                      *)
MatchesStandard ==
  (Finished /\ ~UpperCaseClass(ast, re.flags) /\ ~RepeatedCapture(ast) /\ ~EmptyIteration(ast)) => Agrees("standard")
OperandsStacked == job = "match" /\ vm # Idle => StackIsEnough
(* cr_op and cr_invert compute the union, intersection, difference and     *)
(* complement of the sets, in canonical form.                              *)
RangesExact ==
  (job = "ranges" /\ vm # Idle) =>
    LET A == Members(ast)
        B == Members(text)
        Is(cr, S) == Canonical(cr) /\ Members(cr) = S
    IN /\ Is(cr_op(ast, text, "UNION"), A \cup B)
       /\ Is(cr_op(ast, text, "INTER"), A \cap B)
       /\ Is(cr_op(ast, text, "XOR"), (A \cup B) \ (A \cap B))
       /\ Is(cr_invert(ast), (0..(UINT32_MAX - 1)) \ A)
       /\ Is(cr_invert(cr_op(ast, text, "UNION")), (0..(UINT32_MAX - 1)) \ (A \cup B))
(* A pattern is refused exactly if the grammar does not derive it.         *)
SyntaxExact ==
  (job = "syntax" /\ vm # Idle) => (re.ok = IsPattern(ast \o text, re.flags.is_utf16))

-----------------------------------------------------------------------------
(***************************************************************************)
(* Values, object graphs, functions and modules are written in one runtime *)
(* and read in another; the topic is chosen first, the input next.         *)
(***************************************************************************)
VARIABLES bcTopic, bcInput
bcVars == <<bcTopic, bcInput>>

MCWord == 268435456
MCOpInfo ==
    LET fmts == <<"none", "u8", "u16", "npop_u16", "u32", "atom", "atom_u8", "atom_u16",
                  "atom_label_u8", "atom_label_u16", "label_u16">>
    IN  [op \in 1..Len(fmts) |-> [fmt |-> fmts[op], size |-> 1 + Sum(Layout(fmts[op]))]]

Narrow(units) == [wide |-> FALSE, units |-> units]
Wide(units) == [wide |-> TRUE, units |-> units]
(* Atoms 1 and 2 are predefined, 3 to 5 are made at run time; 6 is a       *)
(* symbol.  Another runtime may have made them in another order.           *)
AtomNames == <<Narrow(<<108>>), Narrow(<<114, 97>>), Narrow(<<120>>), Wide(<<955, 65>>), Narrow(<<>>), Narrow(<<120>>)>>
Interned(order) == [str \in {AtomNames[i] : i \in 1..5} |->
                        IF str = AtomNames[1] THEN 1 ELSE IF str = AtomNames[2] THEN 2
                        ELSE CHOOSE a \in 3..5 : AtomNames[order[a - 2]] = str]
ReadingRuntime(order, big) ==
    [JS_NewAtomStr |-> Interned(order), big_endian |-> big, symbols |-> {6},
     atoms |-> [a \in 1..6 |-> IF a \in 3..5 THEN AtomNames[order[a - 2]] ELSE AtomNames[a]]]
WritingRuntime(objects) == [atoms |-> AtomNames, symbols |-> {6}, big_endian |-> FALSE, heap |-> objects]
SameOrder == <<3, 4, 5>>
OtherOrder == <<5, 3, 4>>

JSNumbers == {<<"int", n>> : n \in {0, 1, -1, 63, 64, -64, -65, 8191, 8192, -8192, -8193, 1048575, -1048577,
                                    MCWord \div 2 - 1, 0 - MCWord \div 2}}
             \cup {<<"float", <<1, 2, 3, 4, 5, 6, 7, 8>>>>, <<"float", <<0, 0, 0, 0, 0, 0, 240, 127>>>>}
BigNums ==
    LET Num(type, sign, expn, limbs) == <<"big", [type |-> type, sign |-> sign, kind |-> "finite", expn |-> expn, limbs |-> limbs]>>
        Other(type, sign, kind) == <<"big", [type |-> type, sign |-> sign, kind |-> kind, expn |-> 0, limbs |-> <<>>]>>
        limbs2 == {<<<<a, b>>, <<c, 128>>>> : a, b, c \in {0, 7}} \ {<<<<0, 0>>, <<c, 128>>>> : c \in {0, 7}}
        limbs1 == {<<<<a, 130>>>> : a \in {0, 9}}
        decimals == {<<<<a, b, c>>, <<4, 0, d>>>> : a \in {0, 9}, b \in {0, 5}, c \in {0, 3}, d \in {1, 9}}
    IN  {Num(t, s, e, l) : t \in {"bigint", "bigfloat"}, s \in {0, 1}, e \in {-3, -1, 0, 1, 70}, l \in limbs1 \cup limbs2}
        \cup {Num("bigdecimal", s, e, l) : s \in {0, 1}, e \in {-1, 0, 2},
                 l \in {d \in decimals : Zeros(d[1]) < 3} \cup {<<<<0, 0, 6>>>>}}
        \cup {Num("bigfloat", s, e, <<<<1, 128>>>>) : s \in {0, 1}, e \in {MCWord \div 4 - 3, MCWord \div 4 - 4, 0 - MCWord \div 4, (0 - MCWord \div 4) - 1}}
        \cup {Other(t, s, k) : t \in {"bigint", "bigfloat", "bigdecimal"}, s \in {0, 1}, k \in {"zero", "inf", "nan"}}
Primitives == {<<"null">>, <<"undefined">>, <<"bool", 0>>, <<"bool", 1>>} \cup JSNumbers \cup BigNums
              \cup {<<"string", str>> : str \in {AtomNames[i] : i \in 1..5} \cup {Narrow([i \in 1..70 |-> 200])}}

Prop(name, value) == [name |-> name, enumerable |-> TRUE, accessor |-> FALSE, value |-> value]
Obj(p) == <<"object", p>>
Seven == <<"int", 7>>
Objects2 == {[JSObject("object") EXCEPT !.props = <<Prop(3, Obj(p)), Prop(JS_ATOM_TAG_INT + 9, Obj(q))>>] : p, q \in 1..3}
            \cup {[JSObject("array") EXCEPT !.items = <<Obj(p), <<"hole">>, Obj(3)>>] : p \in 1..3}
            \cup {[JSObject("array") EXCEPT !.items = <<Seven>>, !.extensible = FALSE, !.raw = <<Obj(p)>>] : p \in {2, 3}}
(* Views the constructor makes: aligned and inside the buffer, the whole   *)
(* of it and an empty one at its end among them; none of a detached one's  *)
(* elements is left.                                                       *)
ViewOf(kind, count, offset) ==
    [JSObject("typed") EXCEPT !.kind = kind, !.count = count, !.offset = offset, !.items = <<Obj(3)>>]
ViewsOf(c) == IF c.detached THEN {ViewOf(3, 0, 2)}
              ELSE {ViewOf(3, 1, 2), ViewOf(5, 0, 4)} \cup (IF c.class = "sab" THEN {ViewOf(10, 1, 0)} ELSE {})
Leaves == {[JSObject("date") EXCEPT !.items = <<Seven>>], [JSObject("boxed") EXCEPT !.items = <<<<"bool", 1>>>>],
           JSObject("object"), JSObject("map"), [JSObject("array") EXCEPT !.extensible = FALSE],
           [JSObject("object") EXCEPT !.props = <<[Prop(4, Seven) EXCEPT !.accessor = TRUE]>>],
           [JSObject("object") EXCEPT !.props = <<[Prop(4, Seven) EXCEPT !.enumerable = FALSE], Prop(6, Seven), Prop(1, Seven), Prop(5, Seven)>>]}
Buffers3 == {[JSObject("buffer") EXCEPT !.bytes = <<1, 2, 3, 200>>], [JSObject("buffer") EXCEPT !.detached = TRUE],
             [JSObject("sab") EXCEPT !.count = 8, !.addr = 33]}
Heaps == {<<a, b, c>> : a \in Objects2, b \in Objects2 \cup Leaves, c \in Leaves \cup Buffers3}
         \cup UNION {{<<a, b, c>> : a \in Objects2, b \in ViewsOf(c)} : c \in Buffers3}

Op2(op, atom) ==
    LET layout == Layout(MCOpInfo[op].fmt)
        operands == [i \in DOMAIN layout |->
                        IF i = 1 /\ HasAtom(MCOpInfo[op].fmt) THEN Bytes4(atom)
                        ELSE [k \in 1..layout[i] |-> 10 * i + k]]
    IN  <<op>> \o FlattenSeq(operands)
Func(code, cpool, set, vars, next) ==
    <<"function",
      [flags |-> [i \in 1..12 |-> IF i = set THEN 1 ELSE IF i = 5 THEN 2 ELSE 0], js_mode |-> 3, name |-> 4,
       counts |-> <<1, 300, 0, 65535>>, code |-> code, cpool |-> cpool,
       vars |-> IF vars THEN <<[name |-> 5, scope_level |-> 2, scope_next |-> next, flags |-> <<9, 1, 0, 1, 0>>]>> ELSE <<>>,
       closures |-> IF vars THEN <<>> ELSE <<[name |-> 3, var_idx |-> 258, flags |-> <<0, 1, 1, 0, 7>>]>>,
       debug |-> IF set = 11 THEN [filename |-> 3, line_num |-> 200, pc2line |-> <<6, 0, 200, 1, 8>>] ELSE NoDebug]>>
Codes == {Op2(o, a) \o Op2(p, b) : o, p \in DOMAIN MCOpInfo, a \in {1, 4}, b \in {3, JS_ATOM_TAG_INT + 12}}
Functions == {Func(code, <<>>, 0, FALSE, 0) : code \in Codes}
             \cup {Func(Op2(1, 1), <<Obj(1), Func(Op2(6, 5), <<Obj(1)>>, 11, FALSE, 0)>>, set, vars, next) :
                      set \in 0..12 \ {5}, vars \in BOOLEAN, next \in {-2, -1, 0, 200}}
Module(exports, imports, n) ==
    <<"module", [name |-> 5, requires |-> SubSeq(<<3, 4>>, 1, n), exports |-> exports, stars |-> SubSeq(<<1, 0>>, 1, n),
                 imports |-> imports, func |-> Func(Op2(8, 5), <<>>, 11, TRUE, -1)]>>
AnExport(local, idx) == [local |-> local, idx |-> idx, local_name |-> IF local THEN 0 ELSE 4, export_name |-> 3]
ModuleValues == {Module(es, is, n) : es \in {<<>>, <<AnExport(TRUE, 130)>>, <<AnExport(FALSE, 0), AnExport(TRUE, 1)>>},
                                is \in {<<>>, <<[var_idx |-> 300, import_name |-> 1, req_module_idx |-> 1]>>}, n \in 0..2}
FirstHeap == <<[JSObject("array") EXCEPT !.items = <<Seven>>, !.extensible = FALSE]>>
-----------------------------------------------------------------------------
Addresses == {8, 16, 24, 32, 40, 56, 72}
LineCalls == {<<>>} \cup UNION {{s \in [1..n -> [pc : {0, 1, 50, 51, 200}, line : {1, 2, 4, 5, 100}]] :
                                    \A i \in 1..(n - 1) : s[i].pc <= s[i + 1].pc} : n \in 1..3}
bcInputs(topic) ==
    CASE topic = "values" -> [value : Primitives, heap : {<<>>}, flags : {{}, {"bswap"}}, order : {OtherOrder}]
      [] topic = "graph" -> [value : {Obj(1)}, heap : Heaps, flags : SUBSET {"reference", "sab", "bytecode"}, order : {OtherOrder}]
      [] topic = "function" -> [value : Functions, heap : {FirstHeap}, order : {SameOrder, OtherOrder},
                                flags : {{"bytecode"}, {"bytecode", "reference"}, {"bytecode", "bswap"}, {"bytecode", "rom"}, {}}]
      [] topic = "module" -> [value : ModuleValues, heap : {<<>>}, order : {SameOrder, OtherOrder},
                              flags : {{"bytecode"}, {"bytecode", "bswap"}}]
      [] topic = "list" -> UNION {{s \in [1..n -> Addresses] : \A i, j \in 1..n : i < j => s[i] # s[j]} : n \in {1, 4, 5}}
      [] topic = "lines" -> [calls : LineCalls, first : {1, 5}]

bcInit == bcTopic \in {"values", "graph", "function", "module", "list", "lines"} /\ bcInput = <<>>
bcAsk == bcInput = <<>> /\ UNCHANGED bcTopic /\ \E x \in bcInputs(bcTopic) : bcInput' = <<x>>
bcReturn == bcInput # <<>> /\ bcInput' = <<>> /\ UNCHANGED bcTopic
bcNext == bcAsk \/ bcReturn

bcAsked(topics) == bcTopic \in topics /\ bcInput # <<>>
bcX == bcInput[1]
Written == JS_WriteObject2(WritingRuntime(bcX.heap), bcX.value, bcX.flags \ {"rom"})
OtherRuntime == ReadingRuntime(bcX.order, "bswap" \in bcX.flags)
ReadFrom(buf) == JS_ReadObject(OtherRuntime, buf, bcX.flags \ {"bswap"})

(* A value that can be written reads back as the same value: every number, *)
(* string, flag, instruction and name survives, in a runtime whose atoms   *)
(* have other numbers and on a machine of the other byte order ("byte      *)
(* swapped output is untested", JS_WriteObject2), and with references the  *)
(* objects read have exactly the sharing and the cycles of those written   *)
(* ("allow object references to encode arbitrary object graph",            *)
(* quickjs.h).  A value that cannot be written is refused.                 *)
ReadsBack ==
    bcAsked({"values", "graph", "function", "module"}) =>
    LET rt == WritingRuntime(bcX.heap)
        w == Written
        r == ReadFrom(w.buf)
    IN  IF CanWrite(rt, bcX.value, bcX.flags)
        THEN /\ w.error = "" /\ r.error = "" /\ r.ptr = Len(w.buf)
             /\ SameValue(rt, rt.heap, bcX.value, OtherRuntime, r.heap, r.val, bcX.flags)
        ELSE w.error # ""

(* The writer hands out the address of every shared buffer once for each   *)
(* time the reader takes a reference to it: js_worker_postMessage counts   *)
(* up what is in this table.                                               *)
SharedBuffersCounted ==
    bcAsked({"graph"}) =>
    LET w == Written IN
    IF w.error # "" THEN w.sab_tab = <<>> ELSE w.sab_tab = ReadFrom(w.buf).sab_dups

(* However writing ends, no object keeps its mark: the next write would    *)
(* take it for a circular reference.  Not covered: a SharedArrayBuffer     *)
(* refused for want of a flag, which leaves by another way.                *)
MarksCleared ==
    bcAsked({"graph"}) =>
        \A p \in Written.marks : Refused(Writer(WritingRuntime(bcX.heap), bcX.flags), bcX.heap[p])

(* Bytes that end too early are never taken for a value.                   *)
TruncatedRefused ==
    bcAsked({"values", "module"}) \/ (bcAsked({"graph"}) /\ bcX.flags = {"reference", "sab"}) =>
    LET w == Written IN
    w.error = "" => \A n \in 0..(Len(w.buf) - 1) : ReadFrom(SubSeq(w.buf, 1, n)).error # ""

(* The list of objects met finds each one under the index it was added     *)
(* with, through growing and collisions.                                   *)
ObjectListExact ==
    bcAsked({"list"}) =>
    LET f[i \in 0..Len(bcX)] == IF i = 0 THEN js_object_list_init ELSE js_object_list_add(f[i - 1], bcX[i])
    IN  FindsExactly(f[Len(bcX)], Addresses)

(* The line found for a place in the bytecode is the one last set at or    *)
(* before it, however far apart the places and the lines are               *)
(* (compute_pc2line_info, find_line_num).                                  *)
LinesExact ==
    bcAsked({"lines"}) =>
    LET n == Len(bcX.calls)
        f[i \in 0..n] == IF i = 0 THEN <<>> ELSE add_pc2line_info(f[i - 1], bcX.first, bcX.calls[i].pc, bcX.calls[i].line)
        buf == compute_pc2line_info(f[n], bcX.first)
        lineOf(pc) == LET before == {i \in 1..n : bcX.calls[i].pc <= pc}
                      IN  IF before = {} THEN bcX.first ELSE bcX.calls[CHOOSE i \in before : \A j \in before : j <= i].line
    IN  \A pc \in {0, 1, 2, 49, 50, 51, 52, 199, 200, 300} : find_line_num(buf, bcX.first, pc) = lineOf(pc)

-----------------------------------------------------------------------------
(***************************************************************************)
(* One area is "objects": buffers and views are made, detached and         *)
(* finalized in any order.  The others: a heap of two views over four      *)
(* bytes, an unused view and buffer, and one operation on it, its          *)
(* arguments detaching the buffer or not.  A byte has two bits.            *)
(***************************************************************************)
CONSTANTS b1, b2, b3, v1, v2, v3, dv
VARIABLES bufPart, ask
bufVars == <<heap, dying, bufPart, ask>>

MCClasses == {"int8", "uint8c", "int16", "uint16", "float32"}
MCSizeOf == [c \in MCClasses |-> IF c \in {"int8", "uint8c"} THEN 1 ELSE 2]
MCIndexes == {-1, 0, 1, 2, 3}
MCSigned == {"int8", "int16"}

ByteFills == {<<0, 2, 3, 1>>, <<3, 3, 1, 3>>, <<2, 1, 0, 2>>}
AView(class, b, offset) ==
    LET n == (4 - offset) \div SizeOf[class] IN
    [class |-> class, buffer |-> b, offset |-> offset, length |-> n * SizeOf[class], count |-> n,
     made |-> "live"]
Setup(p, c1, o1, c2, second) ==
    [data |-> [b \in Buffers |-> IF b = b1 THEN p ELSE IF b = b2 THEN <<1, 0, 2, 1>> ELSE <<>>],
     status |-> [b \in Buffers |-> IF b = b3 THEN "none" ELSE "live"],
     shared |-> [b \in Buffers |-> FALSE], held |-> [b \in Buffers |-> b # b3],
     list |-> [b \in Buffers |-> {v \in {v1, v2, dv} : b = IF v = v2 THEN second ELSE b1}],
     view |-> (v1 :> AView(c1, b1, o1) @@ v2 :> AView(c2, second, 0) @@ v3 :> NoView(b3) @@
               dv :> [class |-> DataView, buffer |-> b1, offset |-> 1, length |-> 3, count |-> 0,
                      made |-> "live"])]

Args(values) == [value : values, detaches : {{}, {b1}}]
Protos == {PlainPrototype, [detaches |-> {b1}, throws |-> FALSE], [detaches |-> {b1}, throws |-> TRUE]}
Opt(S) == {<<>>} \cup {<<x>> : x \in S}
(* At most one value is converted by detaching.                            *)
OneOf(values, x) == {Plain(y) : y \in values} \cup {[value |-> x, detaches |-> {b1}]}
Numbers == {Integer(n) : n \in {-5, -1, 0, 2, 6}} \cup {<<"half", n>> : n \in {-2, 0, 1}}
           \cup {<<"zero", -1>>, <<"nan", 0>>, <<"inf", 1>>, <<"inf", -1>>}
AnyNumber == OneOf(Numbers, Integer(1))
Position3 == OneOf({-1, 1, 3}, 1)
Overlapping == OneOf({-2, 0, 1, 4}, 1)
Species(targets) == [target : {<<>>} \cup {<<t>> : t \in targets}, detaches : {{}, {b1}}]
(* The answers of a predicate: at most two hits, at most one detaches.     *)
Calls(n) == {c \in [1..n -> Args(BOOLEAN)] :
                /\ Cardinality({i \in 1..n : c[i].value}) < 3
                /\ Cardinality({i \in 1..n : c[i].detaches # {}}) < 2}
(* Comparisons: none, contradicting itself, descending, a coarse one.      *)
Orders(S) == {[x, y \in S |-> 0], [x, y \in S |-> -1], [x, y \in S |-> js_cmp_doubles(y, x)],
              [x, y \in S |-> (x[2] % 2) - (y[2] % 2)]}

OnOneView == {"copyWithin", "fill", "find", "search", "whole", "bufferSlice", "sort", "get", "put", "atomic"}
OnTwoViews == {"set", "slice", "of"}
Questions(h, topic) ==
    LET n == h.view[v1].count
        S == {Element(h, v1, i - 1) : i \in 1..n}
    IN  CASE topic = "set" ->
             [op : {"set"}, v : {v1}, offset : OneOf({-1, 0, 1}, 0),
              source : {<<"view", v2>>, <<"view", v1>>} \cup {<<"array", <<x, Plain(Integer(1))>>>> : x \in AnyNumber}]
          [] topic = "copyWithin" ->
             [op : {"copyWithin"}, v : {v1}, target : Overlapping, start : Overlapping, end : Opt(Overlapping)]
          [] topic = "fill" ->
             [op : {"fill"}, v : {v1}, arg : AnyNumber, from : Opt(OneOf({-1, 1}, 0)), end : Opt(OneOf({-1, 2}, 2))]
          [] topic = "find" -> [op : {"find"}, v : {v1}, findIndex : BOOLEAN, calls : Calls(n)]
          [] topic = "search" ->
             [op : {"indexOf", "lastIndexOf", "includes"}, v : {v1}, x : Numbers \cup S, from : Opt(Args({-9, -1, 0, 1}))]
          [] topic = "whole" ->
             [op : {"join"}, v : {v1}, separator : Opt(Args({0}))] \cup [op : {"reverse"}, v : {v1}]
             \cup [op : {"copy"}, v : {v1}, class : Classes, w : {v3}, b : {b3}, species : Species({})]
          [] topic = "slice" ->
             [op : {"slice"}, v : {v1}, start : Position3, end : Opt(Position3), species : Species({v2}),
              w : {v3}, b : {b3}, up : BOOLEAN]
          [] topic = "bufferSlice" ->
             [op : {"bufferSlice"}, v : {v1}, start : Position3, end : Opt(Position3), species : Species({b1, b2}), b : {b3}]
          [] topic = "of" ->
             [op : {"of"}, v : {v1}, species : Species({v1, v2}), w : {v3}, b : {b3},
              args : {<<>>} \cup {<<Plain(Integer(3)), x>> : x \in AnyNumber}]
          [] topic = "sort" -> [op : {"sort"}, v : {v1}, compare : Opt(Args(Orders(S)))]
          [] topic = "get" -> [op : {"get"}, v : {dv}, class : Classes \ {Clamped}, pos : Position3, little : BOOLEAN]
          [] topic = "put" ->
             [op : {"put"}, v : {dv}, class : Classes \ {Clamped}, pos : Position3, arg : AnyNumber, little : BOOLEAN]
          [] topic = "atomic" ->
             [op : {"atomic"}, v : {v1}, index : Position3, arg : AnyNumber, replaced : {Plain(Integer(1))},
              kind : {"add", "sub", "and", "or", "xor", "exchange", "load"}]
             \cup [op : {"atomic"}, v : {v1}, index : Position3, arg : AnyNumber, replaced : Args({Integer(1)}),
                   kind : {"compareExchange"}]
             \cup [op : {"store"}, v : {v1}, index : Position3, arg : AnyNumber]

BufInit ==
    /\ ask = <<>> /\ dying = {}
    /\ \/ bufPart = "objects" /\ heap = EmptyHeap
       \/ bufPart \in OnOneView
          /\ \E p \in ByteFills, c \in Classes, o \in {0, 2} : heap = Setup(p, c, o, "int8", b1)
       \/ bufPart \in OnTwoViews
          /\ \E p \in ByteFills, c1 \in Classes, c2 \in {"int8", "uint8c", "int16"}, o \in {0, 2}, second \in {b1, b2} :
                heap = Setup(p, c1, o, c2, second)

Objects == bufPart = "objects" /\ UNCHANGED <<bufPart, ask>>
bufAsk ==
    /\ bufPart # "objects" /\ ask = <<>> /\ UNCHANGED <<bufPart, heap, dying>>
    /\ \E q \in Questions(heap, bufPart) : ask' = <<q>>
bufReturn == ask # <<>> /\ ask' = <<>> /\ UNCHANGED <<bufPart, heap, dying>>
(* The views a script may create next.                                     *)
NewViews == {v \in {v1, v2} : Mutator /\ Unused(v)}
BufNext ==
    \/ Objects /\ \E n \in Lengths, shared \in BOOLEAN : Construct(b1, n, shared)
    \/ Objects /\ Detach(b1)
    \/ Objects /\ \E v \in NewViews, c \in {"int8", "int16"}, x \in Args(Indexes), y \in Opt(Args(Indexes)), p \in Protos : View(v, c, b1, x, y, p)
    \/ Objects /\ \E w \in NewViews, v \in {v1, v2}, x \in Args(Indexes), y \in Opt(Args(Indexes)) : Subarray(w, v, x, y)
    \/ Objects /\ \E v \in NewViews, x \in Args(Indexes), y \in Opt(Args(Indexes)), p \in Protos : NewDataView(v, b1, x, y, p)
    \/ Objects /\ DropBuffer(b1)
    \/ Objects /\ \E v \in {v1, v2} : DropView(v)
    \/ Objects /\ CollectCycle(b1)
    \/ Objects /\ \E o \in dying : Finalize(o)
    \/ bufAsk
    \/ bufReturn

Asked == ask # <<>>
Answer == Perform(heap, ask[1])
(* The arguments of a question, and whether one of them detaches.          *)
Detaching(x) == x.detaches # {}
Disturbing(q) ==
    \/ "species" \in DOMAIN q /\ Detaching(q.species)
    \/ \E f \in {"offset", "target", "start", "arg", "pos", "index"} \cap DOMAIN q : Detaching(q[f])
    \/ \E f \in {"end", "from", "separator", "compare"} \cap DOMAIN q : q[f] # <<>> /\ Detaching(q[f][1])
    \/ q.op = "set" /\ q.source[1] = "array" /\ Detaching(q.source[2][1])
    \/ q.op = "of" /\ q.args # <<>> /\ Detaching(q.args[2])
    \/ q.op = "find" /\ \E i \in DOMAIN q.calls : Detaching(q.calls[i])
    \/ q.op = "atomic" /\ Detaching(q.replaced)

(* Every operation on elements, DataViews and Atomics whose arguments do   *)
(* not detach does to the sequence of elements, converted by the class,    *)
(* exactly what it should, and touches no other byte.  Not covered: a set  *)
(* that reinterprets its own bytes, a memcpy onto itself, and a negative   *)
(* number sought from the end of an Int8Array, which js_typed_array_indexOf*)
(* never finds.                                                            *)
OperationsExact ==
    Asked /\ ~ Disturbing(ask[1]) /\ ~ Reinterprets(heap, ask[1]) /\ ~ NegativeFromEnd(heap, ask[1])
          /\ ~ CopiesOntoItself(heap, ask[1])
    => Expected(heap, ask[1], Answer)

(* When the conversion of an argument, a callback, a species constructor   *)
(* or a comparison function has detached the buffer, the operation stops   *)
(* with an exception unless it had nothing to access or reads undefined    *)
(* elements from there on; and no operation ever accesses a byte outside a *)
(* buffer.                                                                 *)
NothingLeft(q) ==
    LET n == heap.view[q.v].count IN
    CASE q.op = "copyWithin" ->
            LET to == Relative(q.target.value, n)
                from == Relative(q.start.value, n)
            IN  to = n \/ from >= RelativeOr(q.end, n, n)
      [] q.op = "slice" -> Relative(q.start.value, n) >= RelativeOr(q.end, n, n)
      [] q.op = "lastIndexOf" -> q.from[1].value + n < 0
      [] OTHER -> FALSE
DetachingIsNoticed ==
    Asked =>
    LET q == ask[1]
        r == Answer
        used == IF q.op = "of" /\ ~ Threw(r) THEN r.result[2] ELSE q.v
    IN  /\ ~ Threw(r) /\ IsDetached(r.heap, used) => q.op \in {"find", "join"} \/ NothingLeft(q)
        /\ \A b \in Buffers :
              IF r.heap.status[b] = "detached" THEN r.heap.data[b] = <<>>
              ELSE /\ b # b3 => ByteLength(r.heap, b) = ByteLength(heap, b)
                   /\ \A i \in DOMAIN r.heap.data[b] : r.heap.data[b][i] \in Byte

-----------------------------------------------------------------------------
(* Maps and weak maps with a few keys.                                     *)
CONSTANTS o1, o2, i1

OneObject == {o1}
TwoObjects == {o1, o2}
OneIterator == {i1}

I32(n) == [tag |-> "int", num |-> n]
F64(n) == [tag |-> "float64", num |-> n]

\* 0 and -0.0, and 1 in both spellings; with an object, enough for the table to grow,
\* and for 1 to get a second record after that.
MCNumbers == {I32(0), F64(0), I32(1), F64(1)}
MCScriptKeys == {I32(1), F64(1), o1}

\* Collisions in the table of four buckets, and in the one of five whose mask
\* selects two of them.
MCHash == [k \in MCNumbers \cup TwoObjects |->
             IF k \in MCNumbers THEN IF k.tag = "int" THEN k.num ELSE 7 - k.num
             ELSE IF k = o1 THEN 1 ELSE 6]
MCFirstKeys == <<F64(0), I32(1)>>
MCSlacks == {0, 1}

-----------------------------------------------------------------------------
VARIABLE area
dataVars == <<area, RxVars, bcVars, bufVars, mapVars>>

RxOff == job = "none" /\ ast = <<>> /\ re = Idle /\ text = <<>> /\ vm = Idle
bcOff == bcTopic = "none" /\ bcInput = <<>>
BufOff == bufPart = "none" /\ ask = <<>> /\ heap = EmptyHeap /\ dying = {}
MapsOff == /\ rec = <<>> /\ state = <<>> /\ weakref = <<>> /\ it = <<>> /\ eachFrames = <<>>
           /\ alive = {} /\ held = {} /\ failed = {}

MCInit == \/ area = "regexp" /\ RxInit /\ bcOff /\ BufOff /\ MapsOff
          \/ area = "binary" /\ RxOff /\ bcInit /\ BufOff /\ MapsOff
          \/ area = "buffers" /\ RxOff /\ bcOff /\ BufInit /\ MapsOff
          \/ area = "maps" /\ RxOff /\ bcOff /\ BufOff /\ Init
MCNext == \/ area = "regexp" /\ RxNext /\ UNCHANGED <<area, bcVars, bufVars, mapVars>>
          \/ area = "binary" /\ bcNext /\ UNCHANGED <<area, RxVars, bufVars, mapVars>>
          \/ area = "buffers" /\ BufNext /\ UNCHANGED <<area, RxVars, bcVars, mapVars>>
          \/ area = "maps" /\ Next /\ UNCHANGED <<area, RxVars, bcVars, bufVars>>
MCSpec == MCInit /\ [][MCNext]_dataVars

(* Regular expressions match what the language says.                       *)
RegExpsExact ==
  area = "regexp" =>
    OperandsStacked /\ MatchesAsCompiled /\ MatchesStandard /\ RangesExact /\ SyntaxExact

(* When a call returns, what JS_WriteObject wrote JS_ReadObject has read.  *)
WrittenObjectsRead ==
  [][bcReturn =>
       /\ ReadsBack /\ SharedBuffersCounted /\ MarksCleared /\ TruncatedRefused
       /\ ObjectListExact /\ LinesExact]_dataVars

(* Operations on buffers and views do what the language says and notice    *)
(* when a buffer is detached under them.                                   *)
ViewOperationsExact == [][bufReturn => OperationsExact /\ DetachingIsNoticed]_dataVars

(* The records of maps are exact, and walks go on in order while entries   *)
(* come and go.                                                            *)
MapsExact == area = "maps" => RecordsExact
MapWalksInOrder ==
  [][area # "maps" \/ failed' # {} \/ Map \notin alive' \/ UNCHANGED OM!vars \/ OM!Next]_mapVars
=============================================================================
