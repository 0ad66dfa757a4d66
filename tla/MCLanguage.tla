----------------------------- MODULE MCLanguage ------------------------------
(***************************************************************************)
(* What the source text of a script goes through.  First: the compiler and *)
(* the interpreter on a set of programs, for every sequence of outcomes of *)
(* at most MaxEvents events, against the meaning the language gives to the *)
(* program.  Second: the conversions of numerals and the decimal numbers   *)
(* of libbf.c, with limbs of eight bits and decimal limbs of two digits.   *)
(* area says which of the two a behaviour is about.                        *)
(***************************************************************************)
EXTENDS ScriptSemantics, NumberSemantics, TLC

CONSTANT MaxEvents     \* events of a behaviour

VARIABLES prog,        \* the program that runs: an index of Programs
          frame        \* its frame

Params == <<"o", "x">>

(* o(n): a call whose outcome the environment chooses.                     *)
C(n) == Chain(Var("o"), <<Args(<<Num(n)>>, FALSE)>>)
S(n) == ExprS(C(n))

(***************************************************************************)
(* Statements around a statement s; n tells the calls of the levels apart. *)
(***************************************************************************)
Iv(n) == IF n = 10 THEN "i" ELSE "j"
LetD(n) == [k |-> "let", v |-> Iv(n)]
Capture(n) == ExprS(Chain(Var("x"), <<Args(<<Fn(Iv(n))>>, FALSE)>>))
Around(s, n) ==
  << While(C(n), s),
     Do(s, C(n)),
     For(<<Let(Iv(n), <<Num(0)>>)>>, <<C(n)>>, <<Update("inc", FALSE, Var(Iv(n)))>>,
         Block(<<Capture(n), s>>)),
     For(<<ExprS(C(n))>>, <<>>, <<C(n + 1)>>, s),
     ForOf(LetD(n), C(n), Block(<<Capture(n), s>>)),
     ForOf(Chain(Var("x"), <<Field("f", FALSE)>>), C(n), s),
     ForIn(LetD(n), C(n), s),
     Try(<<s>>, <<"e">>, <<<<S(n)>>>>, <<>>),
     Try(<<s>>, <<>>, <<>>, <<<<S(n)>>>>),
     Try(<<S(n)>>, <<>>, <<>>, <<<<s>>>>),
     Try(<<S(n)>>, <<>>, <<<<s>>>>, <<<<S(n + 1)>>>>),
     Switch(C(n), <<Case(Num(1)), InCase(s), Default, InCase(S(n + 1))>>),
     Switch(C(n), <<Default, InCase(s), Case(C(n + 1)), Case(Num(2)), InCase(S(n + 2))>>),
     Labelled("a", While(C(n), Block(<<s, S(n + 1)>>))),
     Labelled("a", Block(<<s, S(n)>>)),
     If(C(n), s, <<S(n + 1)>>),
     If(C(n), S(n + 1), <<s>>),
     Block(<<Let(Iv(n), <<C(n)>>), Capture(n), s>>) >>
NAround == 18
Leaves ==
  << S(1), Return(<<C(1)>>), Return(<<>>), Throw(Num(3)), Break(""), Continue(""), Break("a"),
     Continue("a"), ExprS(Yield(Num(4))), Return(<<Yield(Num(4))>>),
     ExprS(Binary("add", C(1), Yield(Num(4)))) >>

(***************************************************************************)
(* Expressions, and the contexts they are compiled in.                     *)
(***************************************************************************)
Get(e, f) == Chain(e, <<Field(f, FALSE)>>)
Targets == << Var("x"), Get(Var("x"), "f"), Chain(Var("x"), <<Elem(C(2), FALSE)>>), Get(Super, "f"),
              Chain(Super, <<Elem(C(2), FALSE)>>) >>
OptionalChains ==
  << Chain(C(1), <<Field("f", TRUE), Field("g", FALSE)>>),
     Chain(C(1), <<Elem(C(2), TRUE), Args(<<Num(3)>>, FALSE)>>),
     Chain(C(1), <<Args(<<>>, TRUE), Field("f", TRUE)>>),
     Chain(Var("x"), <<Field("f", FALSE), Args(<<C(2)>>, TRUE), Field("g", FALSE)>>),
     Chain(Var("x"), <<Elem(Num(0), FALSE), Args(<<>>, TRUE)>>),
     Chain(Get(C(1), "f"), <<Args(<<>>, FALSE)>>),
     Chain(Chain(C(1), <<Field("f", TRUE)>>), <<Field("g", FALSE)>>),
     Chain(Comma(<<C(1), Get(Var("x"), "f")>>), <<Args(<<>>, FALSE)>>) >>
Expressions ==
  [n \in 1..25 |-> Assign(<<"=", "add", "and", "or", "nullish">>[1 + (n % 5)], Targets[1 + ((n \div 5) % 5)], C(1))]
  \o [n \in 1..20 |-> Update(<<"inc", "dec">>[1 + (n % 2)], (n \div 2) % 2 = 0, Targets[1 + ((n \div 4) % 5)])]
  \o OptionalChains
  \o << Delete(Var("x")), Delete(Get(C(1), "f")), Delete(Targets[3]), Delete(C(1)),
        Delete(Targets[4]), Delete(Targets[5]),
        New(Get(Var("x"), "f"), <<Args(<<C(1)>>, FALSE), Args(<<>>, FALSE)>>),
        Unary("void", C(1)), Unary("lnot", C(1)), Unary("neg", Num(1)), Unary("neg", C(1)),
        Binary("add", C(1), C(2)), Binary("strict_eq", C(1), NullE), Binary("strict_neq", C(1), NullE),
        Logic("and", <<C(1), C(2), C(3)>>), Logic("or", <<C(1), Logic("and", <<C(2), C(3)>>)>>),
        Logic("and", <<Logic("or", <<C(1), C(2)>>), C(3)>>), Logic("nullish", <<C(1), C(2)>>),
        Cond(C(1), C(2), Num(0)), Cond(Logic("and", <<C(1), C(2)>>), C(3), NullE),
        Comma(<<C(1), Num(1), C(2)>>), NullE, Num(0),
        Assign("add", Var("x"), Assign("=", Var("x"), C(1))), Assign("add", Var("x"), Var("x")) >>
Contexts(e) ==
  << <<ExprS(e)>>, <<Return(<<e>>)>>, <<If(e, S(5), <<>>)>>, <<While(Logic("or", <<e, C(6)>>), S(5))>>,
     <<ExprS(Logic("and", <<e, C(5)>>))>>, <<ExprS(Binary("add", e, Num(5)))>>,
     <<ExprS(Assign("=", Get(Var("o"), "g"), e))>>,
     <<Let("i", <<e>>), ExprS(Assign("=", Var("i"), Binary("add", Var("i"), C(5)))), Return(<<Var("i")>>)>>,
     <<ExprS(Assign("=", Var("i"), e)), Let("i", <<>>)>>,
     <<If(Unary("lnot", e), Return(<<>>), <<ExprS(Chain(Var("o"), <<Args(<<e>>, FALSE)>>))>>)>> >>

(* A program: <<1, leaf, wrapper, wrapper>>, <<2, ...>> as a generator,    *)
(* <<3, ...>> as the text of an eval, <<4, expression, context, 0>>.       *)
Programs ==
  {<<1, a, b, c>> : a \in 1..8, b \in 1..NAround, c \in 1..NAround}
  \cup {<<2, a, b, c>> : a \in 9..11, b \in 1..NAround, c \in 1..NAround}
  \cup {<<3, a, b, c>> : a \in {1, 5, 6}, b \in 1..NAround, c \in 1..NAround}
  \cup {<<4, a, b, 0>> : a \in DOMAIN Expressions, b \in 1..10}
Kind(p) == CASE p[1] = 2 -> "generator" [] p[1] = 3 -> "eval" [] OTHER -> "normal"
Body(p) ==
  IF p[1] = 4 THEN Append(Contexts(Expressions[p[2]])[p[3]], S(9))
  ELSE LET s == Around(Around(Leaves[p[2]], 20)[p[3]], 10)[p[4]]
       IN IF p[1] = 3 THEN <<S(9), s>> ELSE <<s, S(9)>>

(* Where the engine departs from the language, by the shape of the program.*)
(* A break without a label in a labelled statement that is not a loop ends *)
(* that statement.                                                         *)
Loops == (1..7) \cup (12..14)
BareBreakInLabel(p) == p[1] # 4 /\ p[2] = 5 /\ (p[3] = 15 \/ (p[3] \notin Loops /\ p[4] = 15))
(* A yield inside an expression, where its return has to run a finally     *)
(* block: the function cannot be compiled.                                 *)
YieldUnderFinally(p) == p[1] = 2 /\ p[2] = 11 /\ {p[3], p[4]} \cap {9, 11} # {}
(* continue in a for (let ...) loop does not close the variable.           *)
ContinueInForLet(p) == p[1] # 4 /\ p[2] = 6 /\ (p[3] = 3 \/ (p[3] \notin (1..7) \cup {14} /\ p[4] = 3))
(* A finally block left by break or continue: its completion replaces the  *)
(* one of the try block, without a value; the hidden variable keeps it.    *)
ExitFromFinally(p) == p[2] \in {5, 6} /\ p[3] = 10

Bodies == [p \in Programs |-> Body(p)]
(* What the compiler makes of them.                                        *)
CONSTANT Compile(_, _)
Compiled == [p \in Programs |-> Compile(Kind(p), Bodies[p])]

(***************************************************************************)
(* Behaviours.                                                             *)
(***************************************************************************)
IsParam(v) == \E k \in DOMAIN Params : Params[k] = v
Start(f) ==
  LET vars == {Params[k] : k \in DOMAIN Params} \cup f.vars \cup {Ret}
  IN IF f.err # "" THEN NewFrame([v \in {} |-> Undef])
     ELSE RunToEvent(NewFrame([v \in vars |-> IF IsParam(v) THEN Arg(CHOOSE k \in DOMAIN Params : Params[k] = v)
                                              ELSE Undef]), f.code, f.tab)
ProgInit == \E p \in {q \in Programs : Compiled[q].code # <<>>} : prog = p /\ frame = Start(Compiled[p])
ProgNext ==
  /\ Compiled[prog].err = ""
  /\ frame.status = "run"
  /\ Len(frame.tr) < MaxEvents
  /\ \E o \in Outcomes(frame.ev.op) :
       frame' = Answer(frame, Compiled[prog].code, Compiled[prog].tab, o)
  /\ UNCHANGED prog
progVars == <<prog, frame>>

(***************************************************************************)
(* Properties.  r is what the language says of the same outcomes.          *)
(***************************************************************************)
Judged(p) == Compiled[p].err = "" /\ ~BareBreakInLabel(p)
Language(p, f) == Meaning(Bodies[p], Params, f.out)

(* The compiled program does what the source says, in the same order:      *)
(* after any outcomes it has performed the same operations on the same     *)
(* operands (iterators closed on every early exit and only then, finally   *)
(* blocks run once, operands evaluated left to right and short-circuited), *)
(* and it waits for the same operation or has ended in the same way.       *)
Agrees(p, f, r) ==
  Judged(p) =>
     /\ r.S.tr = f.tr
     /\ CASE f.status = "run" -> r.t = "stop" /\ r.S.ev = f.ev
          [] f.status = "interrupted" -> r.t = "halt"
          [] f.status = "threw" -> r.t = "throw" /\ r.v = f.val
          [] f.status = "returned" ->
               \/ r.t = "return" /\ r.v = f.val
               \/ r.t = "ok" /\ (Kind(p) = "eval" \/ f.val = Undef)

(* The value of an eval is the completion value of its last statement that *)
(* has one: the hidden variable that set_eval_ret_undefined resets and     *)
(* expression statements store to follows the language's rules through     *)
(* loops, switches and try statements.  Not for a finally block left by    *)
(* break or continue.                                                      *)
EvalValueAgrees(p, f, r) ==
  (Judged(p) /\ Kind(p) = "eval" /\ ~ExitFromFinally(p) /\ f.status = "returned") =>
       f.val = (IF r.v = NoValue THEN Undef ELSE r.v)

(* Two closures share a variable exactly when the language says they do,   *)
(* and see its current value: close_loc detaches the cell of every         *)
(* iteration and block before the local is reused.  Not for a continue in  *)
(* a for (let ...) loop, nor once an exception has left a scope with open   *)
(* cells.                                                                  *)
ClosuresAgree(p, f, r) ==
  LET seen == f.fns
  IN (Judged(p) /\ seen # <<>> /\ ~ContinueInForLet(p) /\ ~f.lost) =>
     /\ Len(r.S.fns) = Len(seen)
     /\ \A k, l \in DOMAIN seen : (seen[k] = seen[l]) <=> (r.S.fns[k] = r.S.fns[l])
     /\ \A k \in DOMAIN seen : CellValue(f, seen[k]) = r.S.store[r.S.fns[k]]

(* After both passes the reference count of every label left in the code   *)
(* is the number of jumps to it: dead code was removed because nothing     *)
(* jumps to it, and no live code with it.                                  *)
LabelRefsExact(p, f) ==
  LET c == Compiled[p]
  IN f.tr = <<>> =>
     \A k \in DOMAIN c.out : c.out[k].op = "label" =>
        c.refs[c.out[k].l] =
          Cardinality({q \in DOMAIN c.out : c.out[q].op \in LabelOps /\ c.out[q].l = c.out[k].l})

(* compute_stack_size accepts every program the parser accepts, and the    *)
(* operand stack, which is allocated with that size, is never deeper at an *)
(* instruction than it computed.  Not for a yield inside an expression     *)
(* that a finally block encloses.                                          *)
StackSizeKnown(p, f) == YieldUnderFinally(p) \/ (Compiled[p].err = "" /\ f.ok)

-----------------------------------------------------------------------------
(* Numerals.                                                               *)
VARIABLES numeralPart, opA, opB, opMode
numeralVars == <<numeralPart, opA, opB, opMode>>

NoMode == [prec |-> 0]
FloatMode(rnd, prec, sub, radpnt, e) ==
  [prec |-> prec, flags |-> [rnd |-> rnd, sub |-> sub, radpnt |-> radpnt, e |-> e]]
Nearby == {"RNDN", "RNDZ", "RNDU"}
Directed == RoundingModes \ {"RNDF"}
Unlimited(rnd) == FloatMode(rnd, BF_PREC_INF, FALSE, FALSE, BF_EXT_EXP_BITS_MAX)

Bytes(signs, E, M) == {BF(s, e, <<m>>) : s \in signs, e \in E, m \in M}
Numerals ==
  {Numeral(0, <<x>>, <<y, z>>, e, FALSE) : x \in {0, 1, 9}, y \in {0, 9}, z \in 0..9, e \in -1..4} \cup
  {Numeral(1, <<x, 1, z>>, <<w>>, e, FALSE) : x \in {0, 9}, z \in {1, 2}, w \in {5, 7}, e \in -4..0} \cup
  {Numeral(0, <<x, 9, 0, 9, 5>>, <<>>, 0, FALSE) : x \in 1..9} \cup
  {Numeral(s, <<5>>, <<>>, e, FALSE) : s \in {0, 1}, e \in {-1030, 1030}}
Decimals(signs, E) ==
  {BF(s, e, t) : s \in signs, e \in E, t \in {<<10>>, <<50>>, <<99>>} \cup {<<x, y>> : x \in {1, 50, 99}, y \in {10, 99}}}
DecimalModes ==
  {FloatMode(r, 2, FALSE, FALSE, 6) : r \in Directed} \cup {FloatMode(r, 3, FALSE, FALSE, 2) : r \in Nearby}
    \cup {Unlimited("RNDN")} \cup {FloatMode(r, p, FALSE, TRUE, 6) : r \in {"RNDN", "RNDU"}, p \in {-1, 0, 1}}

NumeralInit ==
  /\ opB = NoMode /\ opMode = NoMode
  /\ \/ numeralPart = "radix" /\ opA \in Bytes({0, 1}, {-5, -3, 0, 1, 4, 9}, {128, 160, 171, 254, 255})
     \/ numeralPart = "numeral" /\ opA \in Numerals
     \/ numeralPart = "machine" /\ opA \in Bytes({0, 1}, -6..12, {128, 129, 160, 171, 200, 254, 255})
     \/ numeralPart = "decimal" /\ opA \in Decimals({0}, {0})
(* The second operand and the mode; the call of the operation.             *)
Convert ==
  /\ opMode = NoMode
  /\ UNCHANGED <<numeralPart, opA>>
  /\ \/ numeralPart \in {"radix", "machine"} /\ opB' = opA /\ opMode' \in {FloatMode(r, 8, FALSE, FALSE, 9) : r \in Directed}
     \/ numeralPart = "numeral" /\ opB' \in [radix : {10, 16}] /\ opMode' \in {FloatMode(r, p, FALSE, FALSE, 9) : r \in {"RNDN", "RNDU", "RNDD"}, p \in {5, 8}}
     \/ numeralPart = "decimal" /\ opB' \in Decimals({0, 1}, -1..1) /\ opMode' \in DecimalModes
(* It returns.                                                             *)
Done ==
  /\ opMode # NoMode /\ opB' = NoMode /\ opMode' = NoMode
  /\ UNCHANGED <<numeralPart, opA>>

Converted(p) == numeralPart = p /\ opMode # NoMode

(* Conversions to and from machine integers and doubles drop, wrap,        *)
(* saturate and round as their callers expect.                             *)
MachineExact ==
  Converted("machine") =>
    /\ \A w \in {4, 8} : GetIntExact(opA, 14, w)
    /\ DoubleExact(opA, 14, opMode.flags.rnd)
(* Printed with the digits its precision calls for, a number reads back;   *)
(* BF_FTOA_FORMAT_FREE_MIN prints no digit more than that takes.  With a   *)
(* given number of digits bf_ftoa prints the nearest numeral.              *)
DigitsReadBack ==
  Converted("radix") =>
    LET k == IF Scale(opA) < 0 THEN -Scale(opA) ELSE 0
    IN /\ \A radix \in {2, 8, 10, 16} : ReadsBack(opA, radix, 8, [opMode.flags EXCEPT !.rnd = "RNDN"])
       /\ opMode.flags.rnd \in {"RNDD", "RNDU"} \/ \A radix \in {2, 10, 16} :
            /\ FixedDigits(opA, k, radix, IF radix = 10 THEN 5 ELSE 3, opMode.flags.rnd)
            /\ \A P \in 0..2 : FracDigits(opA, k, radix, P, opMode.flags.rnd)
(* bf_atof rounds the value of the numeral once: bf_mul_pow_radix does not *)
(* stop before the rounding is certain.                                    *)
NumeralsRound == Converted("numeral") => AtofRounds(opA, opB.radix, opMode.prec, opMode.flags)
(* The decimal operations deliver the exact result rounded once to decimal *)
(* digits.                                                                 *)
DecimalRounds ==
  Converted("decimal") =>
    /\ DecRoundRounds(opB, 5, opMode.prec, opMode.flags)
    /\ DecAddRounds(opA, opB, 5, opMode.prec, opMode.flags)
    /\ ((bf_len(opA) + bf_len(opB) <= 3) \/ opMode = Unlimited("RNDN")) => DecMulRounds(opA, opB, opMode.prec, opMode.flags)
    /\ (opMode.flags.radpnt => opMode.prec >= 0) => DecDivRounds(opA, opB, 5, opMode.prec, opMode.flags)
    /\ opMode.prec < 3 => DecSqrtRounds(opB, 6, opMode.prec, opMode.flags)
(* Decimal remainders belong to their quotient, integers are exact, and a  *)
(* decimal number reads back from its digits.                              *)
DecimalExact ==
  Converted("decimal") =>
    /\ DecDivremExact(opA, opB, 5, opMode.flags.rnd) /\ DecDivremExact(opB, opA, 5, "EUCLIDIAN")
    /\ DecIntExact(opB, 5, 6, 2)
    /\ \A P \in {1, 2} : DecReadsBack(opB, 5, P, opMode.flags.rnd)

-----------------------------------------------------------------------------
VARIABLE area
languageVars == <<area, progVars, numeralVars>>

MCInit ==
  \/ area = "programs" /\ ProgInit
     /\ numeralPart = "none" /\ opA = NoMode /\ opB = NoMode /\ opMode = NoMode
  \/ area = "numerals" /\ NumeralInit /\ prog = <<>> /\ frame = <<>>
MCNext ==
  \/ area = "programs" /\ ProgNext /\ UNCHANGED <<area, numeralVars>>
  \/ area = "numerals" /\ (Convert \/ Done) /\ UNCHANGED <<area, progVars>>
MCSpec == MCInit /\ [][MCNext]_languageVars

(* At the start and after every event programs have done what the language *)
(* says, for every outcome of every event, in value, in events and in the  *)
(* variables closures share; their labels and stack sizes are those of the *)
(* code that runs.                                                         *)
AsTheLanguageSays(p, f) ==
  /\ \A r \in {Language(p, f)} : Agrees(p, f, r) /\ EvalValueAgrees(p, f, r) /\ ClosuresAgree(p, f, r)
  /\ LabelRefsExact(p, f) /\ StackSizeKnown(p, f)
ProgramsAgree ==
  /\ area = "programs" => AsTheLanguageSays(prog, frame)
  /\ [][area = "programs" => \A p \in {prog'}, f \in {frame'} : AsTheLanguageSays(p, f)]_languageVars

(* Numbers survive every conversion to numerals and machine numbers and    *)
(* back, and every decimal operation rounds once.                          *)
NumeralsExact ==
  [][Done => MachineExact /\ DigitsReadBack /\ NumeralsRound /\ DecimalRounds /\ DecimalExact]_languageVars
=============================================================================
