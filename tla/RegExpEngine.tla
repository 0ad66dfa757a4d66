----------------------------- MODULE RegExpEngine -----------------------------
(***************************************************************************)
(* lre_compile of libregexp.c: the recursive descent over a pattern that   *)
(* emits the bytecode as it goes, inserting the opcodes of a quantifier or *)
(* an alternative in front of code already emitted, copying an atom that   *)
(* is needed twice and reversing the terms of a lookbehind.                *)
(*                                                                         *)
(* A pattern is a sequence of tokens.  Every opcode counts one, so jumps   *)
(* are relative to the opcode that follows and count opcodes.  What turns  *)
(* characters into tokens (get_class_atom and its escapes) is left out, so *)
(* the end points of a class range are characters: the hyphen of [\d-a],   *)
(* which Annex B reads as a character, does not occur.  So are the limits  *)
(* of 65535 ranges, 255 captures and 255 stack slots, and want of memory.  *)
(***************************************************************************)
EXTENDS CharRange, SequencesExt

CONSTANTS
  INT32_MAX,       \* stands for "no upper bound" in a quantifier
  MAX16            \* 0xffff

(* The letters of the texts: a line feed, a digit, two letters in both     *)
(* cases and two surrogates, of which HI, LO stands for PAIR.              *)
LF == 0
DIGIT == 1
UPPER == 2..3
LOWER == 4..5
HI == 6
LO == 7
PAIR == MAX16 + 1
(* The control character a legacy octal escape stands for; in no text.     *)
CTRL == MAX16 + 2

lre_canonicalize(c, is_utf16) ==
  IF is_utf16 /\ c \in UPPER THEN c + 2
  ELSE IF ~is_utf16 /\ c \in LOWER THEN c - 2 ELSE c

Op(op, v) == [op |-> op, v |-> v]
prev == <<Op("prev", 0)>>

Tok(s) == IF s.p > Len(s.src) THEN [t |-> "end"] ELSE s.src[s.p]
Skip(s) == [s EXCEPT !.p = @ + 1]
Error(s) == [s EXCEPT !.err = TRUE]
Emit(s, ops) == [s EXCEPT !.code = @ \o ops]
dbuf_insert(s, pos, ops) == [s EXCEPT !.code = SubSeq(@, 1, pos) \o ops \o SubSeq(@, pos + 1, Len(@))]
(* A jump to the opcode at position pos.                                   *)
re_emit_goto(s, op, pos) == Emit(s, <<Op(op, pos - (Len(s.code) + 1))>>)
re_parse_expect(s, t) == IF Tok(s).t = t THEN Skip(s) ELSE Error(s)
(* The positions and the captures an atom that may be repeated starts at.  *)
Atom(s) == [s EXCEPT !.last_atom_start = Len(s.code), !.last_capture_count = s.capture_count]
NoAtom(s) == [s EXCEPT !.last_atom_start = -1]

(***************************************************************************)
(* Classes.                                                                *)
(***************************************************************************)
char_range == [d |-> <<DIGIT, DIGIT + 1>>, s |-> <<LF, LF + 1>>, w |-> <<DIGIT, 6>>]
cr_init_char_range(t) == IF t.inv THEN cr_invert(char_range[t.name]) ELSE char_range[t.name]
(* The lower case letters of a range are joined by their upper case.       *)
cr_canonicalize(cr) ==
  cr_union1(cr, [i \in DOMAIN cr_op(cr, <<4, 6>>, "INTER") |-> cr_op(cr, <<4, 6>>, "INTER")[i] - 2])
(* Ranges of 16 bits stand for infinity with 0xffff.                       *)
re_emit_range(s, cr) ==
  LET last == cr[Len(cr)]
      high == IF last = UINT32_MAX THEN cr[Len(cr) - 1] ELSE last
      Pair(k) ==
        IF high <= MAX16 /\ cr[2 * k] = UINT32_MAX THEN <<cr[2 * k - 1], MAX16>>
        ELSE <<cr[2 * k - 1], cr[2 * k] - 1>>
  IN IF cr = <<>> THEN Emit(s, <<Op("char", -1)>>)
     ELSE Emit(s, <<[op |-> IF high <= MAX16 THEN "range" ELSE "range32",
                     v |-> 0, rs |-> [k \in 1..(Len(cr) \div 2) |-> Pair(k)]]>>)
ClassItem(cr, item) ==
  IF item.t = "escape" THEN cr_union1(cr, cr_init_char_range(item)) ELSE cr_union_interval(cr, item.lo, item.hi)
RECURSIVE ClassItems(_, _)
ClassItems(cr, items) == IF items = <<>> THEN cr ELSE ClassItems(ClassItem(cr, Head(items)), Tail(items))
re_parse_char_class(s, t) ==
  LET bad == \E k \in DOMAIN t.items : t.items[k].t = "interval" /\ t.items[k].hi < t.items[k].lo
      c1 == ClassItems(<<>>, t.items)
      c2 == IF s.flags.ignore_case THEN cr_canonicalize(c1) ELSE c1
  IN IF bad THEN Error(s) ELSE re_emit_range(s, IF t.inv THEN cr_invert(c2) ELSE c2)

(***************************************************************************)
(* What a quantifier must know of the code of its atom.                    *)
(***************************************************************************)
CharOps == {"char", "range", "range32", "dot", "any"}
Assertions == {"line_start", "line_end", "word_boundary", "not_word_boundary"}
NoEffect == Assertions \cup {"push_i32", "push_char_pos", "drop", "prev"}
Saves == {"save_start", "save_end"}
BackReferences == {"back_reference", "backward_back_reference"}
Ops(code) == {code[k] : k \in DOMAIN code}
(* 1 if the code always advances, 0 if it may not, -1 if it depends on     *)
(* captures of its own.                                                    *)
re_check_advance(code) ==
  LET deciding == SelectSeq(code, LAMBDA o : o.op \notin NoEffect \cup Saves \cup BackReferences \cup {"save_reset"})
      written == {o.v : o \in {x \in Ops(code) : x.op \in Saves}} \cup
                 UNION {o.v..(o.last - 1) : o \in {x \in Ops(code) : x.op = "save_reset"}}
      read == {o.v : o \in {x \in Ops(code) : x.op \in BackReferences}}
  IN IF written \cap read # {} THEN -1
     ELSE IF deciding # <<>> /\ deciding[1].op \in CharOps THEN 1 ELSE 0
(* The number of characters of an atom of characters and assertions only.  *)
re_is_simple_quantifier(code) ==
  IF \E o \in Ops(code) : o.op \notin CharOps \cup Assertions THEN -1
  ELSE Len(SelectSeq(code, LAMBDA o : o.op \in CharOps))

(***************************************************************************)
(* Quantifiers: at s.last_atom_start the code of the atom starts.          *)
(***************************************************************************)
Split(greedy) == IF greedy THEN "split_next_first" ELSE "split_goto_first"
(* x{min,max} of characters is one opcode, which steps back by counting.   *)
SimpleQuantifier(s, q, n) ==
  LET start == s.last_atom_start
      s1 == Emit(s, <<Op("match", 0)>>)
  IN dbuf_insert(s1, start, <<[op |-> "simple_greedy_quant", v |-> Len(s1.code) - start,
                               min |-> q.min, max |-> q.max, n |-> n]>>)
(* Captures of an atom that may not be executed are reset before it.       *)

ResetCaptures(s) ==
  IF s.last_capture_count = s.capture_count THEN s
  ELSE [dbuf_insert(s, s.last_atom_start, <<[op |-> "save_reset", v |-> s.last_capture_count, last |-> s.capture_count - 1]>>)
          EXCEPT !.last_atom_start = @ + 1]
(* x{0,max}                                                                *)
QuantifierFromZero(s0, q, len, check) ==
  LET s == ResetCaptures(s0)
      start == s.last_atom_start
      guard == IF check THEN <<Op("push_char_pos", 0)>> ELSE <<>>
  IN CASE q.max = 0 -> [s EXCEPT !.code = SubSeq(@, 1, start)]
       [] q.max = 1 -> dbuf_insert(s, start, <<Op(Split(q.greedy), len)>>)
       [] q.max = INT32_MAX ->
            re_emit_goto(dbuf_insert(s, start, <<Op(Split(q.greedy), len + Len(guard) + 1)>> \o guard),
                         IF check THEN "bne_char_pos" ELSE "goto", start)
       [] OTHER ->
            Emit(re_emit_goto(dbuf_insert(s, start, <<Op("push_i32", q.max), Op(Split(q.greedy), len + 1)>>),
                              "loop", start + 1),
                 <<Op("drop", 0)>>)
(* x{min,max} with min > 0: the atom is copied for what exceeds min.       *)
QuantifierFrom(s, q, len, check) ==
  LET counted == Emit(re_emit_goto(dbuf_insert(s, s.last_atom_start, <<Op("push_i32", q.min)>>),
                                   "loop", s.last_atom_start + 1), <<Op("drop", 0)>>)
      s1 == IF q.min = 1 THEN s ELSE [counted EXCEPT !.last_atom_start = @ + 1]
      atom == SubSeq(s1.code, s1.last_atom_start + 1, s1.last_atom_start + len)
      pos == Len(s1.code)
      guard == IF check THEN <<Op("push_char_pos", 0)>> ELSE <<>>
  IN IF q.max = INT32_MAX
     THEN re_emit_goto(Emit(s1, <<Op(Split(q.greedy), len + Len(guard) + 1)>> \o guard \o atom),
                       IF check THEN "bne_char_pos" ELSE "goto", pos)
     ELSE IF q.max > q.min
     THEN Emit(re_emit_goto(Emit(s1, <<Op("push_i32", q.max - q.min), Op(Split(q.greedy), len + 1)>> \o atom),
                            "loop", pos + 1), <<Op("drop", 0)>>)
     ELSE s1
Quantifier(s, q) ==
  LET atom == SubSeq(s.code, s.last_atom_start + 1, Len(s.code))
      n == re_is_simple_quantifier(atom)
      len == Len(atom)
      check == q.greedy /\ re_check_advance(atom) = 0
  IN CASE q.greedy /\ q.max > 0 /\ n > 0 -> SimpleQuantifier(s, q, n)
       [] OTHER -> CASE q.min = 0 -> QuantifierFromZero(s, q, len, check)
                     [] q.min = 1 /\ q.max = INT32_MAX /\ ~check ->
                          re_emit_goto(s, IF q.greedy THEN "split_goto_first" ELSE "split_next_first", s.last_atom_start)
                     [] OTHER -> QuantifierFrom(s, q, len, check)
(* The quantifier token, and the question mark that makes it lazy.         *)
Bounds == [star |-> <<0, INT32_MAX>>, plus |-> <<1, INT32_MAX>>, quest |-> <<0, 1>>]
QuantifierTokens == {"star", "plus", "quest", "braces"}
re_parse_quantifier(s) ==
  LET t == Tok(s)
      lo == IF t.t = "braces" THEN t.lo ELSE Bounds[t.t][1]
      hi == IF t.t = "braces" THEN t.hi ELSE Bounds[t.t][2]
      s1 == Skip(s)
      lazy == Tok(s1).t = "quest"
  IN IF s.err \/ s.last_atom_start < 0 \/ t.t \notin QuantifierTokens THEN s
     ELSE IF hi < lo THEN Error(s)
     ELSE Quantifier(IF lazy THEN Skip(s1) ELSE s1, [min |-> lo, max |-> hi, greedy |-> ~lazy])

(***************************************************************************)
(* Terms, alternatives and disjunctions.                                   *)
(***************************************************************************)
EmitAtom(s, back, t) ==
  LET s1 == IF back THEN Emit(Atom(s), prev) ELSE Atom(s)
      c == IF s.flags.ignore_case THEN lre_canonicalize(t.c, s.flags.is_utf16) ELSE t.c
      s2 == CASE t.t = "char" -> Emit(s1, <<Op("char", c)>>)
              [] t.t = "dot" -> Emit(s1, <<Op(IF s.flags.dotall THEN "any" ELSE "dot", 0)>>)
              [] t.t = "class" -> re_parse_char_class(s1, t)
              [] t.t = "escape" -> re_emit_range(s1, cr_init_char_range(t))
  IN IF back THEN Emit(s2, prev) ELSE s2
IsGroup(t) == t.t \in {"(", "(?<n>"}
(* Counts the groups of the whole pattern, or finds one that comes later.  *)
re_parse_captures(s) == 1 + Len(SelectSeq(s.src, IsGroup))
re_parse_captures_named(s, name) ==
  LET groups == SelectSeq(s.src, IsGroup)
      S == {k \in DOMAIN groups : groups[k].name = name}
  IN IF S = {} THEN -1 ELSE CHOOSE k \in S : \A j \in S : k <= j
re_has_named_captures(s) == \E k \in DOMAIN s.src : s.src[k].t = "(?<n>"
find_group_name(s, name) ==
  LET S == {k \in DOMAIN s.names : s.names[k] = name}
  IN IF S = {} THEN -1 ELSE CHOOSE k \in S : \A j \in S : k <= j
BackReference(s, back, n) ==
  Emit(Atom(s), <<Op(IF back THEN "backward_back_reference" ELSE "back_reference", n)>>)
ParseBackReference(s, back, t) ==
  LET named == IF find_group_name(s, t.name) < 0 THEN re_parse_captures_named(s, t.name) ELSE find_group_name(s, t.name)
      literal == EmitAtom(s, back, [t |-> "char", c |-> CTRL])
  IN IF t.t = "\\k"
     THEN CASE named >= 0 -> BackReference(s, back, named)
            [] s.flags.is_utf16 \/ re_has_named_captures(s) -> Error(s)
            [] OTHER -> literal
     ELSE IF t.n < s.capture_count \/ t.n < re_parse_captures(s) THEN BackReference(s, back, t.n)
     ELSE IF s.flags.is_utf16 THEN Error(s) ELSE literal

RECURSIVE re_parse_disjunction(_, _)
(* A capture; behind the current position its end is saved first.          *)
ParseCapture(s, back, name) ==
  LET k == s.capture_count
      Open == IF back THEN "save_end" ELSE "save_start"
      Close == IF back THEN "save_start" ELSE "save_end"
      s1 == [Emit(Atom(s), <<Op(Open, k)>>) EXCEPT !.capture_count = k + 1, !.names = Append(@, name)]
      s2 == re_parse_disjunction(s1, back)
  IN IF name # "" /\ find_group_name(s, name) > 0 THEN Error(s)
     ELSE IF s2.err THEN s2
     ELSE [re_parse_expect(Emit(s2, <<Op(Close, k)>>), ")") EXCEPT
             !.last_atom_start = Len(s.code), !.last_capture_count = k]
ParseGroup(s, back) ==
  LET s1 == re_parse_disjunction(s, back)
  IN IF s1.err THEN s1
     ELSE [re_parse_expect(s1, ")") EXCEPT !.last_atom_start = Len(s.code), !.last_capture_count = s.capture_count]
(* Only outside Unicode mode may a lookahead be repeated.                  *)

ParseLookahead(s, t) ==
  LET pos == Len(s.code)
      s1 == re_parse_disjunction(Emit(s, <<Op(IF t.neg THEN "negative_lookahead" ELSE "lookahead", 0)>>), t.back)
      s2 == Emit(re_parse_expect(s1, ")"), <<Op("match", 0)>>)
      atom == ~s.flags.is_utf16 /\ ~t.back
  IN IF s1.err \/ s2.err THEN Error(s1)
     ELSE [s2 EXCEPT !.code[pos + 1].v = Len(s2.code) - (pos + 1),
                     !.last_atom_start = IF atom THEN pos ELSE -1, !.last_capture_count = s.capture_count]
ParseAtom(s, back) ==
  LET t == Tok(s)
      s1 == NoAtom(Skip(s))
  IN CASE t.t \in {"char", "dot", "class", "escape"} -> EmitAtom(s1, back, t)
       [] t.t \in Assertions -> Emit(s1, <<Op(t.t, 0)>>)
       [] t.t \in {"\\1", "\\k"} -> ParseBackReference(s1, back, t)
       [] t.t = "(?:" -> ParseGroup(s1, back)
       [] t.t = "(?=" -> ParseLookahead(s1, t)
       [] IsGroup(t) -> ParseCapture(s1, back, t.name)
       [] t.t \in QuantifierTokens -> Error(s)
re_parse_term(s, back) == re_parse_quantifier(ParseAtom(s, back))
(* Behind the current position the terms are matched from last to first.   *)
RECURSIVE re_parse_alternative(_, _, _)
re_parse_alternative(s, back, start) ==
  LET term_start == Len(s.code)
      s1 == re_parse_term(s, back)
      s2 == IF back
            THEN [s1 EXCEPT !.code = SubSeq(@, 1, start) \o SubSeq(@, term_start + 1, Len(@)) \o SubSeq(@, start + 1, term_start)]
            ELSE s1
  IN IF s.err \/ Tok(s).t \in {"end", "|", ")"} THEN s
     ELSE IF s1.err THEN s1
     ELSE re_parse_alternative(s2, back, start)
(* Each further alternative puts a split in front of those before it.      *)
RECURSIVE MoreAlternatives(_, _, _)
MoreAlternatives(s, back, start) ==
  LET len == Len(s.code) - start
      s1 == dbuf_insert(Skip(s), start, <<Op("split_next_first", len + 1)>>)
      pos == Len(s1.code)
      s2 == re_parse_alternative(Emit(s1, <<Op("goto", 0)>>), back, pos + 1)
      s3 == [s2 EXCEPT !.code[pos + 1].v = Len(s2.code) - (pos + 1)]
  IN IF s.err \/ Tok(s).t # "|" THEN s
     ELSE IF s2.err THEN s2
     ELSE MoreAlternatives(s3, back, start)
re_parse_disjunction(s, back) ==
  MoreAlternatives(re_parse_alternative(s, back, Len(s.code)), back, Len(s.code))

(* "the control flow is recursive so the analysis can be linear"           *)
RECURSIVE StackSize(_, _, _)
StackSize(code, size, max) ==
  IF code = <<>> THEN max
  ELSE LET o == Head(code).op
           n == IF o \in {"push_i32", "push_char_pos"} THEN size + 1
                ELSE IF o \in {"drop", "bne_char_pos"} THEN size - 1 ELSE size
       IN StackSize(Tail(code), n, IF n > max THEN n ELSE max)

compute_stack_size(code) == StackSize(code, 0, 0)

(* The search for a starting position is part of the code.                 *)
lre_compile(src, flags) ==
  LET s0 == [src |-> src, p |-> 1, flags |-> flags, capture_count |-> 1, names |-> <<>>, err |-> FALSE,
             last_atom_start |-> -1, last_capture_count |-> 0,
             code |-> (IF flags.sticky THEN <<>> ELSE <<Op("split_goto_first", 2), Op("any", 0), Op("goto", -3)>>)
                        \o <<Op("save_start", 0)>>]
      s1 == re_parse_disjunction(s0, FALSE)
      s2 == Emit(s1, <<Op("save_end", 0), Op("match", 0)>>)
      bad == s1.err \/ Tok(s1).t # "end"
  IN [ok |-> ~bad, code |-> IF bad THEN <<>> ELSE s2.code, capture_count |-> s1.capture_count,
      stack_size |-> IF bad THEN 0 ELSE compute_stack_size(s2.code), names |-> s1.names, flags |-> flags]
-----------------------------------------------------------------------------
(***************************************************************************)
(* lre_exec_backtrack of libregexp.c: the interpreter of the bytecode, one *)
(* action per opcode.  A split, a lookahead and a repeated character push  *)
(* a state; a mismatch, and the end of a lookahead, pops states until one  *)
(* of them says how to go on.  Positions count 16 bit units.               *)
(***************************************************************************)

CONSTANT MAX_STEPS     \* of one execution; reaching it counts as looping

VARIABLES
  re,        \* what lre_compile returned
  text,      \* the units of the subject
  vm         \* pc, cptr, capture, stack, states of the execution, ret

ExecVars == <<re, text, vm>>
NIL == -1

is_line_terminator(c) == c = LF
is_word_char(c) == c \in {DIGIT} \cup UPPER \cup LOWER
Utf16 == re.flags.is_utf16
IsPair(p) == Utf16 /\ p + 2 <= Len(text) /\ text[p + 1] = HI /\ text[p + 2] = LO
(* The character at a position, and the position after it.                 *)
PEEK_CHAR(p) == IF IsPair(p) THEN PAIR ELSE text[p + 1]
NEXT(p) == IF IsPair(p) THEN p + 2 ELSE p + 1
(* Within a capture the second half of a pair may be out of reach.         *)
GET_CHAR(p, end) == IF IsPair(p) /\ p + 1 < end THEN [c |-> PAIR, p |-> p + 2] ELSE [c |-> text[p + 1], p |-> p + 1]
(* The character before a position, start being where the text begins.     *)
(* A character is taken for one unit when stepping back.                   *)
MutPREV_CHAR(p, start) == p - 1

PREV_CHAR(p, start) == IF p - 2 >= start /\ IsPair(p - 2) THEN p - 2 ELSE p - 1
GET_PREV_CHAR(p, start) ==
  IF p - 2 >= start /\ IsPair(p - 2) THEN [c |-> PAIR, p |-> p - 2] ELSE [c |-> text[p], p |-> p - 1]
PEEK_PREV_CHAR(p) == GET_PREV_CHAR(p, 0).c
Fold(c) == IF re.flags.ignore_case THEN lre_canonicalize(c, Utf16) ELSE c

RECURSIVE StepBack(_, _)
StepBack(p, n) == IF n = 0 THEN p ELSE StepBack(PREV_CHAR(p, 0), n - 1)

State(type, pc, count) ==
  [type |-> type, pc |-> pc, cptr |-> vm.cptr, capture |-> vm.capture, stack |-> vm.stack, count |-> count]
push_state(v, type, pc, count) == [v EXCEPT !.states = Append(@, State(type, pc, count))]

(* After a mismatch, or a match of the whole pattern or of a lookahead.    *)
RECURSIVE Recurse(_, _)
Recurse(v, ret) ==
  LET n == Len(v.states)
      rs == v.states[n]
      popped == [v EXCEPT !.states = SubSeq(@, 1, n - 1)]
      resumed == [popped EXCEPT !.pc = rs.pc, !.cptr = rs.cptr, !.stack = rs.stack]
      restored == [resumed EXCEPT !.capture = rs.capture]
      back == StepBack(rs.cptr, re.code[rs.pc].n)
      shorter == [restored EXCEPT
                    !.cptr = back, !.pc = rs.pc + 1 + re.code[rs.pc].v,
                    !.states = IF rs.count = 1 THEN @ ELSE Append(@, [rs EXCEPT !.cptr = back, !.count = @ - 1])]
  IN IF n = 0 THEN [v EXCEPT !.ret = IF ret THEN "match" ELSE "no match"]
     ELSE CASE rs.type = "SPLIT" -> IF ret THEN Recurse(popped, ret) ELSE restored
            [] rs.type = "GREEDY_QUANT" -> IF ret THEN Recurse(popped, ret) ELSE shorter
            [] rs.type = "LOOKAHEAD" -> IF ret THEN resumed ELSE Recurse(popped, FALSE)
            [] rs.type = "NEGATIVE_LOOKAHEAD" -> IF ret THEN Recurse(popped, FALSE) ELSE restored

O == re.code[vm.pc]
Now(ops) == vm.ret = "running" /\ O.op \in ops
Go(v) == vm' = [v EXCEPT !.steps = @ + 1, !.ret = IF @ = "running" /\ vm.steps + 1 >= MAX_STEPS THEN "looping" ELSE @]
         /\ UNCHANGED <<re, text>>
Advance(v) == [v EXCEPT !.pc = vm.pc + 1]
Jump(v) == [v EXCEPT !.pc = vm.pc + 1 + O.v]
(* Goes on at the next opcode, or at a mismatch with the last state.       *)
Test(ok, v) == Go(IF ok THEN Advance(v) ELSE Recurse(vm, FALSE))
AtEnd == vm.cptr >= Len(text)

(* The binary search for the range a character is in.                      *)
RECURSIVE Search(_, _, _, _)
Search(rs, c, min, max) ==
  LET idx == (min + max) \div 2
  IN IF min > max THEN FALSE
     ELSE IF c < rs[idx + 1][1] THEN Search(rs, c, min, idx - 1)
     ELSE IF c > rs[idx + 1][2] THEN Search(rs, c, idx + 1, max)
     ELSE TRUE
InRange(o, c) ==
  LET n == Len(o.rs)
      high == o.rs[n][2]
  IN CASE c < o.rs[1][1] -> FALSE
       [] o.op = "range" /\ c >= MAX16 /\ high = MAX16 -> TRUE
       [] c > high -> FALSE
       [] OTHER -> Search(o.rs, c, 0, n - 1)
Accepts(o, c) ==
  CASE o.op = "char" -> Fold(c) = o.v
    [] o.op = "dot" -> ~is_line_terminator(c)
    [] o.op = "any" -> TRUE
    [] o.op \in {"range", "range32"} -> InRange(o, Fold(c))
Holds(o, p) ==
  CASE o.op = "line_start" -> p = 0 \/ (re.flags.multi_line /\ is_line_terminator(PEEK_PREV_CHAR(p)))
    [] o.op = "line_end" -> p = Len(text) \/ (re.flags.multi_line /\ is_line_terminator(PEEK_CHAR(p)))
    [] o.op \in {"word_boundary", "not_word_boundary"} ->
         LET before == p # 0 /\ is_word_char(PEEK_PREV_CHAR(p))
             after == p < Len(text) /\ is_word_char(PEEK_CHAR(p))
         IN (before # after) = (o.op = "word_boundary")

(***************************************************************************)
(* The opcodes.                                                            *)
(***************************************************************************)
DoMatch == Now({"match"}) /\ Go(Recurse(vm, TRUE))
DoChar ==
  /\ Now(CharOps)
  /\ Test(~AtEnd /\ Accepts(O, PEEK_CHAR(vm.cptr)), [vm EXCEPT !.cptr = NEXT(@)])
DoAssertion == Now(Assertions) /\ Test(Holds(O, vm.cptr), vm)
DoPrev == Now({"prev"}) /\ Test(vm.cptr # 0, [vm EXCEPT !.cptr = PREV_CHAR(@, 0)])
DoGoto == Now({"goto"}) /\ Go(Jump(vm))
DoSplit ==
  \/ Now({"split_next_first"}) /\ Go(Advance(push_state(vm, "SPLIT", vm.pc + 1 + O.v, 0)))
  \/ Now({"split_goto_first"}) /\ Go(Jump(push_state(vm, "SPLIT", vm.pc + 1, 0)))
DoLookahead ==
  \/ Now({"lookahead"}) /\ Go(Advance(push_state(vm, "LOOKAHEAD", vm.pc + 1 + O.v, 0)))
  \/ Now({"negative_lookahead"}) /\ Go(Advance(push_state(vm, "NEGATIVE_LOOKAHEAD", vm.pc + 1 + O.v, 0)))
DoSave ==
  \/ Now({"save_start"}) /\ Go(Advance([vm EXCEPT !.capture[O.v].start = vm.cptr]))
  \/ Now({"save_end"}) /\ Go(Advance([vm EXCEPT !.capture[O.v].end = vm.cptr]))
  \/ /\ Now({"save_reset"})
     /\ Go(Advance([vm EXCEPT !.capture = [k \in DOMAIN @ |-> IF k \in O.v..O.last THEN [start |-> NIL, end |-> NIL] ELSE @[k]]]))
DoPush ==
  \/ Now({"push_i32"}) /\ Go(Advance([vm EXCEPT !.stack = Append(@, O.v)]))
  \/ Now({"push_char_pos"}) /\ Go(Advance([vm EXCEPT !.stack = Append(@, vm.cptr)]))
Top == vm.stack[Len(vm.stack)]
Dropped == [vm EXCEPT !.stack = SubSeq(@, 1, Len(@) - 1)]
DoDrop == Now({"drop"}) /\ Go(Advance(Dropped))
(* Decrements the count and jumps back unless it is zero.                  *)
DoLoop ==
  /\ Now({"loop"})
  /\ LET v == [vm EXCEPT !.stack[Len(vm.stack)] = @ - 1]
     IN Go(IF Top - 1 # 0 THEN Jump(v) ELSE Advance(v))
(* Jumps back unless the position is the one that was pushed.              *)
DoBneCharPos == Now({"bne_char_pos"}) /\ Go(IF Top # vm.cptr THEN Jump(Dropped) ELSE Advance(Dropped))

(* Compares the capture with the text; NIL if they differ.                 *)
RECURSIVE CompareForward(_, _, _)
CompareForward(q, end, p) ==
  LET x == GET_CHAR(q, end)
      y == GET_CHAR(p, Len(text))
  IN IF q >= end THEN p
     ELSE IF p >= Len(text) \/ Fold(x.c) # Fold(y.c) THEN NIL
     ELSE CompareForward(x.p, end, y.p)
RECURSIVE CompareBackward(_, _, _)
CompareBackward(q, start, p) ==
  LET x == GET_PREV_CHAR(q, start)
      y == GET_PREV_CHAR(p, 0)
  IN IF q <= start THEN p
     ELSE IF p = 0 \/ Fold(x.c) # Fold(y.c) THEN NIL
     ELSE CompareBackward(x.p, start, y.p)
DoBackReference ==
  /\ Now(BackReferences)
  /\ LET k == vm.capture[O.v]
         p == IF k.start = NIL \/ k.end = NIL THEN vm.cptr
              ELSE IF O.op = "back_reference" THEN CompareForward(k.start, k.end, vm.cptr)
              ELSE CompareBackward(k.end, k.start, vm.cptr)
     IN Test(p # NIL, [vm EXCEPT !.cptr = p])

(* The atom of a simple quantifier, executed without states of its own.    *)
RECURSIVE RunSimple(_, _)
RunSimple(pc, p) ==
  LET o == re.code[pc]
  IN CASE o.op = "match" -> p
       [] o.op \in CharOps -> IF p < Len(text) /\ Accepts(o, PEEK_CHAR(p)) THEN RunSimple(pc + 1, NEXT(p)) ELSE NIL
       [] o.op \in Assertions -> IF Holds(o, p) THEN RunSimple(pc + 1, p) ELSE NIL
RECURSIVE RunGreedy(_, _, _, _)
RunGreedy(pc, p, q, max) ==
  LET p1 == RunSimple(pc, p)
  IN IF p1 = NIL THEN <<p, q>>
     ELSE IF q + 1 >= max /\ max # INT32_MAX THEN <<p1, q + 1>>
     ELSE RunGreedy(pc, p1, q + 1, max)
DoSimpleGreedyQuant ==
  /\ Now({"simple_greedy_quant"})
  /\ LET r == RunGreedy(vm.pc + 1, vm.cptr, 0, O.max)
         v == Jump([vm EXCEPT !.cptr = r[1]])
         s == [State("GREEDY_QUANT", vm.pc, r[2] - O.min) EXCEPT !.cptr = r[1]]
     IN Go(IF r[2] < O.min THEN Recurse(vm, FALSE)
           ELSE IF r[2] > O.min THEN [v EXCEPT !.states = Append(@, s)] ELSE v)

(* lre_exec from position cindex.                                          *)
lre_exec(prog, cindex) ==
  [pc |-> 1, cptr |-> cindex, capture |-> [k \in 0..(prog.capture_count - 1) |-> [start |-> NIL, end |-> NIL]],
   stack |-> <<>>, states |-> <<>>, ret |-> IF prog.ok THEN "running" ELSE "error", steps |-> 0]
ExecNext ==
  \/ DoMatch \/ DoChar \/ DoAssertion \/ DoPrev \/ DoGoto \/ DoSplit \/ DoLookahead \/ DoSave \/ DoPush
  \/ DoDrop \/ DoLoop \/ DoBneCharPos \/ DoBackReference \/ DoSimpleGreedyQuant

(* The operand stack is allocated with the size compute_stack_size found   *)
(* by reading the code once from first to last: every path the execution   *)
(* takes, backtracking into the middle of counted loops included, stays    *)
(* within it, pops only what was pushed, and leaves nothing behind.        *)
StackIsEnough ==
  /\ vm.ret # "error" => Len(vm.stack) <= re.stack_size
  /\ vm.ret = "running" =>
       /\ O.op \in {"drop", "loop", "bne_char_pos"} => Len(vm.stack) > 0
       /\ vm.pc = Len(re.code) => Len(vm.stack) = 0
===============================================================================
