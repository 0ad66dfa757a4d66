-------------------------- MODULE RegExpSemantics --------------------------
(***************************************************************************)
(* What a regular expression means, apart from any compilation: the list   *)
(* of the ways a pattern can match from a state, in order of preference.   *)
(* A state is a position, counted in characters, and the captures.         *)
(*                                                                         *)
(* Two sets of rules for loops: "standard", those of ECMAScript, by which  *)
(* every iteration forgets the captures made in the one before and an      *)
(* iteration that consumes nothing does not count; and "kept", those the   *)
(* comments of re_parse_term state, by which captures are reset only       *)
(* before an atom "in case the atom is not executed" and an iteration      *)
(* without advance ends the loop.                                          *)
(***************************************************************************)
EXTENDS RegExpEngine

Char(c) == [k |-> "atom", tok |-> [t |-> "char", c |-> c]]
Dot == [k |-> "atom", tok |-> [t |-> "dot", c |-> 0]]
Escape(name, inv) == [k |-> "atom", tok |-> [t |-> "escape", name |-> name, inv |-> inv, c |-> 0]]
Interval(lo, hi) == [t |-> "interval", lo |-> lo, hi |-> hi]
Class(inv, items) == [k |-> "atom", tok |-> [t |-> "class", inv |-> inv, items |-> items, c |-> 0]]
Assertion(a) == [k |-> "assertion", tok |-> [t |-> a]]
Ref(n) == [k |-> "ref", n |-> n, tok |-> [t |-> "\\1", n |-> n, name |-> ""]]
NamedRef(n, name) == [k |-> "ref", n |-> n, tok |-> [t |-> "\\k", n |-> n, name |-> name]]
Group(x) == [k |-> "group", x |-> x, tok |-> [t |-> "(", name |-> ""]]
Named(name, x) == [k |-> "group", x |-> x, tok |-> [t |-> "(?<n>", name |-> name]]
NonCapturing(x) == [k |-> "plain", x |-> x, tok |-> [t |-> "(?:"]]
Look(neg, back, x) == [k |-> "look", x |-> x, tok |-> [t |-> "(?=", neg |-> neg, back |-> back]]
Cat(xs) == [k |-> "cat", xs |-> xs]
Alt(xs) == [k |-> "alt", xs |-> xs]
Rep(x, min, max, greedy) == [k |-> "rep", x |-> x, min |-> min, max |-> max, greedy |-> greedy]
Empty == Cat(<<>>)

RECURSIVE Render(_)
Render(x) ==
  CASE x.k \in {"atom", "assertion", "ref"} -> <<x.tok>>
    [] x.k \in {"group", "plain", "look"} -> <<x.tok>> \o Render(x.x) \o <<[t |-> ")"]>>
    [] x.k = "cat" -> FlattenSeq([i \in DOMAIN x.xs |-> Render(x.xs[i])])
    [] x.k = "alt" -> FlattenSeq([i \in DOMAIN x.xs |-> IF i = 1 THEN Render(x.xs[1]) ELSE <<[t |-> "|"]>> \o Render(x.xs[i])])
    [] x.k = "rep" ->
         Render(x.x)
           \o <<CASE <<x.min, x.max>> = <<0, INT32_MAX>> -> [t |-> "star"]
                  [] <<x.min, x.max>> = <<1, INT32_MAX>> -> [t |-> "plus"]
                  [] <<x.min, x.max>> = <<0, 1>> -> [t |-> "quest"]
                  [] OTHER -> [t |-> "braces", lo |-> x.min, hi |-> x.max]>>
           \o IF x.greedy THEN <<>> ELSE <<[t |-> "quest"]>>

RECURSIVE Captures(_), CapturesOf(_)
Captures(x) ==
  CASE x.k \in {"atom", "assertion", "ref"} -> 0
    [] x.k = "group" -> 1 + Captures(x.x)
    [] x.k \in {"plain", "look", "rep"} -> Captures(x.x)
    [] x.k \in {"cat", "alt"} -> CapturesOf(x.xs)
CapturesOf(xs) == IF xs = <<>> THEN 0 ELSE Captures(Head(xs)) + CapturesOf(Tail(xs))

(* The characters of a text, and where each of them starts.                *)
RECURSIVE Characters(_, _)
Characters(units, is_utf16) ==
  IF units = <<>> THEN <<>>
  ELSE IF is_utf16 /\ Len(units) > 1 /\ units[1] = HI /\ units[2] = LO
  THEN <<PAIR>> \o Characters(SubSeq(units, 3, Len(units)), is_utf16)
  ELSE <<units[1]>> \o Characters(Tail(units), is_utf16)
RECURSIVE Offset(_, _)
Offset(chars, p) == IF p <= 0 THEN p ELSE Offset(chars, p - 1) + (IF chars[p] = PAIR THEN 2 ELSE 1)

EscapeSet == [d |-> {DIGIT}, s |-> {LF}, w |-> {DIGIT} \cup UPPER \cup LOWER]
AllChars == 0..PAIR
ItemSet(i) ==
  IF i.t = "interval" THEN i.lo..i.hi
  ELSE IF i.inv THEN AllChars \ EscapeSet[i.name] ELSE EscapeSet[i.name]
AtomMatches(tok, c, f) ==
  LET Same(x, y) == x = y \/ (f.ignore_case /\ lre_canonicalize(x, f.is_utf16) = lre_canonicalize(y, f.is_utf16))
  IN CASE tok.t = "char" -> Same(tok.c, c)
       [] tok.t = "dot" -> f.dotall \/ c # LF
       [] tok.t = "escape" -> c \in ItemSet(tok)
       [] tok.t = "class" -> (\E i \in DOMAIN tok.items : \E m \in ItemSet(tok.items[i]) : Same(m, c)) # tok.inv
AssertionHolds(a, chars, p, f) ==
  LET Word(i) == i \in DOMAIN chars /\ chars[i] \in EscapeSet["w"]
  IN CASE a = "line_start" -> p = 0 \/ (f.multi_line /\ chars[p] = LF)
       [] a = "line_end" -> p = Len(chars) \/ (f.multi_line /\ chars[p + 1] = LF)
       [] a = "word_boundary" -> Word(p) # Word(p + 1)
       [] a = "not_word_boundary" -> Word(p) = Word(p + 1)

Reset(s, from, to) == [s EXCEPT !.c = [k \in DOMAIN @ |-> IF k \in from..to THEN [start |-> NIL, end |-> NIL] ELSE @[k]]]
RefLength(s, n) == IF s.c[n].start = NIL \/ s.c[n].end = NIL THEN 0 ELSE s.c[n].end - s.c[n].start

(* env: chars, flags, rule.  g: the captures that open before x.           *)
RECURSIVE Matches(_, _, _, _, _), MatchesAll(_, _, _, _, _), Iterations(_, _, _, _, _, _, _)
Matches(x, g, back, env, s) ==
  LET chars == env.chars
      next == IF back THEN s.p - 1 ELSE s.p + 1
      n == g + 1
      Closed(r) == [r EXCEPT !.c[n] = IF back THEN [start |-> r.p, end |-> s.p] ELSE [start |-> s.p, end |-> r.p]]
      opened == IF env.rule = "standard" THEN s
                ELSE IF back THEN [s EXCEPT !.c[n].end = s.p] ELSE [s EXCEPT !.c[n].start = s.p]
      len == RefLength(s, x.n)
      first == IF back THEN s.p - len ELSE s.p
      ahead == Matches(x.x, g, x.tok.back, env, s)
  IN CASE x.k = "atom" ->
            IF next \in 0..Len(chars) /\ AtomMatches(x.tok, chars[IF back THEN s.p ELSE s.p + 1], env.flags)
            THEN <<[s EXCEPT !.p = next]>> ELSE <<>>
       [] x.k = "assertion" -> IF AssertionHolds(x.tok.t, chars, s.p, env.flags) THEN <<s>> ELSE <<>>
       [] x.k = "ref" ->
            IF len <= 0 THEN <<s>>
            ELSE IF /\ first >= 0 /\ first + len <= Len(chars)
                    /\ \A i \in 1..len : AtomMatches([t |-> "char", c |-> chars[s.c[x.n].start + i]], chars[first + i], env.flags)
            THEN <<[s EXCEPT !.p = IF back THEN s.p - len ELSE s.p + len]>> ELSE <<>>
       [] x.k = "group" -> LET rs == Matches(x.x, n, back, env, opened) IN [i \in DOMAIN rs |-> Closed(rs[i])]
       [] x.k = "plain" -> Matches(x.x, g, back, env, s)
       [] x.k = "look" ->
            IF x.tok.neg THEN (IF ahead = <<>> THEN <<s>> ELSE <<>>)
            ELSE IF ahead = <<>> THEN <<>> ELSE <<[s EXCEPT !.c = ahead[1].c]>>
       [] x.k = "cat" -> MatchesAll(x.xs, g, back, env, s)
       [] x.k = "alt" ->
            FlattenSeq([i \in DOMAIN x.xs |-> Matches(x.xs[i], g + CapturesOf(SubSeq(x.xs, 1, i - 1)), back, env, s)])
       [] x.k = "rep" ->
            Iterations(x, x.min, x.max, g, back, env,
                       IF env.rule = "kept" /\ x.min = 0 THEN Reset(s, n, g + Captures(x.x)) ELSE s)
(* The factors of a concatenation, from the last one when matching back.   *)
MatchesAll(xs, g, back, env, s) ==
  LET x == IF back THEN xs[Len(xs)] ELSE xs[1]
      rest == IF back THEN SubSeq(xs, 1, Len(xs) - 1) ELSE Tail(xs)
      rs == Matches(x, IF back THEN g + CapturesOf(rest) ELSE g, back, env, s)
  IN IF xs = <<>> THEN <<s>>
     ELSE FlattenSeq([i \in DOMAIN rs |-> MatchesAll(rest, IF back THEN g ELSE g + Captures(x), back, env, rs[i])])
(* RepeatMatcher of the standard, and its counterpart.                     *)
Iterations(x, min, max, g, back, env, s) ==
  LET std == env.rule = "standard"
      rs == Matches(x.x, g, back, env, IF std THEN Reset(s, g + 1, g + Captures(x.x)) ELSE s)
      more == IF max = INT32_MAX THEN max ELSE max - 1
      After(r) == IF min = 0 /\ r.p = s.p /\ (std \/ max = INT32_MAX)
                  THEN (IF std THEN <<>> ELSE <<r>>)
                  ELSE Iterations(x, IF min = 0 THEN 0 ELSE min - 1, more, g, back, env, r)
      again == FlattenSeq([i \in DOMAIN rs |-> After(rs[i])])
  IN CASE max = 0 -> <<s>>
       [] min > 0 -> again
       [] x.greedy -> again \o <<s>>
       [] OTHER -> <<s>> \o again

(* The first match at or after a position.                                 *)
RECURSIVE FirstMatch(_, _, _)
FirstMatch(x, env, p) ==
  LET none == [k \in 0..Captures(x) |-> [start |-> NIL, end |-> NIL]]
      rs == Matches(x, 0, FALSE, env, [p |-> p, c |-> none])
  IN IF rs # <<>> THEN [rs[1] EXCEPT !.c[0] = [start |-> p, end |-> rs[1].p]]
     ELSE IF env.flags.sticky \/ p = Len(env.chars) THEN [p |-> NIL, c |-> none]
     ELSE FirstMatch(x, env, p + 1)

(***************************************************************************)
(* Patterns the two sets of rules, or the compiled code, treat apart.      *)
(***************************************************************************)
RECURSIVE Nodes(_)
Nodes(x) ==
  {x} \cup (IF x.k \in {"group", "plain", "look", "rep"} THEN Nodes(x.x)
            ELSE IF x.k \in {"cat", "alt"} THEN UNION {Nodes(x.xs[i]) : i \in DOMAIN x.xs} ELSE {})
RECURSIVE Nullable(_)
Nullable(x) ==
  CASE x.k = "atom" -> FALSE
    [] x.k \in {"assertion", "ref", "look"} -> TRUE
    [] x.k \in {"group", "plain"} -> Nullable(x.x)
    [] x.k = "cat" -> \A i \in DOMAIN x.xs : Nullable(x.xs[i])
    [] x.k = "alt" -> \E i \in DOMAIN x.xs : Nullable(x.xs[i])
    [] x.k = "rep" -> x.min = 0 \/ Nullable(x.x)
HasRef(x) == \E y \in Nodes(x) : y.k = "ref"
(* Loops re_parse_term emits no check for: a lazy one, and one whose atom  *)
(* refers to captures of its own.                                          *)
UncheckedLoop(x) ==
  \E y \in Nodes(x) : y.k = "rep" /\ y.max = INT32_MAX /\ Nullable(y.x) /\ (~y.greedy \/ (HasRef(y.x) /\ Captures(y.x) > 0))
(* Loops the two rules disagree on: over captures, and over atoms that may *)
(* consume nothing.                                                        *)
RepeatedCapture(x) == \E y \in Nodes(x) : y.k = "rep" /\ y.max > 1 /\ Captures(y.x) > 0
EmptyIteration(x) == \E y \in Nodes(x) : y.k = "rep" /\ y.max > 0 /\ Nullable(y.x)
(* cr_canonicalize leaves the upper case letters of a class alone, which   *)
(* in Unicode mode are compared in lower case.                             *)
UpperCaseClass(x, f) ==
  f.ignore_case /\ f.is_utf16 /\
    \E y \in Nodes(x) : y.k = "atom" /\ y.tok.t = "class" /\
      \E i \in DOMAIN y.tok.items : y.tok.items[i].t = "interval" /\ y.tok.items[i].lo..y.tok.items[i].hi \cap UPPER # {}

InUnits(chars, r) ==
  [k \in DOMAIN r.c |-> [start |-> Offset(chars, r.c[k].start), end |-> Offset(chars, r.c[k].end)]]

(***************************************************************************)
(* The grammar of patterns, over sequences of tokens.                      *)
(***************************************************************************)
RECURSIVE IsDisjunction(_, _), IsAlternative(_, _)
From(t, i) == SubSeq(t, i, Len(t))
IsAtom(t, is_utf16) ==
  \/ Len(t) = 1 /\ t[1].t \in {"char", "dot", "class", "escape"}
  \/ Len(t) = 1 /\ t[1].t = "\\1"
  \/ /\ Len(t) > 1
     /\ IsGroup(t[1]) \/ t[1].t = "(?:" \/ (t[1].t = "(?=" /\ ~t[1].back /\ ~is_utf16)
     /\ t[Len(t)].t = ")" /\ IsDisjunction(SubSeq(t, 2, Len(t) - 1), is_utf16)
IsQuantifier(t) ==
  \/ Len(t) = 1 /\ t[1].t \in QuantifierTokens
  \/ Len(t) = 2 /\ t[1].t \in QuantifierTokens /\ t[2].t = "quest"
IsTerm(t, is_utf16) ==
  \/ Len(t) = 1 /\ t[1].t \in Assertions
  \/ Len(t) > 1 /\ t[1].t = "(?=" /\ t[Len(t)].t = ")" /\ IsDisjunction(SubSeq(t, 2, Len(t) - 1), is_utf16)
  \/ \E i \in 1..Len(t) : IsAtom(SubSeq(t, 1, i), is_utf16) /\ (i = Len(t) \/ IsQuantifier(From(t, i + 1)))
IsAlternative(t, is_utf16) ==
  t = <<>> \/ \E i \in 1..Len(t) : IsTerm(SubSeq(t, 1, i), is_utf16) /\ IsAlternative(From(t, i + 1), is_utf16)
IsDisjunction(t, is_utf16) ==
  \/ IsAlternative(t, is_utf16)
  \/ \E i \in DOMAIN t : t[i].t = "|" /\ IsAlternative(SubSeq(t, 1, i - 1), is_utf16) /\ IsDisjunction(From(t, i + 1), is_utf16)
(* In Unicode mode a reference must be to a group of the pattern.          *)
IsPattern(t, is_utf16) ==
  /\ IsDisjunction(t, is_utf16)
  /\ is_utf16 => \A i \in DOMAIN t : t[i].t = "\\1" => t[i].n <= Len(SelectSeq(t, IsGroup))
  /\ \A i, j \in DOMAIN t : (i # j /\ t[i].t = "(?<n>" /\ t[j].t = "(?<n>") => t[i].name # t[j].name
  /\ \A i \in DOMAIN t : t[i].t = "braces" => t[i].lo <= t[i].hi
=============================================================================
