----------------------------- MODULE CharRange -----------------------------
(***************************************************************************)
(* Sets of code points as libunicode.c keeps them: a sequence of points in *)
(* increasing order, of which the first opens an interval, the second      *)
(* closes it, and so on.  A point that is not below UINT32_MAX is beyond   *)
(* every code point.                                                       *)
(***************************************************************************)
EXTENDS Integers, Sequences

CONSTANT UINT32_MAX

(* An interval that starts where another ends is joined to it.             *)
RECURSIVE LastJoined(_, _)

LastJoined(pt, j) ==
  IF j + 3 <= Len(pt) /\ pt[j + 1] = pt[j + 2] THEN LastJoined(pt, j + 2) ELSE j
(* Merges consecutive intervals and removes empty ones.                    *)
RECURSIVE CompressFrom(_, _)
CompressFrom(pt, i) ==
  IF i + 1 > Len(pt) THEN <<>>
  ELSE IF pt[i] = pt[i + 1] THEN CompressFrom(pt, i + 2)
  ELSE LET j == LastJoined(pt, i) IN <<pt[i], pt[j + 1]>> \o CompressFrom(pt, j + 2)
cr_compress(pt) == CompressFrom(pt, 1)

In(op, x, y) ==
  CASE op = "UNION" -> (x + y) > 0
    [] op = "INTER" -> (x + y) = 2
    [] op = "XOR" -> (x + y) = 1
(* The points of both sets in increasing order, those where the outcome    *)
(* changes kept.                                                           *)
RECURSIVE Merge(_, _, _, _, _, _)
Merge(cr, a, i, b, j, op) ==
  IF i = Len(a) /\ j = Len(b) THEN cr
  ELSE LET fromA == i < Len(a) /\ (j = Len(b) \/ a[i + 1] <= b[j + 1])
           fromB == j < Len(b) /\ (i = Len(a) \/ b[j + 1] <= a[i + 1])
           ia == IF fromA THEN i + 1 ELSE i
           jb == IF fromB THEN j + 1 ELSE j
           v == IF fromA THEN a[ia] ELSE b[jb]
       IN Merge(IF In(op, ia % 2, jb % 2) # (Len(cr) % 2 = 1) THEN Append(cr, v) ELSE cr, a, ia, b, jb, op)
cr_op(a, b, op) == cr_compress(Merge(<<>>, a, 0, b, 0, op))

cr_union1(cr, b) == cr_op(cr, b, "UNION")
cr_union_interval(cr, c1, c2) == cr_union1(cr, <<c1, c2 + 1>>)
cr_invert(cr) == cr_compress(<<0>> \o cr \o <<UINT32_MAX>>)

(* The code points a range stands for.                                     *)
Members(cr) ==
  {c \in 0..(UINT32_MAX - 1) : \E k \in 1..(Len(cr) \div 2) : cr[2 * k - 1] <= c /\ c < cr[2 * k]}
(* In increasing order, every interval non-empty and apart from the next.  *)
Canonical(cr) ==
  /\ Len(cr) % 2 = 0
  /\ \A k \in 1..(Len(cr) - 1) : cr[k] < cr[k + 1]
=============================================================================
