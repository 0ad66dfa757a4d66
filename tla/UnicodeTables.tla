---------------------------- MODULE UnicodeTables -----------------------------
(***************************************************************************)
(* The tables of character properties: unicode_gen.c writes them as bytes  *)
(* that code the lengths of runs, libunicode.c reads them back, with an    *)
(* index of block starts for the ones that are searched.  A column of the  *)
(* character database is a sequence of runs [v, end], the value v up to    *)
(* and not including the character end, next to each other with different  *)
(* values.  Memory suffices: the error exits are left out (the one of      *)
(* unicode_script ends in a jump to itself).                               *)
(***************************************************************************)
EXTENDS CharRange, FiniteSets, Bitwise, SequencesExt

CONSTANT
  BLOCK_LEN     \* PROP_BLOCK_LEN, CC_BLOCK_LEN and UNICODE_INDEX_BLOCK_LEN

RunOf(db, c) == CHOOSE k \in DOMAIN db : c < db[k].end /\ (k = 1 \/ db[k - 1].end <= c)
RunAt(db, c) == db[RunOf(db, c)].v
RunEnd(db, c) == db[RunOf(db, c)].end
CHARCODE_MAX(db) == db[Len(db)].end - 1
Bytes2(v) == <<(v \div 256) % 256, v % 256>>
Get16(t, p) == t[p] * 256 + t[p + 1]

(* An entry of an index: 21 bits of character and 3 bits of offset.        *)
IndexEntry(code, offset) == code + offset * 2^21
IndexCode(v) == v % 2^21
RECURSIVE SearchIndex(_, _, _, _)
SearchIndex(index, c, lo, hi) ==
  IF hi - lo <= 1 THEN lo
  ELSE LET i == (hi + lo) \div 2
       IN IF c < IndexCode(index[i + 1]) THEN SearchIndex(index, c, lo, i) ELSE SearchIndex(index, c, i, hi)
NotInTable == [pos |-> -1, code |-> 0]

get_index_pos(index, c) ==
  IF c < IndexCode(index[1]) THEN [pos |-> 0, code |-> 0]
  ELSE IF c >= index[Len(index)] THEN NotInTable
  ELSE LET i == SearchIndex(index, c, 0, Len(index) - 1)
       IN [pos |-> (i + 1) * BLOCK_LEN + index[i + 1] \div 2^21, code |-> IndexCode(index[i + 1])]

-----------------------------------------------------------------------------
(* Binary properties: only the lengths are coded, the value alternates     *)
(* from 0; two short runs share a byte.                                    *)
RunLengths(db) ==
  LET n == IF db[Len(db)].v = 0 THEN Len(db) - 1 ELSE Len(db)
  IN <<>> \o [k \in 1..n |-> db[k].end - (IF k = 1 THEN 0 ELSE db[k - 1].end) - 1]
PropCode(v) ==
  IF v < 128 THEN <<128 + v>>
  ELSE IF v < 2^13 THEN <<64 + v \div 256, v % 256>>
  ELSE <<96 + v \div 2^16>> \o Bytes2(v)
RECURSIVE PropBytes(_, _, _, _)
PropBytes(buf, i, add_index, s) ==
  IF i > Len(buf) \/ ~s.ok THEN s
  ELSE LET indexed == add_index /\ Len(s.table) >= s.block_end /\ s.bit = 0
           offset == Len(s.table) - s.block_end
           v == buf[i]
           pair == v < 8 /\ i < Len(buf) /\ buf[i + 1] < 8
       IN PropBytes(buf, IF pair THEN i + 2 ELSE i + 1, add_index,
            [table |-> s.table \o (IF pair THEN <<v * 8 + buf[i + 1]>> ELSE PropCode(v)),
             index |-> IF indexed THEN Append(s.index, IndexEntry(s.code, offset)) ELSE s.index,
             block_end |-> IF indexed THEN s.block_end + BLOCK_LEN ELSE s.block_end,
             code |-> s.code + v + 1 + (IF pair THEN buf[i + 1] + 1 ELSE 0),
             bit |-> IF pair THEN s.bit ELSE 1 - s.bit,
             ok |-> indexed => offset <= 7])
build_prop_table(db, add_index) ==
  LET s == PropBytes(RunLengths(db), 1, add_index,
                     [table |-> <<>>, index |-> <<>>, block_end |-> BLOCK_LEN, code |-> 0, bit |-> 0, ok |-> db[1].v = 0])
  IN IF add_index THEN [s EXCEPT !.index = Append(@, s.code)] ELSE s

(* The lengths coded at p and the place of the next code.                  *)
PropRuns(t, p) ==
  LET b == t[p]
  IN IF b < 64 THEN [runs |-> <<b \div 8 + 1, (b % 8) + 1>>, next |-> p + 1]
     ELSE IF b >= 128 THEN [runs |-> <<b - 128 + 1>>, next |-> p + 1]
     ELSE IF b < 96 THEN [runs |-> <<(b - 64) * 256 + t[p + 1] + 1>>, next |-> p + 2]
     ELSE [runs |-> <<(b - 96) * 2^16 + Get16(t, p + 1) + 1>>, next |-> p + 3]
RECURSIVE SearchRuns(_, _, _, _, _)
SearchRuns(t, c, p, code, bit) ==
  LET r == PropRuns(t, p)
      end == code + r.runs[1]
  IN IF c < end THEN bit
     ELSE IF Len(r.runs) = 1 THEN SearchRuns(t, c, r.next, end, 1 - bit)
     ELSE IF c < end + r.runs[2] THEN 1 - bit
     ELSE SearchRuns(t, c, r.next, end + r.runs[2], bit)
lre_is_in_table(c, tab) ==
  LET pos == get_index_pos(tab.index, c)
  IN pos # NotInTable /\ SearchRuns(tab.table, c, pos.pos + 1, pos.code, 0) = 1
RECURSIVE PropIntervals(_, _, _, _, _)
PropIntervals(t, p, c, bit, cr) ==
  IF p > Len(t) THEN cr
  ELSE LET r == PropRuns(t, p)
           c1 == c + r.runs[1]
           c2 == IF Len(r.runs) = 2 THEN c1 + r.runs[2] ELSE c1
           first == IF bit = 1 THEN cr \o <<c, c1>> ELSE cr
       IN IF Len(r.runs) = 1 THEN PropIntervals(t, r.next, c1, 1 - bit, first)
          ELSE PropIntervals(t, r.next, c2, bit, IF bit = 0 THEN first \o <<c1, c2>> ELSE first)
unicode_prop1(table) == PropIntervals(table, 1, 0, 0, <<>>)

-----------------------------------------------------------------------------
(* General categories, five bits of value and three of length; a run of    *)
(* alternating Lu and Ll is coded as the value 31.                         *)
Lu == 1
Ll == 2
RECURSIVE Alternating(_, _, _)
Alternating(db, i, n) ==
  IF i + n <= CHARCODE_MAX(db) /\ RunAt(db, i + n) = Lu + (n % 2) THEN Alternating(db, i, n + 1) ELSE n
GcCode(n, v) ==
  IF n < 7 THEN <<n * 32 + v>>
  ELSE <<7 * 32 + v>> \o
       (IF n < 7 + 128 THEN <<n - 7>>
        ELSE IF n < 7 + 128 + 2^14 THEN LET n1 == n - (7 + 128) IN <<n1 \div 256 + 128, n1 % 256>>
        ELSE LET n1 == n - (7 + 128 + 2^14) IN <<n1 \div 2^16 + 128 + 64>> \o Bytes2(n1))
RECURSIVE GcBytes(_, _)
GcBytes(db, i) ==
  IF i > CHARCODE_MAX(db) THEN <<>>
  ELSE LET v == RunAt(db, i)
           n == RunEnd(db, i) - i
           n1 == IF v = Lu THEN Alternating(db, i, 1) ELSE 0
       IN IF n1 > n THEN GcCode(n1 - 1, 31) \o GcBytes(db, i + n1) ELSE GcCode(n - 1, v) \o GcBytes(db, i + n)
build_general_category_table(db) == GcBytes(db, 0)

GcRun(t, p) ==
  LET n == t[p] \div 32
      m == t[p + 1]
  IN IF n < 7 THEN [n |-> n, next |-> p + 1]
     ELSE IF m < 128 THEN [n |-> m + 7, next |-> p + 2]
     ELSE IF m < 128 + 64 THEN [n |-> (m - 128) * 256 + t[p + 2] + 7 + 128, next |-> p + 3]
     ELSE [n |-> (m - 128 - 64) * 2^16 + Get16(t, p + 2) + 7 + 128 + 2^14, next |-> p + 4]
RECURSIVE EverySecond(_, _)
EverySecond(c0, c) == IF c0 < c THEN <<c0, c0 + 1>> \o EverySecond(c0 + 2, c) ELSE <<>>
RECURSIVE GcIntervals(_, _, _, _)
GcIntervals(t, p, c0, gc_mask) ==
  IF p > Len(t) THEN <<>>
  ELSE LET v == t[p] % 32
           r == GcRun(t, p)
           c == c0 + r.n + 1
           whole == IF v = 31 THEN {Lu, Ll} \subseteq gc_mask ELSE v \in gc_mask
           half == v = 31 /\ Cardinality({Lu, Ll} \cap gc_mask) = 1
       IN (IF whole THEN <<c0, c>>
           ELSE IF half THEN EverySecond(IF Ll \in gc_mask THEN c0 + 1 ELSE c0, c) ELSE <<>>)
          \o GcIntervals(t, r.next, c, gc_mask)
(* The mask is the set of the categories asked for.                        *)
unicode_general_category1(table, gc_mask) == GcIntervals(table, 1, 0, gc_mask)

-----------------------------------------------------------------------------
(* Scripts: a bit tells the script 0 (Unknown), of which the last run is   *)
(* not coded, from the others, whose number follows.                       *)
ScriptCode(n, v) ==
  LET type == IF v = 0 THEN 0 ELSE 128
  IN (IF n < 96 THEN <<n + type>>
      ELSE IF n < 96 + 2^12 THEN LET n1 == n - 96 IN <<n1 \div 256 + 96 + type, n1 % 256>>
      ELSE LET n1 == n - (96 + 2^12) IN <<n1 \div 2^16 + 112 + type>> \o Bytes2(n1))
     \o (IF v = 0 THEN <<>> ELSE <<v>>)
RECURSIVE ScriptBytes(_, _)
ScriptBytes(db, i) ==
  IF i > CHARCODE_MAX(db) \/ (RunAt(db, i) = 0 /\ RunEnd(db, i) = CHARCODE_MAX(db) + 1) THEN <<>>
  ELSE ScriptCode(RunEnd(db, i) - i - 1, RunAt(db, i)) \o ScriptBytes(db, RunEnd(db, i))
build_script_table(db) == ScriptBytes(db, 0)
(* Script extensions: every run carries its list of scripts.               *)
RECURSIVE ScriptExtBytes(_, _)
ScriptExtBytes(db, i) ==
  IF i > CHARCODE_MAX(db) THEN <<>>
  ELSE LET n == RunEnd(db, i) - i - 1
           ext == RunAt(db, i)
       IN (IF n < 128 THEN <<n>>
           ELSE IF n < 128 + 2^14 THEN LET n1 == n - 128 IN <<n1 \div 256 + 128, n1 % 256>>
           ELSE LET n1 == n - (128 + 2^14) IN <<n1 \div 2^16 + 128 + 64>> \o Bytes2(n1))
          \o <<Len(ext)>> \o ext \o ScriptExtBytes(db, RunEnd(db, i))
build_script_ext_table(db) == ScriptExtBytes(db, 0)

ScriptRun(t, p) ==
  LET n == t[p] % 128
  IN IF n < 96 THEN [n |-> n, next |-> p + 1]
     ELSE IF n < 112 THEN [n |-> (n - 96) * 256 + t[p + 1] + 96, next |-> p + 2]
     ELSE [n |-> (n - 112) * 2^16 + Get16(t, p + 1) + 96 + 2^12, next |-> p + 3]
RECURSIVE ScriptIntervals(_, _, _, _)
ScriptIntervals(t, p, c, script) ==
  IF p > Len(t) THEN <<>>
  ELSE LET r == ScriptRun(t, p)
           typed == t[p] >= 128
           v == IF typed THEN t[r.next] ELSE 0
           c1 == c + r.n + 1
       IN (IF v = script THEN <<c, c1>> ELSE <<>>)
          \o ScriptIntervals(t, IF typed THEN r.next + 1 ELSE r.next, c1, script)
ExtRun(t, p) ==
  LET b == t[p]
  IN IF b < 128 THEN [n |-> b, next |-> p + 1]
     ELSE IF b < 128 + 64 THEN [n |-> (b - 128) * 256 + t[p + 1] + 128, next |-> p + 2]
     ELSE [n |-> (b - 128 - 64) * 2^16 + Get16(t, p + 1) + 128 + 2^14, next |-> p + 3]
RECURSIVE ExtIntervals(_, _, _, _, _)
ExtIntervals(t, p, c, script, is_common) ==
  IF p > Len(t) THEN <<>>
  ELSE LET r == ExtRun(t, p)
           v_len == t[r.next]
           c1 == c + r.n + 1
           listed == IF is_common THEN v_len # 0 ELSE \E i \in 1..v_len : t[r.next + i] = script
       IN (IF listed THEN <<c, c1>> ELSE <<>>) \o ExtIntervals(t, r.next + v_len + 1, c1, script, is_common)
Common == 1
Inherited == 2
(* Script_Extensions: Common and Inherited lose the characters that have   *)
(* extensions, every other script gains the ones that name it.             *)

unicode_script(table, ext_table, script, is_ext) ==
  LET is_common == script \in {Common, Inherited}
      cr1 == ScriptIntervals(table, 1, 0, script)
      cr2 == ExtIntervals(ext_table, 1, 0, script, is_common)
  IN IF ~is_ext THEN cr1
     ELSE IF is_common THEN cr_op(cr1, cr_invert(cr2), "INTER")
     ELSE cr_op(cr1, cr2, "UNION")

-----------------------------------------------------------------------------
(* Canonical combining classes: two bits tell a constant class, a class    *)
(* that increases by one per character, the class 0 and the class 230.     *)
RECURSIVE Increasing(_, _, _)
Increasing(db, i, n) ==
  IF i + n <= CHARCODE_MAX(db) /\ RunAt(db, i + n) = RunAt(db, i) + n THEN Increasing(db, i, n + 1) ELSE n

CcCode(n1, type, cc) ==
  (IF n1 < 48 THEN <<n1 + type * 64>>
   ELSE IF n1 < 48 + 2^11 THEN LET n2 == n1 - 48 IN <<n2 \div 256 + 48 + type * 64, n2 % 256>>
   ELSE LET n2 == n1 - (48 + 2^11) IN <<n2 \div 2^16 + 56 + type * 64>> \o Bytes2(n2))
  \o (IF type <= 1 THEN <<cc>> ELSE <<>>)
RECURSIVE CcBytes(_, _, _)
CcBytes(db, i, s) ==
  LET cc == RunAt(db, i)
      up == Increasing(db, i, 1)
      n == IF up >= 2 THEN up ELSE RunEnd(db, i) - i
      type == IF up >= 2 THEN 1 ELSE IF cc = 0 THEN 2 ELSE IF cc = 230 THEN 3 ELSE 0
      indexed == Len(s.table) >= s.block_end
  IN IF i > CHARCODE_MAX(db) \/ (cc = 0 /\ i + n - 1 = CHARCODE_MAX(db))
     THEN [s EXCEPT !.index = Append(@, i)]
     ELSE CcBytes(db, i + n,
            [table |-> s.table \o CcCode(n - 1, type, cc),
             index |-> IF indexed THEN Append(s.index, IndexEntry(i, Len(s.table) - s.block_end)) ELSE s.index,
             block_end |-> IF indexed THEN s.block_end + BLOCK_LEN ELSE s.block_end])
build_cc_table(db) == CcBytes(db, 0, [table |-> <<>>, index |-> <<>>, block_end |-> BLOCK_LEN])

(* A length of three bytes is put together with a shift of 8 for the       *)
(* highest part, where build_cc_table uses 16.                             *)
CcRun(t, p) ==
  LET n == t[p] % 64
  IN IF n < 48 THEN [n |-> n, next |-> p + 1]
     ELSE IF n < 56 THEN [n |-> (n - 48) * 256 + t[p + 1] + 48, next |-> p + 2]
     ELSE [n |-> (((n - 56) * 256) | Get16(t, p + 1)) + 48 + 2^11, next |-> p + 3]
RECURSIVE SearchCc(_, _, _, _)
SearchCc(t, c, p, code) ==
  LET type == t[p] \div 64
      r == CcRun(t, p)
      c1 == code + r.n + 1
  IN IF c >= c1 THEN SearchCc(t, c, IF type <= 1 THEN r.next + 1 ELSE r.next, c1)
     ELSE CASE type = 0 -> t[r.next]
            [] type = 1 -> t[r.next] + c - code
            [] type = 2 -> 0
            [] type = 3 -> 230
unicode_get_cc(c, tab) ==
  LET pos == get_index_pos(tab.index, c)
  IN IF pos = NotInTable THEN 0 ELSE SearchCc(tab.table, c, pos.pos + 1, pos.code)
-----------------------------------------------------------------------------
(***************************************************************************)
(* Case conversion: unicode_gen.c groups the characters that change case   *)
(* into runs of a kind (find_run_type, build_conv_table), libunicode.c     *)
(* finds the run of a character and computes what it becomes.  The         *)
(* database gives each character its upper case u and lower case l, lists  *)
(* that are empty when the character does not change, and its folding f,   *)
(* 0 when it does not change.                                              *)
(***************************************************************************)

NoCase == [u |-> <<>>, l |-> <<>>, f |-> 0]
InfoOf(tab, c) == IF c \in DOMAIN tab THEN tab[c] ELSE NoCase
LastChar(tab) == CHOOSE c \in DOMAIN tab : \A d \in DOMAIN tab : d <= c
FirstOf(s) == IF s = <<>> THEN 0 ELSE s[1]

is_complicated_case(ci) ==
  \/ Len(ci.u) > 1 \/ Len(ci.l) > 1
  \/ Len(ci.u) > 0 /\ Len(ci.l) > 0
  \/ (IF ci.f # 0 THEN 1 ELSE 0) # Len(ci.l)
  \/ ci.f # 0 /\ FirstOf(ci.l) # ci.f

Entry(code, len, type, data, ext) == [code |-> code, len |-> len, type |-> type, data |-> data, ext |-> ext]
(* How far a condition on a character and its distance from code holds.    *)
Extent(tab, code, Same(_, _)) ==
  CHOOSE n \in 1..(LastChar(tab) - code + 1) :
    /\ code + n > LastChar(tab) \/ ~Same(tab[code + n], n)
    /\ \A k \in 1..(n - 1) : Same(tab[code + k], k)

Iota == 921        \* 0x399
(* An upper, a title and a lower case letter in a row.                     *)
IsLSU(tab, code) ==
  LET ci == InfoOf(tab, code)
      ci1 == InfoOf(tab, code + 1)
      ci2 == InfoOf(tab, code + 2)
  IN /\ ci.l = <<code + 2>> /\ ci.f = code + 2 /\ ci.u = <<>>
     /\ ci1.l = <<code + 2>> /\ ci1.f = code + 2 /\ ci1.u = <<code>>
     /\ ci2.l = <<>> /\ ci2.f = 0 /\ ci2.u = <<code>>
(* Characters that are not plain pairs of letters.                         *)
ComplicatedRun(tab, code) ==
  LET ci == tab[code]
      uf == Extent(tab, code, LAMBDA c1, n : c1.u = <<FirstOf(ci.u) + n>> /\ c1.l = <<>> /\ c1.f = FirstOf(c1.u))
      uIota == Extent(tab, code, LAMBDA c1, n : c1.u = <<ci.u[1] + n, Iota>> /\ c1.f = 0 /\ c1.l = <<>>)
      u2l == Extent(tab, code, LAMBDA c1, n : c1.u = <<ci.u[1] + n, Iota>> /\ c1.l = <<ci.l[1] + n>> /\ c1.f = FirstOf(c1.l))
      lower == Extent(tab, code, LAMBDA c1, n : c1.l = <<ci.l[1] + n>> /\ c1.u = <<>> /\ c1.f = 0)
      endsInIota == Len(ci.u) = 2 /\ ci.u[2] = Iota
  IN IF uf > 1 THEN Entry(code, uf, "UF", FirstOf(ci.u), <<>>)
     ELSE IF endsInIota /\ ci.f = 0 /\ ci.l = <<>> THEN Entry(code, uIota, "U_EXT2", 0, ci.u)
     ELSE IF endsInIota /\ Len(ci.l) = 1 /\ ci.f = ci.l[1] THEN Entry(code, u2l, "U2L_399_EXT2", 0, <<ci.u[1], ci.l[1]>>)
     ELSE IF Len(ci.l) = 1 /\ ci.u = <<>> /\ ci.f = 0 THEN Entry(code, lower, "L", ci.l[1], <<>>)
     ELSE IF ci.l = <<>> /\ Len(ci.u) = 1 /\ ci.u[1] < 4096 /\ ci.f = ci.u[1] + 32
          THEN Entry(code, 1, "UF_D20", ci.u[1], <<>>)
     ELSE IF ci.l = <<>> /\ Len(ci.u) = 1 /\ ci.f = ci.u[1] + 1 THEN Entry(code, 1, "UF_D1_EXT", 0, ci.u)
     ELSE IF Len(ci.l) = 2 /\ ci.u = <<>> /\ ci.f = 0 THEN Entry(code, 1, "L_EXT2", 0, ci.l)
     ELSE IF Len(ci.u) = 2 /\ ci.l = <<>> /\ ci.f = 0 THEN Entry(code, 1, "U_EXT2", 0, ci.u)
     ELSE IF Len(ci.u) = 3 /\ ci.l = <<>> /\ ci.f = 0 THEN Entry(code, 1, "U_EXT3", 0, ci.u)
     ELSE Entry(code, 1, "unsupported", 0, <<>>)
RECURSIVE Alternation(_, _, _)
Alternation(tab, code, len) ==
  LET ci == InfoOf(tab, code + len)
      ci1 == InfoOf(tab, code + len + 1)
  IN IF /\ code < LastChar(tab) /\ len < 126
        /\ ~is_complicated_case(ci) /\ ~is_complicated_case(ci1)
        /\ ci.l = <<code + len + 1>> /\ ci1.u = <<code + len>>
     THEN Alternation(tab, code, len + 2) ELSE len
find_run_type(tab, code) ==
  LET ci == tab[code]
      pairs == Alternation(tab, code, 0)
      is_lower == ci.l # <<>>
      shifted == Extent(tab, code, LAMBDA c1, n : /\ ~is_complicated_case(c1)
                                                  /\ IF is_lower THEN c1.l = <<ci.l[1] + n>> ELSE c1.u = <<ci.u[1] + n>>)
  IN IF IsLSU(tab, code) THEN Entry(code, 3, "LSU", 0, <<>>)
     ELSE IF is_complicated_case(ci) THEN ComplicatedRun(tab, code)
     ELSE IF pairs > 0 THEN Entry(code, pairs, "UL", 0, <<>>)
     ELSE IF is_lower THEN Entry(code, shifted, "LF", ci.l[1], <<>>)
     ELSE Entry(code, shifted, "U", ci.u[1], <<>>)

-----------------------------------------------------------------------------
RECURSIVE Runs(_, _)
Runs(tab, code) ==
  IF code > LastChar(tab) THEN <<>>
  ELSE IF InfoOf(tab, code) = NoCase THEN Runs(tab, code + 1)
  ELSE LET te == find_run_type(tab, code) IN <<te>> \o Runs(tab, code + te.len)
(* A run whose target starts another run refers to that run; the others    *)
(* take their target from the extension table.                             *)
find_data_index(conv, data) ==
  LET at == {i \in DOMAIN conv : conv[i].code = data}
  IN IF at = {} THEN -1 ELSE (CHOOSE i \in at : \A j \in at : i <= j) - 1
Indexed(conv, te) ==
  IF te.type \in {"U", "L", "UF", "LF"}
  THEN LET i == find_data_index(conv, te.data)
       IN IF i >= 0 THEN [te EXCEPT !.data = i]
          ELSE IF te.type = "U" THEN [te EXCEPT !.type = "U_EXT", !.ext = <<te.data>>]
          ELSE IF te.type = "LF" THEN [te EXCEPT !.type = "LF_EXT", !.ext = <<te.data>>]
          ELSE [te EXCEPT !.type = "unsupported"]
  ELSE te
find_ext_data_index(ext, data) ==
  LET at == {i \in DOMAIN ext : ext[i] = data}
  IN IF at = {} THEN [ext |-> Append(ext, data), i |-> Len(ext)]
     ELSE [ext |-> ext, i |-> (CHOOSE i \in at : \A j \in at : i <= j) - 1]
(* The places of the extension data of an entry, w apart in its data.      *)
RECURSIVE ExtIndexes(_, _, _, _)
ExtIndexes(ext, list, w, v) ==
  IF list = <<>> THEN [ext |-> ext, v |-> v, ok |-> TRUE]
  ELSE LET f == find_ext_data_index(ext, list[1])
           r == ExtIndexes(f.ext, Tail(list), w, v * w + f.i)
       IN [r EXCEPT !.ok = @ /\ f.i < w]
RECURSIVE ExtPass(_, _, _, _)
ExtPass(s, i, types, w) ==
  IF i > Len(s.conv) THEN s
  ELSE IF s.conv[i].type \notin types THEN ExtPass(s, i + 1, types, w)
  ELSE LET r == ExtIndexes(s.ext, s.conv[i].ext, w, 0)
       IN ExtPass([conv |-> [s.conv EXCEPT ![i].data = r.v], ext |-> r.ext, ok |-> s.ok /\ r.ok], i + 1, types, w)
build_conv_table(tab) ==
  LET runs == Runs(tab, CHOOSE c \in DOMAIN tab : \A d \in DOMAIN tab : c <= d)
      conv == <<>> \o [i \in DOMAIN runs |-> Indexed(runs, runs[i])]
      s0 == [conv |-> conv, ext |-> <<>>, ok |-> \A i \in DOMAIN conv : conv[i].type # "unsupported" /\ conv[i].len <= 127]
      s1 == ExtPass(s0, 1, {"U_EXT3"}, 16)
      s2 == ExtPass(s1, 1, {"L_EXT2", "U_EXT2", "U2L_399_EXT2"}, 64)
  IN ExtPass(s2, 1, {"UF_D1_EXT", "U_EXT", "LF_EXT"}, 1000)
(* The four high bits of the data are kept with the run, the eight low     *)
(* ones in a table of their own.                                           *)
dump_case_conv_table(s) ==
  [table1 |-> <<>> \o [i \in DOMAIN s.conv |-> [code |-> s.conv[i].code, len |-> s.conv[i].len, type |-> s.conv[i].type,
                                               high |-> s.conv[i].data \div 256]],
   table2 |-> <<>> \o [i \in DOMAIN s.conv |-> s.conv[i].data % 256],
   ext |-> s.ext]

-----------------------------------------------------------------------------
(* The place of the run that holds c, -1 when there is none.               *)
RECURSIVE FindRun(_, _, _, _)
FindRun(table1, c, lo, hi) ==
  IF lo > hi THEN -1
  ELSE LET i == (hi + lo) \div 2
           e == table1[i + 1]
       IN IF c < e.code THEN FindRun(table1, c, lo, i - 1)
          ELSE IF c >= e.code + e.len THEN FindRun(table1, c, i + 1, hi)
          ELSE i
(* conv_type is 0 to upper case, 1 to lower case, 2 to fold.               *)
ConvertIn(T, i, c, conv_type) ==
  LET e == T.table1[i + 1]
      data == e.high * 256 + T.table2[i + 1]
      is_lower == IF conv_type # 0 THEN 1 ELSE 0
      a == c - e.code
      ext(k) == T.ext[k + 1]
      sign == 2 * is_lower - 1
  IN CASE e.type \in {"U", "L", "UF", "LF"} ->
            IF conv_type = (IF e.type \in {"L", "LF"} THEN 1 ELSE 0) \/ (e.type \in {"UF", "LF"} /\ conv_type = 2)
            THEN <<a + T.table1[data + 1].code>> ELSE <<c>>
       [] e.type = "UL" -> IF a % 2 # 1 - is_lower THEN <<c>> ELSE <<(IF a % 2 = 0 THEN a + 1 ELSE a - 1) + e.code>>
       [] e.type = "LSU" ->
            IF a = 1 THEN <<c + sign>> ELSE IF a = (1 - is_lower) * 2 THEN <<c + sign * 2>> ELSE <<c>>
       [] e.type = "U2L_399_EXT2" ->
            IF is_lower = 0 THEN <<a + ext(data \div 64), Iota>> ELSE <<a + ext(data % 64)>>
       [] e.type = "UF_D20" -> IF conv_type = 1 THEN <<c>> ELSE <<data + (IF conv_type = 2 THEN 32 ELSE 0)>>
       [] e.type = "UF_D1_EXT" -> IF conv_type = 1 THEN <<c>> ELSE <<ext(data) + (IF conv_type = 2 THEN 1 ELSE 0)>>
       [] e.type \in {"U_EXT", "LF_EXT"} ->
            IF is_lower # (IF e.type = "LF_EXT" THEN 1 ELSE 0) THEN <<c>> ELSE <<ext(data)>>
       [] e.type \in {"U_EXT2", "L_EXT2"} ->
            IF conv_type # (IF e.type = "L_EXT2" THEN 1 ELSE 0) THEN <<c>> ELSE <<a + ext(data \div 64), ext(data % 64)>>
       [] e.type = "U_EXT3" ->
            IF conv_type # 0 THEN <<c>> ELSE <<ext(data \div 256), ext((data \div 16) % 16), ext(data % 16)>>
lre_case_conv(T, c, conv_type) ==
  IF c < 128
  THEN IF conv_type # 0 THEN (IF c \in 65..90 THEN <<c + 32>> ELSE <<c>>) ELSE IF c \in 97..122 THEN <<c - 32>> ELSE <<c>>
  ELSE LET i == FindRun(T.table1, c, 0, Len(T.table1) - 1)
       IN IF i < 0 THEN <<c>> ELSE ConvertIn(T, i, c, conv_type)

(* The characters changed by the conversions of case_mask, as intervals.   *)
RunMask ==
  [U |-> {"U", "UF", "UL", "LSU", "U2L_399_EXT2", "UF_D20", "UF_D1_EXT", "U_EXT", "U_EXT2", "U_EXT3"},
   L |-> {"L", "LF", "UL", "LSU", "U2L_399_EXT2", "LF_EXT", "L_EXT2"},
   F |-> {"UF", "LF", "UL", "LSU", "U2L_399_EXT2", "LF_EXT", "UF_D20", "UF_D1_EXT"}]
RECURSIVE EachSecond(_, _, _)
EachSecond(code, i, len) == IF i < len THEN <<code + i, code + i + 1>> \o EachSecond(code, i + 2, len) ELSE <<>>

CaseIntervals(e, case_mask) ==
  LET upper == "U" \in case_mask
      both == upper /\ case_mask \cap {"L", "F"} # {}
      at(c) == <<c, c + 1>>
  IN IF e.type = "UL" /\ ~both THEN EachSecond(IF upper THEN e.code + 1 ELSE e.code, 0, e.len)
     ELSE IF e.type = "LSU" /\ ~both
     THEN (IF upper THEN <<>> ELSE at(e.code)) \o at(e.code + 1) \o (IF upper THEN at(e.code + 2) ELSE <<>>)
     ELSE <<e.code, e.code + e.len>>
RECURSIVE CaseFrom(_, _, _)
CaseFrom(table1, i, case_mask) ==
  IF i > Len(table1) THEN <<>>
  ELSE (IF \E k \in case_mask : table1[i].type \in RunMask[k] THEN CaseIntervals(table1[i], case_mask) ELSE <<>>)
       \o CaseFrom(table1, i + 1, case_mask)
unicode_case1(T, case_mask) == IF case_mask = {} THEN <<>> ELSE CaseFrom(T.table1, 1, case_mask)
-----------------------------------------------------------------------------
(***************************************************************************)
(* The properties of \p{...}: some have a table, the others are computed   *)
(* from general categories, tables and case conversion by a small stack    *)
(* machine.  unicode_gen.c stores, for several of them, only the           *)
(* difference with what can be computed.  The database gives a character   *)
(* its general category, the set of its properties, and its case           *)
(* conversions.                                                            *)
(***************************************************************************)

GcNumber ==
  [Cn |-> 0, Lu |-> 1, Ll |-> 2, Lt |-> 3, Lm |-> 4, Lo |-> 5, Mn |-> 6, Mc |-> 7, Me |-> 8, Nd |-> 9, Nl |-> 10, No |-> 11,
   Sm |-> 12, Pc |-> 16, Zl |-> 24, Zp |-> 25, Cc |-> 26, Cf |-> 27, Cs |-> 28, Co |-> 29]
M(names) == {GcNumber[g] : g \in names}

(* A column of the database as runs.                                       *)
RECURSIVE ColumnFrom(_, _)
ColumnFrom(f, c) ==
  IF c \notin DOMAIN f THEN <<>>
  ELSE IF c + 1 \in DOMAIN f /\ f[c + 1] = f[c] THEN ColumnFrom(f, c + 1)
  ELSE <<[v |-> f[c], end |-> c + 1]>> \o ColumnFrom(f, c + 1)
Column(f) == ColumnFrom(f, 0)

HasCase(ci) == ci.u # <<>> \/ ci.l # <<>> \/ ci.f # 0
Differ(a, b) == a # b
(* The properties kept for the tables, as differences.                     *)

compute_internal_props(ci) ==
  LET p == ci.props
      ID_Start == "ID_Start" \in p
      ID_Continue == "ID_Continue" \in p
  IN p \cup (IF ~HasCase(ci) /\ "Cased" \in p THEN {"Cased1"} ELSE {})
       \cup (IF ID_Continue /\ ~ID_Start THEN {"ID_Continue1"} ELSE {})
       \cup (IF Differ(ID_Start, "XID_Start" \in p) THEN {"XID_Start1"} ELSE {})
       \cup (IF Differ(ID_Continue, "XID_Continue" \in p) THEN {"XID_Continue1"} ELSE {})
       \cup (IF Differ("Changes_When_Titlecased" \in p, ci.u # <<>>) THEN {"Changes_When_Titlecased1"} ELSE {})
       \cup (IF Differ("Changes_When_Casefolded" \in p, ci.f # 0) THEN {"Changes_When_Casefolded1"} ELSE {})
       \cup (IF Differ("Changes_When_NFKC_Casefolded" \in p, ci.f # 0) THEN {"Changes_When_NFKC_Casefolded1"} ELSE {})

PropTables ==
  {"Other_Math", "Other_Alphabetic", "Other_Lowercase", "Other_Uppercase", "Other_Grapheme_Extend", "Other_ID_Start",
   "Other_ID_Continue", "ID_Continue1", "XID_Start1", "XID_Continue1", "Changes_When_Titlecased1", "Changes_When_Casefolded1",
   "Changes_When_NFKC_Casefolded1", "Pattern_Syntax", "Pattern_White_Space", "ID_Start", "Case_Ignorable"}
IndexedTables == {"Cased1", "Case_Ignorable", "ID_Start", "ID_Continue1"}
(* The tables of a database, as build_flags_tables, build_prop_list_table  *)
(* and the tables of categories and of case conversion leave them.         *)
BuildTables(udb) ==
  [gc |-> build_general_category_table(Column([c \in DOMAIN udb |-> udb[c].gc])),
   prop |-> [p \in PropTables \cup IndexedTables |->
               build_prop_table(Column([c \in DOMAIN udb |-> IF p \in compute_internal_props(udb[c]) THEN 1 ELSE 0]), p \in IndexedTables)],
   conv |-> dump_case_conv_table(build_conv_table([c \in DOMAIN udb |-> [u |-> udb[c].u, l |-> udb[c].l, f |-> udb[c].f]]))]

lre_is_cased(T, c) ==
  FindRun(T.conv.table1, c, 0, Len(T.conv.table1) - 1) >= 0 \/ lre_is_in_table(c, T.prop["Cased1"])
lre_is_case_ignorable(T, c) == lre_is_in_table(c, T.prop["Case_Ignorable"])
lre_is_id_start(T, c) == lre_is_in_table(c, T.prop["ID_Start"])
lre_is_id_continue(T, c) == lre_is_id_start(T, c) \/ lre_is_in_table(c, T.prop["ID_Continue1"])

-----------------------------------------------------------------------------
POP_STACK_LEN_MAX == 4
Op(op) == [op |-> op]
OpGC(names) == [op |-> "GC", a |-> M(names)]
OpPROP(p) == [op |-> "PROP", a |-> p]
OpCASE(mask) == [op |-> "CASE", a |-> mask]
Pushed(T, o) ==
  CASE o.op = "GC" -> unicode_general_category1(T.gc, o.a)
    [] o.op = "PROP" -> unicode_prop1(T.prop[o.a].table)
    [] o.op = "CASE" -> unicode_case1(T.conv, o.a)
(* Runs the operations from i on; a failed assertion leaves no result.     *)
AssertFails == [ok |-> FALSE, cr |-> <<>>]
RECURSIVE RunOps(_, _, _, _)
RunOps(T, ops, i, stack) ==
  LET n == Len(stack)
      o == ops[i]
  IN IF i > Len(ops) THEN IF n = 1 THEN [ok |-> TRUE, cr |-> stack[1]] ELSE AssertFails
     ELSE IF o.op = "INVERT" THEN IF n >= 1 THEN RunOps(T, ops, i + 1, [stack EXCEPT ![n] = cr_invert(@)]) ELSE AssertFails
     ELSE IF n >= POP_STACK_LEN_MAX THEN AssertFails
     ELSE IF o.op \in {"UNION", "INTER", "XOR"}
     THEN IF n >= 2 THEN RunOps(T, ops, i + 1, Append(SubSeq(stack, 1, n - 2), cr_op(stack[n - 1], stack[n], o.op)))
          ELSE AssertFails
     ELSE RunOps(T, ops, i + 1, Append(stack, Pushed(T, o)))
unicode_prop_ops(T, ops) == RunOps(T, ops, 1, <<>>)

Letters5 == {"Lu", "Ll", "Lt", "Lm", "Lo", "Nl"}
NotPattern(extra) ==
  <<OpPROP("Pattern_Syntax"), OpPROP("Pattern_White_Space"), Op("UNION"), OpPROP(extra), Op("UNION"), Op("INVERT"), Op("INTER")>>
Program ==
  [Assigned |-> <<OpGC({"Cn"}), Op("INVERT")>>,
   Math |-> <<OpGC({"Sm"}), OpPROP("Other_Math"), Op("UNION")>>,
   Lowercase |-> <<OpGC({"Ll"}), OpPROP("Other_Lowercase"), Op("UNION")>>,
   Uppercase |-> <<OpGC({"Lu"}), OpPROP("Other_Uppercase"), Op("UNION")>>,
   Cased |-> <<OpGC({"Lu", "Ll", "Lt"}), OpPROP("Other_Uppercase"), Op("UNION"), OpPROP("Other_Lowercase"), Op("UNION")>>,
   Alphabetic |-> <<OpGC(Letters5), OpPROP("Other_Uppercase"), Op("UNION"), OpPROP("Other_Lowercase"), Op("UNION"),
                    OpPROP("Other_Alphabetic"), Op("UNION")>>,
   Grapheme_Base |-> <<OpGC({"Cc", "Cf", "Cs", "Co", "Cn", "Zl", "Zp", "Me", "Mn"}), OpPROP("Other_Grapheme_Extend"), Op("UNION"), Op("INVERT")>>,
   Grapheme_Extend |-> <<OpGC({"Me", "Mn"}), OpPROP("Other_Grapheme_Extend"), Op("UNION")>>,
   XID_Start |-> <<OpGC(Letters5), OpPROP("Other_ID_Start"), Op("UNION")>> \o NotPattern("XID_Start1"),
   XID_Continue |-> <<OpGC(Letters5 \cup {"Mn", "Mc", "Nd", "Pc"}), OpPROP("Other_ID_Start"), Op("UNION"),
                      OpPROP("Other_ID_Continue"), Op("UNION")>> \o NotPattern("XID_Continue1"),
   Changes_When_Uppercased |-> <<OpCASE({"U"})>>,
   Changes_When_Lowercased |-> <<OpCASE({"L"})>>,
   Changes_When_Casemapped |-> <<OpCASE({"U", "L", "F"})>>,
   Changes_When_Titlecased |-> <<OpCASE({"U"}), OpPROP("Changes_When_Titlecased1"), Op("XOR")>>,
   Changes_When_Casefolded |-> <<OpCASE({"F"}), OpPROP("Changes_When_Casefolded1"), Op("XOR")>>,
   Changes_When_NFKC_Casefolded |-> <<OpCASE({"F"}), OpPROP("Changes_When_NFKC_Casefolded1"), Op("XOR")>>,
   ID_Continue |-> <<OpPROP("ID_Start"), OpPROP("ID_Continue1"), Op("XOR")>>,
   ID_Start |-> <<OpPROP("ID_Start")>>]
unicode_prop(T, name) == unicode_prop_ops(T, Program[name])
-----------------------------------------------------------------------------
(***************************************************************************)
(* The decompositions of characters: unicode_gen.c covers them with runs,  *)
(* each in the encoding that makes the whole table shortest, and sorts the *)
(* pairs that compose again; libunicode.c decodes a run and searches the   *)
(* pairs.  The database gives a character its decomposition d, empty when  *)
(* there is none, whether that is a compatibility decomposition, and       *)
(* whether it is excluded from composition.  A type is a kind with its     *)
(* length l and, for the increasing runs, the place p that increases.      *)
(***************************************************************************)

CONSTANTS
  RUN_LEN_MAX,       \* the longest run, 127
  COMPOSE_OFFSETS    \* the offsets a compose entry can hold, 64

Space == 32
Type(k, l, p) == [k |-> k, l |-> l, p |-> p]
LastCode(db) == CHOOSE c \in DOMAIN db : \A d \in DOMAIN db : d <= c

(* What a run of n characters adds to the tables, in bytes.                *)
get_decomp_run_size(type, n) ==
  6 + (CASE type.k = "C" -> 0
         [] type.k = "L" -> n * type.l * 2
         [] type.k = "LL" -> (n * type.l * 18 + 7) \div 8
         [] type.k = "S" -> n * type.l
         [] type.k = "I" -> type.l * 2
         [] type.k = "B" -> 2 + n * type.l
         [] type.k = "LS2" -> n * 3
         [] type.k = "PAT3" -> 4 + n * 2
         [] type.k = "S2_UL" -> n
         [] type.k = "LS2_UL" -> (n \div 2) * 3)

ShortTable == <<8260, 8725>>        \* 0x2044, 0x2215
get_short_code(c) ==
  IF c < 128 THEN c
  ELSE IF c >= 768 /\ c < 848 THEN c - 768 + 128
  ELSE IF c = ShortTable[1] THEN 208 ELSE IF c = ShortTable[2] THEN 209 ELSE -1
is_short(c) == get_short_code(c) >= 0
is_short_tab(s) == \A j \in DOMAIN s : is_short(s[j])
is_16bit(s) == \A j \in DOMAIN s : s[j] <= 65535
to_lower_simple(c) == IF c < 256 \/ (c >= 1040 /\ c <= 1071) THEN c + 32 ELSE c + 1

-----------------------------------------------------------------------------
(* The longest run from i whose characters all satisfy a condition.        *)
LongestRun(db, i, len_max, Same(_, _)) ==
  CHOOSE n \in 1..len_max :
    /\ \A k \in 1..(n - 1) : i + k <= LastCode(db) /\ Same(db[i + k], k)
    /\ n = len_max \/ i + n > LastCode(db) \/ ~Same(db[i + n], n)
Candidates(n, type) == <<>> \o [k \in 1..n |-> [len |-> k, type |-> type]]
Alike(ci, c1) == Len(c1.d) = Len(ci.d) /\ c1.compat = ci.compat
(* The characters other than the space lie within 254 of the least one.    *)
WithinByte(db, i, n) ==
  LET cs == UNION {{db[i + k].d[j] : j \in DOMAIN db[i + k].d} : k \in 0..(n - 1)} \ {Space}
  IN \A a, b \in cs : b - a <= 254
IncreasingAt(l) == IF l = 1 THEN <<0>> ELSE IF l = 2 THEN <<0, 1>> ELSE <<1, 2>>
RunIncreasing(db, i, len_max, p) ==
  LongestRun(db, i, len_max, LAMBDA c1, n :
    Alike(db[i], c1) /\ \A j \in DOMAIN c1.d : c1.d[j] = (IF j = p + 1 THEN db[i].d[j] + n ELSE db[i].d[j]))
(* An upper case letter with a mark, then the lower case one, and so on.   *)
RECURSIVE UpperLower(_, _, _, _, _)
UpperLower(db, i, n, len_max, wide) ==
  LET c1 == db[i + n]
      c2 == db[i + n + 1]
      wide1 == wide \/ ~is_short(c1.d[1])
  IN IF /\ i + n + 1 <= LastCode(db) /\ n + 2 <= len_max
        /\ Alike(db[i], c1) /\ is_short(c1.d[2])
        /\ Alike(db[i], c2) /\ c2.d[1] = to_lower_simple(c1.d[1]) /\ c2.d[2] = c1.d[2]
     THEN <<[len |-> n + 2, type |-> Type(IF wide1 THEN "LS2_UL" ELSE "S2_UL", 2, 0)]>> \o UpperLower(db, i, n + 2, len_max, wide1)
     ELSE <<>>
(* Every way to start a run at i, in the order they are tried.             *)
RunChoices(db, i) ==
  LET ci == db[i]
      l == Len(ci.d)
      len_max == IF ~ci.compat /\ ~ci.excl /\ l = 2 THEN COMPOSE_OFFSETS ELSE RUN_LEN_MAX
      hole(c1) == c1.d = <<>>
      large == LongestRun(db, i, len_max, LAMBDA c1, n : hole(c1) \/ Alike(ci, c1))
      words == LongestRun(db, i, len_max, LAMBDA c1, n : hole(c1) \/ (Alike(ci, c1) /\ is_16bit(c1.d)))
      base == LongestRun(db, i, len_max, LAMBDA c1, n : Alike(ci, c1) /\ WithinByte(db, i, n + 1))
      short == LongestRun(db, i, len_max, LAMBDA c1, n : hole(c1) \/ (Alike(ci, c1) /\ is_short_tab(c1.d)))
      pat == LongestRun(db, i, len_max, LAMBDA c1, n : Alike(ci, c1) /\ c1.d[2] <= 65535 /\ c1.d[1] = ci.d[1] /\ c1.d[3] = ci.d[3])
      ls2 == LongestRun(db, i, len_max, LAMBDA c1, n : hole(c1) \/ (Alike(ci, c1) /\ c1.d[1] <= 65535 /\ is_short(c1.d[2])))
  IN IF ~is_16bit(ci.d) THEN Candidates(large, Type("LL", l, 0))
     ELSE (IF l > 7 THEN <<>>
           ELSE IF l = 1 THEN <<[len |-> 1, type |-> Type("C", 1, 0)]>> \o Tail(Candidates(words, Type("L", 1, 0)))
           ELSE Candidates(words, Type("L", l, 0)))
          \o (IF (l <= 8 \/ l = 18) /\ WithinByte(db, i, 1) THEN Candidates(base, Type("B", l, 0)) ELSE <<>>)
          \o (IF l <= 5 /\ is_short_tab(ci.d) THEN Candidates(short, Type("S", l, 0)) ELSE <<>>)
          \o (IF l <= 4
              THEN FlattenSeq([k \in DOMAIN IncreasingAt(l) |->
                     Candidates(RunIncreasing(db, i, len_max, IncreasingAt(l)[k]), Type("I", l, IncreasingAt(l)[k]))])
              ELSE <<>>)
          \o (IF l = 3 THEN Candidates(pat, Type("PAT3", 3, 0)) ELSE <<>>)
          \o (IF l = 2 /\ is_short(ci.d[2]) THEN Candidates(ls2, Type("LS2", 2, 0)) ELSE <<>>)
          \o (IF l = 2 THEN UpperLower(db, i, 0, len_max, FALSE) ELSE <<>>)

NoRun(cost) == [code |-> 0, len |-> 0, type |-> Type("none", 0, 0), cost |-> cost]
(* The cheapest choice, the earliest among equals; after[n] is what was    *)
(* found for the character i + n.                                          *)
find_decomp_run(db, i, after) ==
  IF db[i].d = <<>> THEN NoRun(after[1].cost)
  ELSE LET choices == RunChoices(db, i)
           costs == <<>> \o [k \in DOMAIN choices |-> get_decomp_run_size(choices[k].type, choices[k].len) + after[choices[k].len].cost]
           best == CHOOSE k \in DOMAIN costs : \A m \in DOMAIN costs : costs[k] < costs[m] \/ (costs[k] = costs[m] /\ k <= m)
       IN [code |-> i, len |-> choices[best].len, type |-> choices[best].type, cost |-> costs[best]]
RECURSIVE RunsFrom(_, _)
RunsFrom(db, i) ==
  IF i > LastCode(db) THEN <<NoRun(0)>>
  ELSE LET after == RunsFrom(db, i + 1) IN <<find_decomp_run(db, i, after)>> \o after
(* The runs that are kept: the one of the first character, then the one    *)
(* after its end, and so on.                                               *)
RECURSIVE KeptRuns(_, _)
KeptRuns(tab_de, k) ==
  IF k > Len(tab_de) THEN <<>>
  ELSE IF tab_de[k].len = 0 THEN KeptRuns(tab_de, k + 1)
  ELSE <<tab_de[k]>> \o KeptRuns(tab_de, k + tab_de[k].len)

-----------------------------------------------------------------------------
put16(c) == <<c % 256, (c \div 256) % 256>>
(* The characters of a run one after another, c_len zeros for a hole.      *)
CharsOf(db, de) ==
  FlattenSeq([k \in 1..de.len |->
    LET d == db[de.code + k - 1].d IN IF d = <<>> THEN <<>> \o [j \in 1..de.type.l |-> 0] ELSE d])
Map(s, F(_)) == FlattenSeq([k \in DOMAIN s |-> F(s[k])])
Every(s, first, step) == <<>> \o [k \in 1..((Len(s) - first) \div step + 1) |-> s[first + (k - 1) * step]]
(* Two bits of each of four characters to a byte.                          *)
HighBits(cs) ==
  <<>> \o [q \in 1..((Len(cs) + 3) \div 4) |->
    LET bits(r) == IF 4 * (q - 1) + r + 1 <= Len(cs) THEN (cs[4 * (q - 1) + r + 1] \div 65536) * 4^r ELSE 0
    IN bits(0) + bits(1) + bits(2) + bits(3)]
LeastChar(cs) ==
  LET others == {cs[k] : k \in DOMAIN cs} \ {Space}
  IN IF others = {} THEN 65535 ELSE CHOOSE c \in others : \A d \in others : c <= d
(* The bytes of a run.                                                     *)
add_decomp_data(db, de) ==
  LET cs == CharsOf(db, de)
      l == de.type.l
      low(c) == put16(c)
      short(c) == <<get_short_code(c)>>
      base == LeastChar(cs)
      offset(c) == IF c = Space THEN <<255>> ELSE <<c - base>>
      letters == Every(cs, 1, 4)       \* of the characters at even places
      marks == Every(cs, 2, 4)
  IN CASE de.type.k = "C" -> <<>>
       [] de.type.k = "L" -> Map(cs, low)
       [] de.type.k = "LL" -> Map(cs, low) \o HighBits(cs)
       [] de.type.k = "S" -> Map(cs, short)
       [] de.type.k = "I" -> Map(SubSeq(cs, 1, l), low)
       [] de.type.k = "B" -> put16(base) \o Map(cs, offset)
       [] de.type.k = "LS2" -> FlattenSeq([k \in 1..de.len |-> put16(cs[2 * k - 1]) \o short(cs[2 * k])])
       [] de.type.k = "PAT3" -> put16(cs[1]) \o put16(cs[3]) \o Map(Every(cs, 2, 3), low)
       [] de.type.k = "S2_UL" -> FlattenSeq([k \in DOMAIN letters |-> short(letters[k]) \o short(marks[k])])
       [] de.type.k = "LS2_UL" -> FlattenSeq([k \in DOMAIN letters |-> put16(letters[k]) \o short(marks[k])])
(* table1: where each run is and how it is coded; table2: where its data   *)
(* starts, or the character itself; data: the bytes.                       *)
RECURSIVE AddRuns(_, _, _)
AddRuns(db, runs, s) ==
  IF runs = <<>> THEN s
  ELSE LET de == Head(runs)
       IN AddRuns(db, Tail(runs),
            [table1 |-> Append(s.table1, [code |-> de.code, len |-> de.len, type |-> de.type, compat |-> db[de.code].compat]),
             table2 |-> Append(s.table2, IF de.type.k = "C" THEN db[de.code].d[1] ELSE Len(s.data)),
             data |-> s.data \o add_decomp_data(db, de)])
build_decompose_table(db) ==
  AddRuns(db, KeptRuns(RunsFrom(db, 0), 1), [table1 |-> <<>>, table2 |-> <<>>, data |-> <<>>])

(* The pairs that compose, in increasing order, as places in table1.       *)
ce_less(a, b) == a.d[1] < b.d[1] \/ (a.d[1] = b.d[1] /\ a.d[2] < b.d[2])
get_decomp_pos(table1, c) ==
  LET k == CHOOSE k \in DOMAIN table1 : table1[k].code <= c /\ c < table1[k].code + table1[k].len
  IN [offset |-> c - table1[k].code, idx |-> k - 1]
Composable(db) == {c \in DOMAIN db : Len(db[c].d) = 2 /\ ~db[c].compat /\ ~db[c].excl}
build_compose_table(db, table1) ==
  LET order == SetToSortSeq(Composable(db), LAMBDA a, b : ce_less(db[a], db[b]))
      pos == <<>> \o [k \in DOMAIN order |-> get_decomp_pos(table1, order[k])]
  IN [ok |-> \A k \in DOMAIN pos : pos[k].offset < COMPOSE_OFFSETS,
      table |-> <<>> \o [k \in DOMAIN pos |-> pos[k].idx * COMPOSE_OFFSETS + pos[k].offset]]

-----------------------------------------------------------------------------
unicode_get16(d, p) == d[p + 1] + d[p + 2] * 256
unicode_get_short_code(c) == IF c < 128 THEN c ELSE IF c < 208 THEN c - 128 + 768 ELSE ShortTable[c - 208 + 1]
unicode_get_lower_simple(c) == to_lower_simple(c)
(* A hole is found by a character that is 0.                               *)

UnlessZero(s) == IF \E j \in DOMAIN s : s[j] = 0 THEN <<>> ELSE s
unicode_decomp_entry(T, idx, c) ==
  LET e == T.table1[idx + 1]
      at == T.table2[idx + 1]
      l == e.type.l
      k == c - e.code
      byte(p) == T.data[at + p + 1]
      word(p) == unicode_get16(T.data, at + p)
      chars(F(_)) == <<>> \o [j \in 1..l |-> F(j - 1)]
      high(q) == (byte(e.len * l * 2 + q \div 4) \div 4^(q % 4)) % 4
      letter == IF e.type.k = "S2_UL" THEN unicode_get_short_code(byte(k - (k % 2))) ELSE word((k \div 2) * 3)
      mark == IF e.type.k = "S2_UL" THEN byte(k - (k % 2) + 1) ELSE byte((k \div 2) * 3 + 2)
  IN CASE e.type.k = "C" -> <<at>>
       [] e.type.k = "L" -> UnlessZero(chars(LAMBDA j : word(k * l * 2 + 2 * j)))
       [] e.type.k = "LL" -> UnlessZero(chars(LAMBDA j : word(2 * (k * l + j)) + high(k * l + j) * 65536))
       [] e.type.k = "S" -> UnlessZero(chars(LAMBDA j : unicode_get_short_code(byte(k * l + j))))
       [] e.type.k = "I" -> chars(LAMBDA j : word(2 * j) + (IF j = e.type.p THEN k ELSE 0))
       [] e.type.k = "B" -> chars(LAMBDA j : LET b == byte(2 + k * l + j) IN IF b = 255 THEN Space ELSE b + word(0))
       [] e.type.k = "LS2" -> IF word(k * 3) = 0 THEN <<>> ELSE <<word(k * 3), unicode_get_short_code(byte(k * 3 + 2))>>
       [] e.type.k = "PAT3" -> <<word(0), word(4 + k * 2), word(2)>>
       [] e.type.k \in {"S2_UL", "LS2_UL"} ->
            <<IF k % 2 = 1 THEN unicode_get_lower_simple(letter) ELSE letter, unicode_get_short_code(mark)>>
RECURSIVE SearchDecomp(_, _, _, _, _)
SearchDecomp(T, c, is_compat, lo, hi) ==
  IF lo > hi THEN <<>>
  ELSE LET i == (hi + lo) \div 2
           e == T.table1[i + 1]
       IN IF c < e.code THEN SearchDecomp(T, c, is_compat, lo, i - 1)
          ELSE IF c >= e.code + e.len THEN SearchDecomp(T, c, is_compat, i + 1, hi)
          ELSE IF e.compat /\ ~is_compat THEN <<>>
          ELSE unicode_decomp_entry(T, i, c)
unicode_decomp_char(T, c, is_compat) == SearchDecomp(T, c, is_compat, 0, Len(T.table1) - 1)
RECURSIVE SearchPair(_, _, _, _, _, _)
SearchPair(T, comp, c0, c1, lo, hi) ==
  IF lo > hi THEN 0
  ELSE LET i == (hi + lo) \div 2
           idx == comp[i + 1] \div COMPOSE_OFFSETS
           ch == T.table1[idx + 1].code + (comp[i + 1] % COMPOSE_OFFSETS)
           pair == unicode_decomp_entry(T, idx, ch)
           d == IF c0 # pair[1] THEN c0 - pair[1] ELSE c1 - pair[2]
       IN IF d < 0 THEN SearchPair(T, comp, c0, c1, lo, i - 1)
          ELSE IF d > 0 THEN SearchPair(T, comp, c0, c1, i + 1, hi)
          ELSE ch
unicode_compose_pair(T, comp, c0, c1) == SearchPair(T, comp, c0, c1, 0, Len(comp) - 1)
-----------------------------------------------------------------------------
(***************************************************************************)
(* unicode_normalize of libunicode.c, which String.prototype.normalize     *)
(* calls: decomposition, canonical order, and for the composed forms the   *)
(* composition of a starter with what follows it.  The decompositions and  *)
(* combining classes of the characters that matter are constants; the      *)
(* Hangul syllables are computed as in the code.                           *)
(***************************************************************************)

CONSTANTS
  Decomp,     \* the decompositions: character -> [d, compat, excl]
  Class       \* the characters whose combining class is not 0

unicode_cc(c) == IF c \in DOMAIN Class THEN Class[c] ELSE 0
DecompOf(c, is_compat) ==
  IF c \in DOMAIN Decomp /\ (is_compat \/ ~Decomp[c].compat) THEN Decomp[c].d ELSE <<>>
(* The first composites are tried in the order of their pairs; a pair has  *)
(* one composite.                                                          *)
PairOf(c0, c1) ==
  LET found == {c \in DOMAIN Decomp : Decomp[c].d = <<c0, c1>> /\ ~Decomp[c].compat /\ ~Decomp[c].excl}
  IN IF found = {} THEN 0 ELSE CHOOSE c \in found : TRUE

SBase == 44032     \* 0xac00
LBase == 4352      \* 0x1100
VBase == 4449      \* 0x1161
TBase == 4519      \* 0x11a7
RECURSIVE to_nfd_rec(_, _)
to_nfd_rec(src, is_compat) ==
  IF src = <<>> THEN <<>>
  ELSE LET c == Head(src)
           s == c - SBase
           d == DecompOf(c, is_compat)
       IN (IF c >= SBase /\ c < 55204
           THEN <<LBase + s \div 588, VBase + (s % 588) \div 28>> \o (IF s % 28 # 0 THEN <<TBase + (s % 28)>> ELSE <<>>)
           ELSE IF d # <<>> THEN to_nfd_rec(d, is_compat) ELSE <<c>>)
          \o to_nfd_rec(Tail(src), is_compat)

(* Marks are moved back over the ones of a higher class, from the first    *)
(* mark after a starter to the next starter.                               *)
RECURSIVE MoveBack(_, _, _, _)
MoveBack(buf, k, start, ch) ==
  IF k >= start /\ unicode_cc(buf[k]) > unicode_cc(ch)
  THEN MoveBack([buf EXCEPT ![k + 1] = buf[k]], k - 1, start, ch)
  ELSE [buf EXCEPT ![k + 1] = ch]
RECURSIVE InsertMarks(_, _, _)
InsertMarks(buf, j, start) ==
  IF j > Len(buf) \/ unicode_cc(buf[j]) = 0 THEN [buf |-> buf, j |-> j]
  ELSE InsertMarks(MoveBack(buf, j - 1, start, buf[j]), j + 1, start)
RECURSIVE SortFrom(_, _)
SortFrom(buf, i) ==
  IF i > Len(buf) THEN buf
  ELSE IF unicode_cc(buf[i]) = 0 THEN SortFrom(buf, i + 1)
  ELSE LET r == InsertMarks(buf, i + 1, i) IN SortFrom(r.buf, r.j + 1)
sort_cc(buf) == SortFrom(buf, 1)

(* 0 when there is no composite.                                           *)
compose_pair(c0, c1) ==
  IF c0 >= LBase /\ c0 < LBase + 19 /\ c1 >= VBase /\ c1 < VBase + 21
  THEN SBase + (c0 - LBase) * 588 + (c1 - VBase) * 28
  ELSE IF c0 >= SBase /\ c0 < SBase + 11172 /\ (c0 - SBase) % 28 = 0 /\ c1 >= TBase /\ c1 < TBase + 28
  THEN c0 + c1 - TBase
  ELSE PairOf(c0, c1)
(* The starter before the end of what was written that c may compose with, *)
(* 0 when it is blocked or there is none: only the class of the last       *)
(* character written is compared.                                          *)
RECURSIVE StarterFor(_, _, _)
(* A mark of the same class no longer blocks.                              *)
RECURSIVE MutStarterFor(_, _, _)
MutStarterFor(out, pos, last_cc) ==
  IF pos = 0 THEN 0
  ELSE LET cc == unicode_cc(out[pos])
       IN IF cc = 0 THEN pos ELSE IF cc > last_cc THEN 0 ELSE MutStarterFor(out, pos - 1, 256)

StarterFor(out, pos, last_cc) ==
  IF pos = 0 THEN 0
  ELSE LET cc == unicode_cc(out[pos])
       IN IF cc = 0 THEN pos ELSE IF cc >= last_cc THEN 0 ELSE StarterFor(out, pos - 1, 256)
RECURSIVE Composed(_, _)
Composed(out, rest) ==
  IF rest = <<>> THEN out
  ELSE LET c == Head(rest)
           pos == StarterFor(out, Len(out), unicode_cc(c))
           p == IF pos = 0 THEN 0 ELSE compose_pair(out[pos], c)
       IN IF p # 0 THEN Composed([out EXCEPT ![pos] = p], Tail(rest)) ELSE Composed(Append(out, c), Tail(rest))
unicode_normalize(src, n_type) ==
  LET is_compat == n_type \in {"NFKC", "NFKD"}
      buf == sort_cc(to_nfd_rec(src, is_compat))
  IN IF n_type = "NFC" /\ \A i \in DOMAIN src : src[i] < 256 THEN src
     ELSE IF Len(buf) <= 1 \/ n_type \in {"NFD", "NFKD"} THEN buf
     ELSE Composed(<<buf[1]>>, Tail(buf))

-----------------------------------------------------------------------------
(* The standard's definitions (UAX 15), to compare with.  Two strings are  *)
(* canonically equivalent when their full decompositions differ by         *)
(* exchanges of adjacent marks of different classes.                       *)
Reorderable(s, i) == unicode_cc(s[i]) > unicode_cc(s[i + 1]) /\ unicode_cc(s[i + 1]) > 0
InOrder(s) == \A i \in 1..(Len(s) - 1) : ~Reorderable(s, i)
Starters(s) == SelectSeq(s, LAMBDA c : unicode_cc(c) = 0)
OfClass(s, k) == SelectSeq(s, LAMBDA c : unicode_cc(c) = k)
(* The stretch of marks after the i-th starter, 0 for the ones before any. *)
StarterCount(s, i) == Cardinality({j \in 1..i : unicode_cc(s[j]) = 0})
MarksAfter(s, n) ==
  LET at == {i \in DOMAIN s : unicode_cc(s[i]) # 0 /\ StarterCount(s, i) = n}
  IN {<<unicode_cc(s[i]), OfClass(SubSeq(s, CHOOSE a \in at : \A b \in at : a <= b, CHOOSE a \in at : \A b \in at : b <= a), unicode_cc(s[i]))>> : i \in at}
SameUpToOrder(s, t) ==
  /\ Len(s) = Len(t) /\ Starters(s) = Starters(t)
  /\ \A n \in 0..Len(Starters(s)) : MarksAfter(s, n) = MarksAfter(t, n)
(* A character is blocked from a starter when one between them is a        *)
(* starter or has at least its class.                                      *)
Blocked(s, i, j) == \E k \in (i + 1)..(j - 1) : unicode_cc(s[k]) = 0 \/ unicode_cc(s[k]) >= unicode_cc(s[j])
PrimaryComposite(c0, c1) == IF c1 = TBase THEN 0 ELSE compose_pair(c0, c1)
(* Nothing that could still be composed is left.                           *)
FullyComposed(s) ==
  \A i \in DOMAIN s, j \in DOMAIN s :
    (i < j /\ unicode_cc(s[i]) = 0 /\ ~Blocked(s, i, j)) => PrimaryComposite(s[i], s[j]) = 0
FullyDecomposed(s, is_compat) == \A i \in DOMAIN s : DecompOf(s[i], is_compat) = <<>> /\ s[i] \notin SBase..(SBase + 11171)
===============================================================================
