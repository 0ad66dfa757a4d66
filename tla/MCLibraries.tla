----------------------------- MODULE MCLibraries -----------------------------
(***************************************************************************)
(* The libraries libbf.c and libunicode.c, one beside the other: area says *)
(* which one a behaviour is about.                                         *)
(*                                                                         *)
(* Arithmetic: a behaviour takes a first operand, then a second one, a     *)
(* rounding mode and a precision, and computes.  Limbs have two bits, so   *)
(* that every carry, cancellation and quotient correction happens between  *)
(* limbs.                                                                  *)
(***************************************************************************)
EXTENDS NumberSemantics, UnicodeTables, TLC

VARIABLES numPart, opA, opB, opMode
nvars == <<numPart, opA, opB, opMode>>

NoMode == [prec |-> 0]
FloatMode(rnd, prec, sub, radpnt, e) ==
  [prec |-> prec, flags |-> [rnd |-> rnd, sub |-> sub, radpnt |-> radpnt, e |-> e]]
Nearby == {"RNDN", "RNDZ", "RNDU"}
Directed == RoundingModes \ {"RNDF"}
Unlimited(rnd) == FloatMode(rnd, BF_PREC_INF, FALSE, FALSE, BF_EXT_EXP_BITS_MAX)

Binary(signs, E) ==
  {BF(s, e, t) : s \in signs, e \in E,
     t \in {<<2>>, <<3>>, <<1, 0, 2>>, <<3, 3, 3>>, <<1, 3, 3>>, <<2, 0, 3>>} \cup {<<x, y>> : x \in {1, 3}, y \in {2, 3}}}
BinaryModes ==
  {FloatMode(r, p, FALSE, FALSE, 6) : r \in Directed, p \in {2, 4}} \cup {FloatMode(r, 3, s, FALSE, 3) : r \in Nearby, s \in BOOLEAN}
    \cup {Unlimited("RNDN")} \cup {FloatMode(r, p, FALSE, TRUE, 6) : r \in {"RNDN", "RNDU"}, p \in {-1, 0, 1}}
Integer(v) ==
  LET n == bf_normalize_and_round(BF(Bit(v < 0), 8, <<>> \o ToLimbs(Abs(v), 4, 4)), BF_PREC_INF, Flags("RNDZ"))
  IN n.r
NumInit ==
  /\ opB = NoMode /\ opMode = NoMode
  /\ \/ numPart = "binary" /\ opA \in Binary({0}, {0})
     \/ numPart = "logic" /\ opA \in -20..20
     \/ numPart = "limbs" /\ opA \in (8..15) \cup (32..63) \cup {512, 515, 767, 1023}
(* The second operand and the mode; the call of the operation.             *)
Operate ==
  /\ opMode = NoMode
  /\ UNCHANGED <<numPart, opA>>
  /\ \/ numPart = "binary" /\ opB' \in Binary({0, 1}, -3..1) /\ opMode' \in BinaryModes
     \/ numPart = "logic" /\ opB' \in -20..20 /\ opMode' = Unlimited("RNDZ")
     \/ numPart = "limbs" /\ opB' \in 0..((IF opA < 16 THEN 1023 ELSE IF opA < 64 THEN 4095 ELSE 65535) \div opA) /\ opMode' = Unlimited("RNDZ")
(* It returns.                                                             *)
Return == opMode # NoMode /\ opB' = NoMode /\ opMode' = NoMode /\ UNCHANGED <<numPart, opA>>

Called(p) == numPart = p /\ opMode # NoMode

(* bf_round, bf_add, bf_sub, bf_mul, bf_div and bf_sqrt deliver the exact  *)
(* result rounded once, in a normalised representation, with the status    *)
(* the exact result calls for, in every rounding mode and at both ends of  *)
(* the exponent range, subnormal numbers included.  A precision after the  *)
(* radix point is for bf_round only.                                       *)
BinaryRounds ==
  Called("binary") =>
    /\ RoundRounds(opB, 12, opMode.prec, opMode.flags)
    /\ opMode.flags.radpnt \/ ( /\ AddRounds(opA, opB, 12, opMode.prec, opMode.flags)
                              /\ MulRounds(opA, opB, opMode.prec, opMode.flags)
                              /\ DivRounds(opA, opB, 12, opMode.prec, opMode.flags)
                              /\ SqrtRounds(opB, 12, opMode.prec, opMode.flags))
(* bf_divrem returns the integer quotient the rounding mode asks for, the  *)
(* Euclidean one included, and the exact remainder that belongs to it.     *)
RemainderBelongs ==
  Called("binary") => DivremExact(opA, opB, 12, opMode.flags.rnd) /\ DivremExact(opB, opA, 12, "EUCLIDIAN")
(* bf_logic_op on sign and magnitude is AND, OR and XOR of the two's       *)
(* complement integers.                                                    *)
LogicIsTwosComplement ==
  Called("logic") => \A op \in {"AND", "OR", "XOR"} : LogicExact(Integer(opA), Integer(opB), op, 8)
(* Division of limb arrays, by digits and by the reciprocal, and the       *)
(* recursive square root return the quotient or the root and the remainder.*)
LimbsExact ==
  Called("limbs") =>
    /\ \A r \in {0, 1, opA - 1}, na \in (IF opA < 64 THEN {5, 6} ELSE {8}) :
         opA * opB + r < 4^na => DivisionExact(opA * opB + r, opA, na, IF opA < 16 THEN 2 ELSE IF opA < 64 THEN 3 ELSE 5)
    /\ opA * opB \in 1024..4095 => RootExact(opA * opB, 3)
    /\ opA * opB \in 64..255 => RootExact(opA * opB, 2)

-----------------------------------------------------------------------------
(***************************************************************************)
(* Unicode: columns of a few runs whose lengths lie on both sides of every *)
(* threshold of the coding, small databases of case conversions,           *)
(* properties and decompositions, and strings over letters, marks of       *)
(* several classes and Hangul.                                             *)
(***************************************************************************)
VARIABLES
  topic,    \* the table asked about, or "string"
  given     \* the column, database or string, empty before it is chosen
UniVars == <<topic, given>>

Has(cr, c) == \E k \in 1..(Len(cr) \div 2) : cr[2 * k - 1] <= c /\ c < cr[2 * k]
(* Runs with these values and lengths.                                     *)
RECURSIVE WithEnds(_, _)
WithEnds(runs, start) ==
  IF runs = <<>> THEN <<>>
  ELSE <<[v |-> runs[1][1], end |-> start + runs[1][2]]>> \o WithEnds(Tail(runs), start + runs[1][2])
Distinct(runs) == \A k \in 1..(Len(runs) - 1) : runs[k][1] # runs[k + 1][1]
Seqs(S, lo, hi) == UNION {[1..n -> S] : n \in lo..hi}
Columns(values, lens, hi) == {WithEnds(runs, 0) : runs \in {r \in Seqs(values \X lens, 1, hi) : Distinct(r)}}
Probes(db) == UNION {{db[k].end - 1, db[k].end} \cup (IF k = 1 THEN {0} ELSE {}) : k \in DOMAIN db}
Within(db) == {c \in Probes(db) : c <= CHARCODE_MAX(db)}

BitRuns == {WithEnds([k \in 1..Len(s) |-> <<(k + 1) % 2, s[k]>>], 0) : s \in Seqs({1, 8, 9, 129, 8193}, 1, 6)}
Categories ==
  Columns({0, Lu, Ll, 5}, {1, 8, 136, 16520}, 3) \cup Columns({0, Lu, Ll}, {1, 2}, 5)
Scripts == Columns({0, Common, Inherited, 3}, {1, 97, 4193}, 2)
Extensions == Columns({<<>>, <<3>>, <<4, 3>>}, {97, 129, 16513}, 2)
Classes0 ==
  {Append(db, [v |-> 0, end |-> db[Len(db)].end + 5]) :
     db \in {d \in Columns({0, 7, 8, 230}, {1, 2, 49, 2097}, 3) \cup Columns({0, 1, 7, 8, 9}, {1}, 5) : d[Len(d)].v # 0}}

(* Case conversions of a character by where they lead.                     *)
CaseOf(u, l, f) == [u |-> u, l |-> l, f |-> f]
PairKinds(c) ==
  {NoCase, CaseOf(<<>>, <<c + 1>>, c + 1), CaseOf(<<c - 1>>, <<>>, 0), CaseOf(<<>>, <<c + 2>>, c + 2), CaseOf(<<c - 2>>, <<>>, 0),
   CaseOf(<<c - 1>>, <<c + 1>>, c + 1)}
OtherKinds(c) ==
  {NoCase, CaseOf(<<c + 100, Iota>>, <<>>, 0), CaseOf(<<c + 100, Iota>>, <<c - 8>>, c - 8), CaseOf(<<200>>, <<>>, 200),
   CaseOf(<<c + 1>>, <<>>, c + 1), CaseOf(<<c - 1>>, <<>>, c - 1), CaseOf(<<400>>, <<>>, 0), CaseOf(<<>>, <<400>>, 400), CaseOf(<<>>, <<c - 1>>, 0),
   CaseOf(<<>>, <<200>>, 0), CaseOf(<<500>>, <<>>, 532), CaseOf(<<500>>, <<>>, 501), CaseOf(<<>>, <<105, 775>>, 0),
   CaseOf(<<83, 83>>, <<>>, 0), CaseOf(<<70, 70, 73>>, <<>>, 0), CaseOf(<<>>, <<c + 1>>, c + 1)}
CaseBases ==
  {db \in [200..204 -> UNION {PairKinds(c) : c \in 200..204}] : \A c \in 200..204 : db[c] \in PairKinds(c)}
(* A run is known by its first character, which its kind does not check,   *)
(* and a target outside the table is kept for one character only: a        *)
(* database that needs more than that is not one the tables can hold.      *)
Encodable(tab, s) ==
  /\ s.ok
  /\ \A i \in DOMAIN s.conv :
       LET te == s.conv[i]
           ci == tab[te.code]
       IN /\ te.type \in {"U_EXT", "LF_EXT"} => te.len = 1
          /\ te.type = "UF" => (Len(ci.u) = 1 /\ ci.l = <<>> /\ ci.f = ci.u[1])

(* A database in which one character varies.                               *)
Char0 == [gc |-> 0, props |-> {}, u |-> <<>>, l |-> <<>>, f |-> 0]
Others ==
  {{}, {"Other_Math"}, {"Other_Lowercase"}, {"Other_Uppercase"}, {"Other_Alphabetic"}, {"Other_Grapheme_Extend"},
   {"Other_ID_Start"}, {"Other_ID_Continue"}, {"Pattern_Syntax"}, {"Pattern_White_Space", "Other_ID_Start"}, {"Case_Ignorable", "NoXID"},
   {"NoXIDStart", "Other_ID_Start"}}
Changes == {{}, {"Changes_When_Titlecased"}, {"Changes_When_Casefolded", "Changes_When_NFKC_Casefolded"}}
(* The derived properties as the standard defines them (UAX 44).           *)
InCategory(ci, names) == ci.gc \in M(names)
DerivedSet(ci) ==
  LET p == ci.props
      pattern == p \cap {"Pattern_Syntax", "Pattern_White_Space"} # {}
      lower == InCategory(ci, {"Ll"}) \/ "Other_Lowercase" \in p
      upper == InCategory(ci, {"Lu"}) \/ "Other_Uppercase" \in p
      start == (InCategory(ci, Letters5) \/ "Other_ID_Start" \in p) /\ ~pattern
      continue == (InCategory(ci, Letters5 \cup {"Mn", "Mc", "Nd", "Pc"}) \/ p \cap {"Other_ID_Start", "Other_ID_Continue"} # {}) /\ ~pattern
      extend == InCategory(ci, {"Me", "Mn"}) \/ "Other_Grapheme_Extend" \in p
      named(b, name) == IF b THEN {name} ELSE {}
  IN (p \ {"NoXID", "NoXIDStart"})
     \cup named(~InCategory(ci, {"Cn"}), "Assigned") \cup named(InCategory(ci, {"Sm"}) \/ "Other_Math" \in p, "Math")
     \cup named(lower, "Lowercase") \cup named(upper, "Uppercase") \cup named(lower \/ upper \/ InCategory(ci, {"Lt"}), "Cased")
     \cup named(InCategory(ci, Letters5) \/ lower \/ upper \/ "Other_Alphabetic" \in p, "Alphabetic")
     \cup named(extend, "Grapheme_Extend")
     \cup named(~extend /\ ~InCategory(ci, {"Cc", "Cf", "Cs", "Co", "Cn", "Zl", "Zp"}), "Grapheme_Base")
     \cup named(start, "ID_Start") \cup named(continue, "ID_Continue")
     \cup named(start /\ {"NoXID", "NoXIDStart"} \cap p = {}, "XID_Start") \cup named(continue /\ "NoXID" \notin p, "XID_Continue")
     \cup named(ci.u # <<>>, "Changes_When_Uppercased") \cup named(ci.l # <<>>, "Changes_When_Lowercased")
     \cup named(HasCase(ci), "Changes_When_Casemapped")
CharKinds ==
  {[gc |-> GcNumber[g], props |-> o \cup w, u |-> cs.u, l |-> cs.l, f |-> cs.f] :
     g \in {"Cn", "Lu", "Ll", "Lt", "Mn", "Mc", "Nd", "Nl", "Sm", "Zl"}, o \in Others, w \in Changes,
     cs \in {NoCase, CaseOf(<<>>, <<400>>, 400), CaseOf(<<400>>, <<>>, 0)}}
(* A character that changes case has a cased category.                     *)
CharBases ==
  {[c \in 0..3 |-> IF c = 0 THEN Char0 ELSE LET k == IF c = 2 THEN ci ELSE cj IN [k EXCEPT !.props = DerivedSet(k)]] :
     ci \in {k \in CharKinds : HasCase(k) => "Cased" \in DerivedSet(k)},
     cj \in {Char0, [gc |-> 1, props |-> {"Case_Ignorable"}, u |-> <<>>, l |-> <<401>>, f |-> 401]}}

(* Decompositions by where the character stands.                           *)
Canon(d) == [d |-> d, compat |-> FALSE, excl |-> FALSE]
Compat(d) == [d |-> d, compat |-> TRUE, excl |-> FALSE]
ShortKinds(c) ==
  {Canon(<<>>), Canon(<<65 + c>>), Canon(<<65 + c \div 2 + (IF c % 2 = 1 THEN 32 ELSE 0), 768>>), Canon(<<7680 + c, 769>>),
   Compat(<<32, 1600 + c>>), [d |-> <<7680 - c, 803>>, compat |-> FALSE, excl |-> TRUE], Compat(<<40, 65 + c, 41>>),
   Canon(<<1040 + c \div 2 + (IF c % 2 = 1 THEN 32 ELSE 0), 774>>)}
LongKinds(c) ==
  {Canon(<<>>), Canon(<<70000 + c>>), Canon(<<70000, 65000 + c>>), Compat(<<9000 - 300 * c>>), Compat(<<4096 - c, 8260, 9000>>),
   Compat([k \in 1..18 |-> IF k % 3 = 0 THEN 32 ELSE 1500 + k * c]), Compat([k \in 1..8 |-> 1500 + 10 * k]),
   Compat([k \in 1..4 |-> IF k = 3 THEN 2000 + c ELSE 5000 * k]), Canon(<<66304 + c, 768>>), Compat(<<49, 8260, 50>>)}
DecompBases ==
  {db \in [0..3 -> UNION {ShortKinds(c) : c \in 0..3}] : \A c \in 0..3 : db[c] \in ShortKinds(c)}
    \cup {db \in [0..2 -> UNION {LongKinds(c) : c \in 0..2}] : \A c \in 0..2 : db[c] \in LongKinds(c)}
OnePair(db) == \A a, b \in Composable(db) : db[a].d = db[b].d => a = b

(* A letter with marks of two classes, a decomposition in two steps, an    *)
(* excluded composite, a singleton, a compatibility character; Hangul.     *)
MCDecomp ==
  [c \in {192, 194, 7840, 7852, 2392, 8491, 64257} |->
     CASE c = 192 -> Canon(<<65, 768>>) [] c = 194 -> Canon(<<65, 770>>) [] c = 7840 -> Canon(<<65, 803>>)
       [] c = 7852 -> Canon(<<7840, 770>>) [] c = 2392 -> [d |-> <<2325, 2364>>, compat |-> FALSE, excl |-> TRUE]
       [] c = 8491 -> Canon(<<194>>) [] c = 64257 -> Compat(<<102, 192>>)]
MCClass == (768 :> 230) @@ (770 :> 230) @@ (803 :> 220) @@ (2364 :> 7)
Marked == {65, 768, 770, 803, 2364, 192, 7840, 8491}
Hangul == {LBase, VBase, TBase, TBase + 1, SBase, SBase + 1, 768}
Strings == Seqs(Marked, 1, 3) \cup Seqs({65, 768, 770, 803, 192}, 4, 4) \cup Seqs(Hangul, 1, 3) \cup Seqs({65, 768, 2392, 64257, 7852, 194}, 1, 3) \cup {<<>>}
(* U+11A7, one before the first trailing consonant, composes with a        *)
(* syllable and is lost.                                                   *)
LostTrailing(s) == \E i \in DOMAIN s : s[i] = TBase

Topics == {"bits", "categories", "scripts", "classes", "case", "chars", "decompositions", "string"}
UniInit == topic \in Topics /\ given = <<>>
Choose(t, S) == topic = t /\ given = <<>> /\ UNCHANGED topic /\ \E x \in S : given' = <<x>>
ChooseBits == Choose("bits", BitRuns)
ChooseCategories == Choose("categories", Categories)
ChooseScripts == Choose("scripts", {[script |-> s, ext |-> e] : s \in Scripts, e \in Extensions})
ChooseClasses == Choose("classes", Classes0)
ChooseCase ==
  \/ Choose("case", CaseBases)
  \/ \E k0 \in OtherKinds(200), k1 \in OtherKinds(201), k2 \in OtherKinds(202) :
       Choose("case", {(200 :> k0) @@ (201 :> k1) @@ (202 :> k2)})
ChooseChars == Choose("chars", CharBases)
ChooseDecompositions == Choose("decompositions", {db \in DecompBases : OnePair(db)})
ChooseString == Choose("string", Strings)
UniNext ==
  \/ ChooseBits \/ ChooseCategories \/ ChooseScripts \/ ChooseClasses \/ ChooseCase
  \/ ChooseChars \/ ChooseDecompositions \/ ChooseString
Asked(t) == topic = t /\ given # <<>>
input == given[1]
(* The tables have been read.                                              *)
Read == given # <<>> /\ given' = <<>> /\ UNCHANGED topic

-----------------------------------------------------------------------------
(* Binary properties: every character is found in the table, through its   *)
(* index or by listing the intervals, exactly when it has the property     *)
(* (build_prop_table, lre_is_in_table, unicode_prop1).                     *)
PropertyTablesExact ==
  Asked("bits") =>
    LET tab == build_prop_table(input, TRUE)
        cr == unicode_prop1(build_prop_table(input, FALSE).table)
        plain == build_prop_table(input, FALSE).table
    IN tab.ok => /\ tab.table = plain
                 /\ \A c \in Within(input) : lre_is_in_table(c, tab) = (RunAt(input, c) = 1) /\ Has(cr, c) = (RunAt(input, c) = 1)
                 /\ ~lre_is_in_table(CHARCODE_MAX(input) + 1, tab)

(* General categories: the intervals of a set of categories hold exactly   *)
(* its characters, also inside runs of alternating capital and small       *)
(* letters (build_general_category_table, unicode_general_category1).      *)
CategoryTableExact ==
  Asked("categories") =>
    LET t == build_general_category_table(input)
    IN \A mask \in {{0}, {Lu}, {Ll}, {Lu, Ll}, {5}, {Ll, 5}, {Lu, 0}} :
         LET cr == unicode_general_category1(t, mask)
         IN \A c \in Within(input) : Has(cr, c) = (RunAt(input, c) \in mask)

(* Scripts: Script holds the characters of the script; Script_Extensions   *)
(* the ones whose list of scripts, or script when they have no list,       *)
(* contains it (build_script_table, build_script_ext_table,                *)
(* unicode_script).                                                        *)
ScriptTablesExact ==
  Asked("scripts") =>
    LET s == input.script
        e == input.ext
        t == build_script_table(s)
        te == build_script_ext_table(e)
        last == IF CHARCODE_MAX(s) < CHARCODE_MAX(e) THEN CHARCODE_MAX(s) ELSE CHARCODE_MAX(e)
        points == {c \in Probes(s) \cup Probes(e) : c <= last}
        list(c) == {RunAt(e, c)[k] : k \in DOMAIN RunAt(e, c)}
        proper(c) == list(c) # {} => RunAt(s, c) \in {Common, Inherited} \cup list(c)
    IN \A sc \in {Common, Inherited, 3, 4} : \A c \in points :
         /\ Has(unicode_script(t, te, sc, FALSE), c) = (RunAt(s, c) = sc)
         /\ proper(c) => Has(unicode_script(t, te, sc, TRUE), c) = (sc \in IF list(c) = {} THEN {RunAt(s, c)} ELSE list(c))

(* Canonical combining classes: the class found is the one of the          *)
(* database, for runs of up to 2^16 + 2096 characters (build_cc_table,     *)
(* unicode_get_cc).                                                        *)
ClassTableExact ==
  Asked("classes") =>
    LET tab == build_cc_table(input)
    IN \A c \in Within(input) : unicode_get_cc(c, tab) = RunAt(input, c)

(* Case conversion of every character is the database's, in the three      *)
(* directions, and the intervals of unicode_case1 hold exactly the         *)
(* characters a conversion changes (build_conv_table, lre_case_conv).      *)
CaseTablesExact ==
  Asked("case") =>
    LET s == build_conv_table(input)
        T == dump_case_conv_table(s)
        orSelf(x, c) == IF x = <<>> THEN <<c>> ELSE x
        changed(c) == (IF input[c].u # <<>> THEN {"U"} ELSE {}) \cup (IF input[c].l # <<>> THEN {"L"} ELSE {})
                        \cup (IF input[c].f # 0 THEN {"F"} ELSE {})
    IN Encodable(input, s) =>
         \A c \in DOMAIN input :
           /\ lre_case_conv(T, c, 0) = orSelf(input[c].u, c)
           /\ lre_case_conv(T, c, 1) = orSelf(input[c].l, c)
           /\ lre_case_conv(T, c, 2) = (IF input[c].f = 0 THEN <<c>> ELSE <<input[c].f>>)
           /\ \A mask \in SUBSET {"U", "L", "F"} : Has(unicode_case1(T, mask), c) = (changed(c) \cap mask # {})

(* A property of \p{...} holds for exactly the characters that have it by  *)
(* the standard's definition, whether it is a table, a difference with a   *)
(* table or a computation, and no assertion of the stack machine fails     *)
(* (compute_internal_props, unicode_prop, lre_is_id_continue).             *)
PropertiesExact ==
  Asked("chars") =>
    LET T == BuildTables(input)
    IN /\ \A name \in DOMAIN Program :
            LET r == unicode_prop(T, name)
            IN r.ok /\ \A c \in DOMAIN input : Has(r.cr, c) = (name \in input[c].props)
       /\ \A c \in DOMAIN input :
            /\ lre_is_cased(T, c) = ("Cased" \in input[c].props)
            /\ lre_is_id_start(T, c) = ("ID_Start" \in input[c].props)
            /\ lre_is_id_continue(T, c) = ("ID_Continue" \in input[c].props)
            /\ lre_is_case_ignorable(T, c) = ("Case_Ignorable" \in input[c].props)

(* Every character decomposes as in the database whatever encoding its run *)
(* was input, and a pair composes to the character that decomposes into it *)
(* unless that is excluded (build_decompose_table, unicode_decomp_char,    *)
(* build_compose_table, unicode_compose_pair).                             *)
DecompositionsExact ==
  Asked("decompositions") =>
    LET T == build_decompose_table(input)
        comp == build_compose_table(input, T.table1)
        pairs == {input[c].d : c \in {c \in DOMAIN input : Len(input[c].d) = 2}}
    IN /\ \A c \in 0..(LastCode(input) + 1), k \in BOOLEAN :
            unicode_decomp_char(T, c, k) = (IF c \in DOMAIN input /\ (input[c].compat => k) THEN input[c].d ELSE <<>>)
       /\ comp.ok => \A p \in pairs :
            unicode_compose_pair(T, comp.table, p[1], p[2]) =
              (IF \E c \in Composable(input) : input[c].d = p THEN CHOOSE c \in Composable(input) : input[c].d = p ELSE 0)

(* The normal forms: the decomposed one is the full decomposition in       *)
(* canonical order; the composed one is equivalent to it, leaves nothing   *)
(* to compose and is its own normal form (unicode_normalize).              *)
NormalFormsExact ==
  Asked("string") =>
    LET nf(n_type) == unicode_normalize(input, n_type)
        decomposed(n_type, compat) ==
          /\ FullyDecomposed(nf(n_type), compat) /\ InOrder(nf(n_type))
          /\ SameUpToOrder(nf(n_type), to_nfd_rec(input, compat))
        composed(n_type, d_type) ==
          /\ unicode_normalize(nf(n_type), d_type) = nf(d_type)
          /\ unicode_normalize(nf(n_type), n_type) = nf(n_type)
          /\ unicode_normalize(nf(d_type), n_type) = nf(n_type)
          /\ FullyComposed(nf(n_type))
          /\ \A i \in DOMAIN nf(n_type) : nf(n_type)[i] \notin {c \in DOMAIN Decomp : Decomp[c].excl \/ Len(Decomp[c].d) = 1}
    IN /\ decomposed("NFD", FALSE) /\ decomposed("NFKD", TRUE)
       /\ ~LostTrailing(input) => composed("NFC", "NFD") /\ composed("NFKC", "NFKD")

-----------------------------------------------------------------------------
VARIABLE area
libraryVars == <<area, nvars, UniVars>>

MCInit ==
  \/ area = "numbers" /\ NumInit /\ topic = "none" /\ given = <<>>
  \/ area = "unicode" /\ UniInit
     /\ numPart = "none" /\ opA = NoMode /\ opB = NoMode /\ opMode = NoMode
MCNext ==
  \/ area = "numbers" /\ (Operate \/ Return) /\ UNCHANGED <<area, UniVars>>
  \/ area = "unicode" /\ (UniNext \/ Read) /\ UNCHANGED <<area, nvars>>
MCSpec == MCInit /\ [][MCNext]_libraryVars

(* The arithmetic of libbf.c (sum, product, quotient, remainder, root,     *)
(* bitwise operations, and the arrays of limbs below them) is exact up to  *)
(* one rounding.  The transcendental functions are not among them.         *)
ArithmeticExact ==
  [][Return => BinaryRounds /\ RemainderBelongs /\ LogicIsTwosComplement /\ LimbsExact]_libraryVars

(* The compressed tables of libunicode.c hold what the database they were  *)
(* made from says, and strings get their normal forms.                     *)
UnicodeExact ==
  [][Read =>
      /\ PropertyTablesExact /\ CategoryTableExact /\ ScriptTablesExact /\ ClassTableExact
      /\ CaseTablesExact /\ PropertiesExact /\ DecompositionsExact /\ NormalFormsExact]_libraryVars
=============================================================================
