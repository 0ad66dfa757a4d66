----------------------------- MODULE BinaryObject -----------------------------
(***************************************************************************)
(* JSObjectList: the objects met while writing an object graph, in order,  *)
(* and a hash table with chaining to find the index of one.  An object is  *)
(* its address; the table is rebuilt when it gets full.  -1 ends a chain.  *)
(***************************************************************************)
EXTENDS Integers, Sequences, SequencesExt

CONSTANT HASH_FACTOR    \* 3163

js_object_list_init == [tab |-> <<>>, next |-> <<>>, hash |-> <<>>]
js_object_list_get_hash(p, size) == (p * HASH_FACTOR) % size

(* Entry i, counted from 0, becomes the head of its chain.                 *)
Linked(s, i, p) ==
    LET h == js_object_list_get_hash(p, Len(s.hash)) + 1 IN
    [s EXCEPT !.next[i + 1] = s.hash[h], !.hash[h] = i]

js_object_list_resize_hash(s, size) ==
    LET empty == [s EXCEPT !.hash = [i \in 1..size |-> -1]]
        f[i \in 0..Len(s.tab)] == IF i = 0 THEN empty ELSE Linked(f[i - 1], i - 1, s.tab[i])
    IN  f[Len(s.tab)]

RECURSIVE GrownSize(_, _)
GrownSize(size, count) == IF size <= count THEN GrownSize(size * 2, count) ELSE size

js_object_list_add(s, p) ==
    LET count == Len(s.tab)
        size == Len(s.hash)
        room == IF count + 1 >= size
                THEN js_object_list_resize_hash(s, GrownSize(IF size > 4 THEN size ELSE 4, count)) ELSE s
    IN  Linked([room EXCEPT !.tab = Append(@, p), !.next = Append(@, -1)], count, p)

RECURSIVE FollowChain(_, _, _)
FollowChain(s, i, p) ==
    IF i = -1 \/ s.tab[i + 1] = p THEN i ELSE FollowChain(s, s.next[i + 1], p)
js_object_list_find(s, p) ==
    IF s.tab = <<>> THEN -1
    ELSE FollowChain(s, s.hash[js_object_list_get_hash(p, Len(s.hash)) + 1], p)

(* An object is found under the index it was added with, and one that was  *)
(* not added is not found, whatever the collisions and the size of the     *)
(* table: the writer emits this index as an object reference and the       *)
(* reader counts the objects in the same order.                            *)
FindsExactly(s, addresses) ==
    \A p \in addresses :
        js_object_list_find(s, p) =
            IF \E i \in DOMAIN s.tab : s.tab[i] = p THEN (CHOOSE i \in DOMAIN s.tab : s.tab[i] = p) - 1 ELSE -1
-----------------------------------------------------------------------------
(***************************************************************************)
(* The binary form of values: JS_WriteObject2 turns a value, the objects   *)
(* it reaches and, if allowed, compiled functions and modules into bytes,  *)
(* JS_ReadObject builds them again, often in another runtime (a worker, a  *)
(* later process), whose atoms have other numbers, or on a machine of the  *)
(* other byte order.                                                       *)
(*                                                                         *)
(* A value is a tuple that begins with its tag: <<"null">>, <<"undefined">>*)
(* <<"bool", 0 or 1>>, <<"int", n>>, <<"float", its 8 bytes>>,             *)
(* <<"string", str>>, <<"big", num>>, <<"function", f>>, <<"module", m>>,  *)
(* <<"object", p>>; a heap maps p to the object.  A 32 bit word is scaled  *)
(* down to WORD values, so that it fits TLC's integers.  An element of an  *)
(* array is a data property; <<"hole">> is an absent one.                  *)
(***************************************************************************)

CONSTANTS WORD,             \* the number of values of a word
          LEB_MAX,          \* the bytes a word takes at most, 5 in the code
          JS_ATOM_END,      \* the first atom that is not predefined
          JS_ATOM_TAG_INT,  \* added to the number of an atom that is an integer
          LIMB_BYTES, BCD_DIGITS,
          OpInfo,           \* size and operand format of every opcode
          STACK_MAX         \* nested calls before js_check_stack_overflow

BC_VERSION == 2
BC_BE_VERSION == 64
Tags == <<"null", "undefined", "false", "true", "int", "float", "string", "object", "array", "bigint",
          "bigfloat", "bigdecimal", "template", "function", "module", "typed", "buffer", "sab", "date",
          "boxed", "reference">>
Tag(name) == CHOOSE i \in DOMAIN Tags : Tags[i] = name

(* The object of a class.  items: the elements, the primitive inside a     *)
(* date or a wrapper, the buffer of a typed array; addr: where the bytes   *)
(* of a SharedArrayBuffer are.                                             *)
JSObject(class) == [class |-> class, extensible |-> TRUE, items |-> <<>>, raw |-> <<>>, props |-> <<>>,
                    bytes |-> <<>>, kind |-> 0, count |-> 0, offset |-> 0, addr |-> 0, detached |-> FALSE]
Undef == <<"undefined">>
IsTaggedInt(atom) == atom >= JS_ATOM_TAG_INT
-----------------------------------------------------------------------------
(* Words and their bytes.                                                  *)
RECURSIVE LebBytes(_)
LebBytes(v) == IF v \div 128 # 0 THEN <<(v % 128) + 128>> \o LebBytes(v \div 128) ELSE <<v % 128>>
ZigZag(v) == IF v < 0 THEN (0 - 2 * v) - 1 ELSE 2 * v
UnZigZag(u) == IF u % 2 = 1 THEN (0 - u \div 2) - 1 ELSE u \div 2
Unsigned(v) == v % WORD
AsInt(u) == IF u >= WORD \div 2 THEN u - WORD ELSE u

(* The value in the bytes from pos on, and how many there were; none when  *)
(* they end too early.                                                     *)
RECURSIVE get_leb128(_, _, _)
get_leb128(buf, pos, i) ==
    IF i = LEB_MAX \/ pos >= Len(buf) THEN <<>>
    ELSE LET a == buf[pos + 1]
             rest == get_leb128(buf, pos + 1, i + 1)
         IN  IF a < 128 THEN <<a, 1>>
             ELSE IF rest = <<>> THEN <<>> ELSE <<((a - 128) + 128 * rest[1]) % WORD, rest[2] + 1>>

Bytes2(v) == <<v % 256, v \div 256>>
Bytes4(v) == <<v % 256, (v \div 256) % 256, (v \div 65536) % 256, v \div 16777216>>
Bytes8(v) == Bytes4(v) \o <<0, 0, 0, 0>>
Number(bytes) == LET f[i \in 0..Len(bytes)] == IF i = 0 THEN 0 ELSE bytes[Len(bytes) + 1 - i] + 256 * f[i - 1]
                 IN  f[Len(bytes)]

(* Fields of the given widths packed into one number, the first lowest.    *)
Shift(widths, i) == LET f[k \in 0..Len(widths)] == IF k = 0 THEN 0 ELSE widths[k] + f[k - 1] IN f[i - 1]
bc_set_flags(vals, widths) ==
    LET f[i \in 0..Len(vals)] == IF i = 0 THEN 0 ELSE f[i - 1] + vals[i] * 2 ^ Shift(widths, i) IN f[Len(vals)]
bc_get_flags(flags, widths) ==
    [i \in DOMAIN widths |-> (flags \div 2 ^ Shift(widths, i)) % 2 ^ widths[i]]
FunctionFlags == <<1, 1, 1, 1, 2, 1, 1, 1, 1, 1, 1, 1>>
HasDebug(flags) == flags[11] = 1
VarFlags == <<4, 1, 1, 1, 1>>
ClosureFlags == <<1, 1, 1, 1, 4>>
-----------------------------------------------------------------------------
(* The writer.  s holds the bytes so far, the atoms met (idx_to_atom), the *)
(* objects met, the objects being written (tmp_mark), the addresses of the *)
(* shared buffers met (sab_tab), the flags, and the runtime it reads.      *)
Writer(rt, flags) ==
    [rt |-> rt, flags |-> flags, buf |-> <<>>, idx_to_atom |-> <<>>, list |-> js_object_list_init,
     marks |-> {}, sab_tab |-> <<>>, error |-> ""]
first_atom(flags) == IF "bytecode" \in flags THEN JS_ATOM_END ELSE 1

Put(s, bytes) == IF s.error # "" THEN s ELSE [s EXCEPT !.buf = @ \o bytes]
PutTag(s, name) == Put(s, <<Tag(name)>>)
Swap(s, bytes) == IF "bswap" \in s.flags THEN Reverse(bytes) ELSE bytes
bc_put_leb128(s, v) == Put(s, LebBytes(Unsigned(v)))
bc_put_sleb128(s, v) == Put(s, LebBytes(ZigZag(v)))
PutEach(s, seq, Op(_, _)) ==
    LET f[i \in 0..Len(seq)] ==
            IF i = 0 THEN s
            ELSE LET before == f[i - 1] IN IF before.error # "" THEN before ELSE Op(before, seq[i])
    IN  IF s.error # "" THEN s ELSE f[Len(seq)]
Failed(s, error) == IF s.error # "" THEN s ELSE [s EXCEPT !.error = error]

(* The number an atom is written as: its own when it is predefined or an   *)
(* integer, otherwise its place in the table of atoms.                     *)
bc_atom_to_idx(s, atom) ==
    LET first == first_atom(s.flags)
        known == {i \in DOMAIN s.idx_to_atom : s.idx_to_atom[i] = atom}
    IN  IF atom < first \/ IsTaggedInt(atom) THEN [state |-> s, idx |-> atom]
        ELSE IF known # {} THEN [state |-> s, idx |-> (CHOOSE i \in known : TRUE) - 1 + first]
        ELSE [state |-> [s EXCEPT !.idx_to_atom = Append(@, atom)], idx |-> Len(s.idx_to_atom) + first]
bc_put_atom(s, atom) ==
    LET r == bc_atom_to_idx(s, atom) IN
    IF IsTaggedInt(atom) THEN bc_put_leb128(s, 2 * (atom - JS_ATOM_TAG_INT) + 1)
    ELSE bc_put_leb128(r.state, 2 * r.idx)

(* A string is [wide, units].                                              *)
JS_WriteString(s, str) ==
    LET bytes == IF str.wide THEN FlattenSeq([i \in DOMAIN str.units |-> Swap(s, Bytes2(str.units[i]))])
                 ELSE str.units
    IN  Put(bc_put_leb128(s, 2 * Len(str.units) + (IF str.wide THEN 1 ELSE 0)), bytes)

(* The operands of an instruction, for the other byte order.               *)
SwapAt(code, pos, size) ==
    [i \in DOMAIN code |-> IF i - pos \in 1..size THEN code[2 * pos + size + 1 - i] ELSE code[i]]
RECURSIVE bc_byte_swap(_, _)
bc_byte_swap(code, pos) ==
    IF pos >= Len(code) THEN code
    ELSE LET info == OpInfo[code[pos + 1]]
             at == pos + 1
             swapped ==
                CASE info.fmt \in {"u16", "i16", "label16", "npop", "loc", "arg", "var_ref"} -> SwapAt(code, at, 2)
                  [] info.fmt \in {"i32", "u32", "const", "label", "atom", "atom_u8"} -> SwapAt(code, at, 4)
                  [] info.fmt \in {"atom_u16", "label_u16"} -> SwapAt(SwapAt(code, at, 4), at + 4, 2)
                  [] info.fmt = "atom_label_u8" -> SwapAt(SwapAt(code, at, 4), at + 4, 4)
                  [] info.fmt = "atom_label_u16" -> SwapAt(SwapAt(SwapAt(code, at, 4), at + 4, 4), at + 8, 2)
                  [] info.fmt = "npop_u16" -> SwapAt(SwapAt(code, at, 2), at + 2, 2)
                  [] OTHER -> code
         IN  bc_byte_swap(swapped, pos + info.size)

HasAtom(fmt) == fmt \in {"atom", "atom_u8", "atom_u16", "atom_label_u8", "atom_label_u16"}
(* The atom operands from pos on replaced by their index.                  *)
RECURSIVE IndexAtoms(_, _, _)
IndexAtoms(s, code, pos) ==
    IF pos >= Len(code) THEN [state |-> s, code |-> code]
    ELSE LET info == OpInfo[code[pos + 1]]
             r == bc_atom_to_idx(s, Number(SubSeq(code, pos + 2, pos + 5)))
         IN  IF HasAtom(info.fmt)
             THEN IndexAtoms(r.state, SubSeq(code, 1, pos + 1) \o Bytes4(r.idx) \o SubSeq(code, pos + 6, Len(code)),
                             pos + info.size)
             ELSE IndexAtoms(s, code, pos + info.size)
JS_WriteFunctionBytecode(s, code) ==
    LET r == IndexAtoms(s, code, 0) IN
    Put(r.state, IF "bswap" \in s.flags THEN bc_byte_swap(r.code, 0) ELSE r.code)

(* num = [type, sign, kind, expn, limbs]: kind is "zero", "inf", "nan" or  *)
(* "finite", a limb the sequence of its bytes, of its digits if decimal.   *)
Zeros(seq) == CHOOSE n \in 0..Len(seq) : (\A i \in 1..n : seq[i] = 0) /\ (n < Len(seq) => seq[n + 1] # 0)
Nibbles(digits) ==
    [i \in 1..((Len(digits) + 1) \div 2) |->
        digits[2 * i - 1] + 16 * (IF 2 * i <= Len(digits) THEN digits[2 * i] ELSE 0)]
JS_WriteBigNum(s, num) ==
    LET e == CASE num.kind = "zero" -> 0 [] num.kind = "inf" -> 1 [] num.kind = "nan" -> 2
               [] OTHER -> IF num.expn >= 0 THEN num.expn + 3 ELSE num.expn
        signed == 2 * e + num.sign
        s1 == bc_put_sleb128(PutTag(s, num.type), signed)
        i0 == CHOOSE i \in DOMAIN num.limbs :
                 Zeros(num.limbs[i]) < Len(num.limbs[i]) /\ \A j \in 1..(i - 1) : Zeros(num.limbs[j]) = Len(num.limbs[j])
        low == SubSeq(num.limbs[i0], Zeros(num.limbs[i0]) + 1, Len(num.limbs[i0]))
        rest == low \o FlattenSeq(SubSeq(num.limbs, i0 + 1, Len(num.limbs)))
        digits == Len(num.limbs) * BCD_DIGITS - Zeros(num.limbs[i0])
    IN  CASE signed < 0 - WORD \div 2 \/ signed >= WORD \div 2 -> Failed(PutTag(s, num.type), "InternalError")
          [] OTHER -> IF num.limbs = <<>> THEN s1
                      ELSE IF num.type # "bigdecimal" THEN Put(bc_put_leb128(s1, Len(rest)), rest)
                      ELSE Put(bc_put_leb128(s1, digits), Nibbles(rest))

RECURSIVE JS_WriteObjectRec(_, _, _)
(* f = [flags, js_mode, name, counts, vars, closures, code, debug, cpool]; *)
(* counts are those of arguments, variables, defined arguments and stack   *)
(* slots; vars is empty when the names were stripped.                      *)
WriteVar(s, vd) ==
    LET s1 == bc_put_leb128(bc_put_atom(s, vd.name), vd.scope_level)
    IN  Put(bc_put_leb128(s1, vd.scope_next + 1), <<bc_set_flags(vd.flags, VarFlags)>>)
WriteClosureVar(s, cv) ==
    Put(bc_put_leb128(bc_put_atom(s, cv.name), cv.var_idx), <<bc_set_flags(cv.flags, ClosureFlags)>>)
JS_WriteFunctionTag(s, f, depth) ==
    LET s1 == Put(PutTag(s, "function"), Swap(s, Bytes2(bc_set_flags(f.flags, FunctionFlags))) \o <<f.js_mode>>)
        s2 == PutEach(bc_put_atom(s1, f.name),
                      f.counts \o <<Len(f.closures), Len(f.cpool), Len(f.code), Len(f.vars)>>, bc_put_leb128)
        s3 == PutEach(PutEach(s2, f.vars, WriteVar), f.closures, WriteClosureVar)
        s4 == JS_WriteFunctionBytecode(s3, f.code)
        s5 == IF ~ HasDebug(f.flags) THEN s4
              ELSE Put(PutEach(bc_put_atom(s4, f.debug.filename),
                               <<f.debug.line_num, Len(f.debug.pc2line)>>, bc_put_leb128), f.debug.pc2line)
        Const(w, v) == JS_WriteObjectRec(w, v, depth)
    IN  PutEach(s5, f.cpool, Const)

(* m = [name, requires, exports, stars, imports, func].                    *)
WriteExport(s, me) ==
    LET s1 == bc_put_leb128(Put(s, <<IF me.local THEN 0 ELSE 1>>), me.idx)
    IN  bc_put_atom(IF me.local THEN s1 ELSE bc_put_atom(s1, me.local_name), me.export_name)
WriteImport(s, mi) == bc_put_leb128(bc_put_atom(bc_put_leb128(s, mi.var_idx), mi.import_name), mi.req_module_idx)
JS_WriteModule(s, m, depth) ==
    LET Counted(w, seq, Op(_, _)) == PutEach(bc_put_leb128(w, Len(seq)), seq, Op)
        s1 == Counted(bc_put_atom(PutTag(s, "module"), m.name), m.requires, bc_put_atom)
        s2 == Counted(Counted(s1, m.exports, WriteExport), m.stars, bc_put_leb128)
    IN  JS_WriteObjectRec(Counted(s2, m.imports, WriteImport), m.func, depth)

(* An array that cannot be extended is a template object in bytecode.  A   *)
(* hole reads as undefined.                                                *)
JS_WriteArray(s, o, depth) ==
    LET template == "bytecode" \in s.flags /\ ~ o.extensible
        Elem(w, v) == JS_WriteObjectRec(w, IF v = <<"hole">> THEN Undef ELSE v, depth)
        s1 == PutEach(bc_put_leb128(PutTag(s, IF template THEN "template" ELSE "array"), Len(o.items)), o.items, Elem)
    IN  IF template THEN JS_WriteObjectRec(s1, IF o.raw = <<>> THEN Undef ELSE o.raw[1], depth) ELSE s1

(* The enumerable properties named by strings, all of them data.  They are *)
(* looked at twice: to count them and to write them.                       *)
JS_WriteObjectTag(s, o, depth) ==
    LET kept == SelectSeq(o.props, LAMBDA pr : pr.enumerable /\ pr.name \notin s.rt.symbols)
        WriteProp(w, pr) == JS_WriteObjectRec(bc_put_atom(w, pr.name), pr.value, depth)
    IN  IF \E i \in DOMAIN kept : kept[i].accessor THEN Failed(PutTag(s, "object"), "TypeError")
        ELSE PutEach(bc_put_leb128(PutTag(s, "object"), Len(kept)), kept, WriteProp)

JS_WriteTypedArray(s, o, depth) ==
    JS_WriteObjectRec(bc_put_leb128(bc_put_leb128(Put(PutTag(s, "typed"), <<o.kind>>), o.count), o.offset),
                      o.items[1], depth)
JS_WriteArrayBuffer(s, o) ==
    IF o.detached THEN Failed(s, "TypeError") ELSE Put(bc_put_leb128(PutTag(s, "buffer"), Len(o.bytes)), o.bytes)

JS_WriteSharedArrayBuffer(s, o) ==
    LET s1 == Put(bc_put_leb128(PutTag(s, "sab"), o.count), Swap(s, Bytes8(o.addr)))
    IN  [s1 EXCEPT !.sab_tab = Append(@, o.addr)]

Refused(s, o) == o.class = "sab" /\ "sab" \notin s.flags
WriteContents(s, o, depth) ==
    CASE o.class = "array" -> JS_WriteArray(s, o, depth)
      [] o.class = "object" -> JS_WriteObjectTag(s, o, depth)
      [] o.class = "buffer" -> JS_WriteArrayBuffer(s, o)
      [] o.class = "sab" -> JS_WriteSharedArrayBuffer(s, o)
      [] o.class \in {"date", "boxed"} -> JS_WriteObjectRec(PutTag(s, o.class), o.items[1], depth)
      [] o.class = "typed" -> JS_WriteTypedArray(s, o, depth)
      [] OTHER -> Failed(s, "TypeError")

(* With references the second meeting of an object writes its index;       *)
(* without them an object met inside itself is an error.  A refused shared *)
(* buffer leaves through invalid_tag and keeps its mark.                   *)
WriteObject(s, p, depth) ==
    LET o == s.rt.heap[p]
        references == "reference" \in s.flags
        idx == js_object_list_find(s.list, p)
        s1 == IF references THEN [s EXCEPT !.list = js_object_list_add(@, p)] ELSE [s EXCEPT !.marks = @ \cup {p}]
        s2 == WriteContents(s1, o, depth)
    IN  IF references /\ idx >= 0 THEN bc_put_leb128(PutTag(s, "reference"), idx)
        ELSE IF ~ references /\ p \in s.marks THEN Failed(s, "TypeError")
        ELSE IF Refused(s, o) THEN Failed(s1, "InternalError")
        ELSE [s2 EXCEPT !.marks = @ \ {p}]

JS_WriteObjectRec(s, v, depth) ==
    CASE s.error # "" -> s
      [] s.error = "" /\ depth = STACK_MAX -> Failed(s, "InternalError")
      [] OTHER ->
         CASE v[1] \in {"null", "undefined"} -> PutTag(s, v[1])
           [] v[1] = "bool" -> Put(s, <<Tag("false") + v[2]>>)
           [] v[1] = "int" -> bc_put_sleb128(PutTag(s, "int"), v[2])
           [] v[1] = "float" -> Put(PutTag(s, "float"), Swap(s, v[2]))
           [] v[1] = "string" -> JS_WriteString(PutTag(s, "string"), v[2])
           [] v[1] = "function" /\ "bytecode" \in s.flags -> JS_WriteFunctionTag(s, v[2], depth + 1)
           [] v[1] = "module" /\ "bytecode" \in s.flags -> JS_WriteModule(s, v[2], depth + 1)
           [] v[1] = "big" -> JS_WriteBigNum(s, v[2])
           [] v[1] = "object" -> WriteObject(s, v[2], depth + 1)
           [] OTHER -> Failed(s, "InternalError")

(* The table of atoms goes before the value.                               *)
JS_WriteObjectAtoms(s) ==
    LET version == IF "bswap" \in s.flags THEN BC_VERSION + BC_BE_VERSION ELSE BC_VERSION
        WriteAtom(w, atom) == JS_WriteString(w, s.rt.atoms[atom])
        table == PutEach(bc_put_leb128([s EXCEPT !.buf = <<version>>], Len(s.idx_to_atom)), s.idx_to_atom, WriteAtom)
    IN  [table EXCEPT !.buf = @ \o s.buf]
JS_WriteObject2(rt, v, flags) ==
    LET s == JS_WriteObjectRec(Writer(rt, flags), v, 0)
    IN  IF s.error # "" THEN [s EXCEPT !.buf = <<>>, !.sab_tab = <<>>] ELSE JS_WriteObjectAtoms(s)
-----------------------------------------------------------------------------
(* The reader.  r.val is what the last step has read.  heap is the         *)
(* sequence of the objects made, objects the list references count in (0   *)
(* for one not made yet), sab_dups the shared buffers sab_dup was called   *)
(* for.  rt gives the atom of a string and the byte order of the machine.  *)
Reader(rt, buf, flags) ==
    [rt |-> rt, flags |-> flags, buf |-> buf, ptr |-> 0, error |-> "", val |-> 0, idx_to_atom |-> <<>>,
     rom |-> "rom" \in flags, heap |-> <<>>, objects |-> <<>>, sab_dups |-> <<>>]

Invalid(r, error) == [r EXCEPT !.error = error]
Give(r, x) == IF r.error # "" THEN r ELSE [r EXCEPT !.val = x]
Native(r, bytes) == IF r.rt.big_endian THEN Reverse(bytes) ELSE bytes
bc_get_buf(r, n) ==
    IF r.error # "" THEN r
    ELSE IF Len(r.buf) - r.ptr < n THEN Invalid(r, "SyntaxError")
    ELSE [r EXCEPT !.ptr = @ + n, !.val = SubSeq(r.buf, r.ptr + 1, r.ptr + n)]
GetNumber(r, n) == LET q == bc_get_buf(r, n) IN IF q.error # "" THEN q ELSE Give(q, Number(Native(q, q.val)))
bc_get_u8(r) == GetNumber(r, 1)
bc_get_leb128(r) ==
    LET x == get_leb128(r.buf, r.ptr, 0) IN
    IF r.error # "" THEN r
    ELSE IF x = <<>> THEN Invalid(r, "SyntaxError")
    ELSE [r EXCEPT !.ptr = @ + x[2], !.val = x[1]]
bc_get_sleb128(r) == LET q == bc_get_leb128(r) IN IF q.error # "" THEN q ELSE Give(q, UnZigZag(q.val))
bc_get_leb128_int(r) == LET q == bc_get_leb128(r) IN IF q.error # "" THEN q ELSE Give(q, AsInt(q.val))
bc_get_leb128_u16(r) == LET q == bc_get_leb128(r) IN IF q.error # "" THEN q ELSE Give(q, q.val % 65536)
(* n times Op; all that was read.                                          *)
GetEach(r, n, Op(_)) ==
    LET f[i \in 0..n] ==
            IF i = 0 THEN Give(r, <<>>)
            ELSE LET before == f[i - 1]
                     after == Op(before)
                 IN  IF before.error # "" THEN before
                     ELSE IF after.error # "" THEN after ELSE Give(after, Append(before.val, after.val))
    IN  IF r.error # "" THEN r ELSE f[n]
GetCounted(r, Op(_)) == LET n == bc_get_leb128(r) IN IF n.error # "" THEN n ELSE GetEach(n, n.val, Op)

bc_idx_to_atom(r, idx) ==
    LET first == first_atom(r.flags) IN
    IF IsTaggedInt(idx) \/ idx < first THEN Give(r, idx)
    ELSE IF idx - first >= Len(r.idx_to_atom) THEN Invalid(r, "SyntaxError")
    ELSE Give(r, r.idx_to_atom[idx - first + 1])
bc_get_atom(r) ==
    LET v == bc_get_leb128(r) IN
    IF v.error # "" THEN v
    ELSE IF v.val % 2 = 1 THEN Give(v, v.val \div 2 + JS_ATOM_TAG_INT) ELSE bc_idx_to_atom(v, v.val \div 2)

JS_ReadString(r) ==
    LET len == bc_get_leb128(r)
        n == len.val \div 2
        wide == len.val % 2 = 1
        bytes == bc_get_buf(len, IF wide THEN 2 * n ELSE n)
        units == IF wide THEN [i \in 1..n |-> Number(Native(r, SubSeq(bytes.val, 2 * i - 1, 2 * i)))] ELSE bytes.val
    IN  IF len.error # "" THEN len ELSE IF bytes.error # "" THEN bytes ELSE Give(bytes, [wide |-> wide, units |-> units])

(* The indexes in the instructions from pos on replaced by atoms.          *)
RECURSIVE RelocateAtoms(_, _, _)
RelocateAtoms(r, code, pos) ==
    IF pos >= Len(code) THEN Give(r, code)
    ELSE LET info == OpInfo[code[pos + 1]]
             a == bc_idx_to_atom(r, Number(Native(r, SubSeq(code, pos + 2, pos + 5))))
         IN  IF ~ HasAtom(info.fmt) \/ r.rom THEN RelocateAtoms(r, code, pos + info.size)
             ELSE IF a.error # "" THEN a
             ELSE RelocateAtoms(a, SubSeq(code, 1, pos + 1) \o Native(r, Bytes4(a.val)) \o SubSeq(code, pos + 6, Len(code)),
                                pos + info.size)
JS_ReadFunctionBytecode(r, n) ==
    LET q == bc_get_buf(r, n) IN IF q.error # "" THEN q ELSE RelocateAtoms(q, q.val, 0)

(* Bytes of a mantissa are always in little endian order.                  *)
Grouped(seq, n) == [i \in 1..(Len(seq) \div n) |-> SubSeq(seq, n * (i - 1) + 1, n * i)]
Padded(seq, n) == [i \in 1..((n - (Len(seq) % n)) % n) |-> 0] \o seq
Digits(bytes, n) == [i \in 1..n |-> LET b == bytes[(i + 1) \div 2] IN IF i % 2 = 1 THEN b % 16 ELSE b \div 16]
JS_ReadBigNum(r, type) ==
    LET q == bc_get_sleb128(r)
        e == q.val \div 2
        kind == CASE e = 0 -> "zero" [] e = 1 -> "inf" [] e = 2 -> "nan" [] OTHER -> "finite"
        num == [type |-> type, sign |-> q.val % 2, kind |-> kind,
                expn |-> IF kind # "finite" THEN 0 ELSE IF e >= 3 THEN e - 3 ELSE e, limbs |-> <<>>]
        len == bc_get_leb128(q)
        decimal == type = "bigdecimal"
        body == bc_get_buf(len, IF decimal THEN (len.val + 1) \div 2 ELSE len.val)
        digits == Digits(body.val, len.val)
    IN  IF q.error # "" THEN q
        ELSE IF kind # "finite" THEN Give(q, <<"big", num>>)
        ELSE IF len.error # "" THEN len
        ELSE IF len.val = 0 THEN Invalid(len, "InternalError")
        ELSE IF body.error # "" THEN body
        ELSE IF decimal /\ \E i \in DOMAIN digits : digits[i] >= 10 THEN Invalid(body, "InternalError")
        ELSE Give(body, <<"big", [num EXCEPT !.limbs =
                IF decimal THEN Grouped(Padded(digits, BCD_DIGITS), BCD_DIGITS)
                           ELSE Grouped(Padded(body.val, LIMB_BYTES), LIMB_BYTES)]>>)

(* A new object, counted for references when they are allowed.             *)
Made(r, o) == IF r.error # "" THEN r ELSE [r EXCEPT !.heap = Append(@, o), !.val = <<"object", Len(r.heap) + 1>>]
BC_add_object_ref(r, p) ==
    IF r.error = "" /\ "reference" \in r.flags THEN [r EXCEPT !.objects = Append(@, p)] ELSE r
MadeAndCounted(r, o) == BC_add_object_ref(Made(r, o), Len(r.heap) + 1)

RECURSIVE JS_ReadObjectRec(_, _)
ReadVar(r) ==
    LET name == bc_get_atom(r)
        level == bc_get_leb128_int(name)
        next == bc_get_leb128_int(level)
        flags == bc_get_u8(next)
    IN  IF flags.error # "" THEN flags
        ELSE Give(flags, [name |-> name.val, scope_level |-> level.val, scope_next |-> next.val - 1,
                          flags |-> bc_get_flags(flags.val, VarFlags)])
ReadClosureVar(r) ==
    LET name == bc_get_atom(r)
        idx == bc_get_leb128_int(name)
        flags == bc_get_u8(idx)
    IN  IF flags.error # "" THEN flags
        ELSE Give(flags, [name |-> name.val, var_idx |-> idx.val % 65536, flags |-> bc_get_flags(flags.val, ClosureFlags)])
NoDebug == [filename |-> 0, line_num |-> 0, pc2line |-> <<>>]
ReadDebug(r) ==
    LET file == bc_get_atom(r)
        line == bc_get_leb128_int(file)
        len == bc_get_leb128_int(line)
        table == IF len.error # "" THEN len ELSE bc_get_buf(len, len.val)
    IN  IF table.error # "" THEN table
        ELSE Give(table, [filename |-> file.val, line_num |-> line.val, pc2line |-> table.val])
JS_ReadFunctionTag(r, depth) ==
    LET flags == GetNumber(r, 2)
        mode == bc_get_u8(flags)
        name == bc_get_atom(mode)
        counts == GetEach(name, 4, bc_get_leb128_u16)
        sizes == GetEach(counts, 4, bc_get_leb128_int)
        vars == GetEach(sizes, sizes.val[4], ReadVar)
        closures == IF vars.error # "" THEN vars ELSE GetEach(vars, sizes.val[1], ReadClosureVar)
        code == JS_ReadFunctionBytecode(closures, sizes.val[3])
        set == bc_get_flags(flags.val, FunctionFlags)
        debug == IF HasDebug(set) THEN ReadDebug(code) ELSE Give(code, NoDebug)
        Const(q) == JS_ReadObjectRec(q, depth)
        cpool == GetEach(debug, sizes.val[2], Const)
    IN  IF sizes.error # "" THEN sizes
        ELSE IF closures.error # "" THEN closures
        ELSE IF code.error # "" THEN code
        ELSE IF debug.error # "" THEN debug
        ELSE IF cpool.error # "" THEN cpool
        ELSE Give(cpool, <<"function",
                [flags |-> set, js_mode |-> mode.val, name |-> name.val, counts |-> counts.val, vars |-> vars.val,
                 closures |-> closures.val, code |-> code.val, debug |-> debug.val, cpool |-> cpool.val]>>)

ReadExport(r) ==
    LET type == bc_get_u8(r)
        local == type.val = 0
        idx == bc_get_leb128_int(type)
        name == IF type.error = "" /\ ~ local THEN bc_get_atom(idx) ELSE Give(idx, 0)
        export == bc_get_atom(name)
    IN  IF export.error # "" THEN export
        ELSE Give(export, [local |-> local, idx |-> idx.val, local_name |-> name.val, export_name |-> export.val])
ReadImport(r) ==
    LET var == bc_get_leb128_int(r)
        name == bc_get_atom(var)
        req == bc_get_leb128_int(name)
    IN  IF req.error # "" THEN req
        ELSE Give(req, [var_idx |-> var.val, import_name |-> name.val, req_module_idx |-> req.val])
JS_ReadModule(r, depth) ==
    LET name == bc_get_atom(r)
        requires == GetCounted(name, bc_get_atom)
        exports == GetCounted(requires, ReadExport)
        stars == GetCounted(exports, bc_get_leb128_int)
        imports == GetCounted(stars, ReadImport)
        func == JS_ReadObjectRec(imports, depth)
    IN  IF imports.error # "" THEN imports
        ELSE IF func.error # "" THEN func
        ELSE Give(func, <<"module", [name |-> name.val, requires |-> requires.val, exports |-> exports.val,
                                     stars |-> stars.val, imports |-> imports.val, func |-> func.val]>>)

JS_ReadObjectTag(r, depth) ==
    LET obj == MadeAndCounted(r, JSObject("object"))
        ReadProp(q) ==
            LET name == bc_get_atom(q)
                value == JS_ReadObjectRec(name, depth)
            IN  IF value.error # "" THEN value
                ELSE Give(value, [name |-> name.val, enumerable |-> TRUE, accessor |-> FALSE, value |-> value.val])
        props == GetCounted(obj, ReadProp)
    IN  IF props.error # "" THEN props
        ELSE [props EXCEPT !.val = obj.val, !.heap[obj.val[2]].props = props.val]
JS_ReadArray(r, tag, depth) ==
    LET obj == MadeAndCounted(r, JSObject("array"))
        Elem(q) == JS_ReadObjectRec(q, depth)
        items == GetCounted(obj, Elem)
        raw == JS_ReadObjectRec(items, depth)
        p == obj.val[2]
    IN  IF items.error # "" THEN items
        ELSE IF tag = "array" THEN [items EXCEPT !.val = obj.val, !.heap[p].items = items.val]
        ELSE IF raw.error # "" THEN raw
        ELSE [raw EXCEPT !.val = obj.val, !.heap[p].items = items.val, !.heap[p].extensible = FALSE,
                         !.heap[p].raw = IF raw.val = Undef THEN <<>> ELSE <<raw.val>>]
(* The classes of typed arrays, from JS_CLASS_UINT8C_ARRAY on.              *)
typed_array_size_log2 == <<0, 0, 0, 1, 1, 2, 2, 3, 3, 2, 3>>
JS_TYPED_ARRAY_COUNT == Len(typed_array_size_log2)
(* What js_typed_array_constructor says of a buffer, an offset and a       *)
(* length that were read; no constructor is given, so no script runs.      *)
ViewError(b, kind, offset, len) ==
    LET size == 2 ^ typed_array_size_log2[kind + 1]
        byte_length == IF b.class = "sab" THEN b.count ELSE Len(b.bytes)
    IN  CASE b.detached -> "TypeError"
          [] ~ b.detached /\ (offset % size # 0 \/ offset + len * size > byte_length) -> "RangeError"
          [] OTHER -> ""
(* The object a typed array is read into, after its buffer.                *)
ReadView(buffer, kind, offset, len) ==
    LET isBuffer == buffer.val[1] = "object" /\ buffer.heap[buffer.val[2]].class \in {"buffer", "sab"}
        b == buffer.heap[buffer.val[2]]
        error == ViewError(b, kind, offset, len)
    IN  IF buffer.error # "" THEN buffer
        ELSE IF ~ isBuffer THEN Invalid(buffer, "TypeError")
        ELSE IF error # "" THEN Invalid(buffer, error)
        ELSE Made(buffer, [JSObject("typed") EXCEPT !.kind = kind, !.count = len, !.offset = offset,
                                                    !.items = <<buffer.val>>])

(* A mutant: the typed array is counted after its buffer.                  *)
MutCountedLate(r, depth) ==
    LET kind == bc_get_u8(r)
        len == bc_get_leb128(kind)
        offset == bc_get_leb128(len)
        obj == ReadView(JS_ReadObjectRec(offset, depth), kind.val, offset.val, len.val)
    IN  IF kind.error = "" /\ kind.val >= JS_TYPED_ARRAY_COUNT THEN Invalid(kind, "TypeError")
        ELSE IF offset.error # "" THEN offset
        ELSE IF obj.error # "" THEN obj
        ELSE BC_add_object_ref(obj, obj.val[2])

(* The typed array is made after its buffer and takes its place in the     *)
(* list, which was kept free.                                              *)
JS_ReadTypedArray(r, depth) ==
    LET kind == bc_get_u8(r)
        len == bc_get_leb128(kind)
        offset == bc_get_leb128(len)
        obj == ReadView(JS_ReadObjectRec(BC_add_object_ref(offset, 0), depth), kind.val, offset.val, len.val)
    IN  IF kind.error = "" /\ kind.val >= JS_TYPED_ARRAY_COUNT THEN Invalid(kind, "TypeError")
        ELSE IF offset.error # "" THEN offset
        ELSE IF obj.error # "" \/ "reference" \notin r.flags THEN obj
        ELSE [obj EXCEPT !.objects[Len(r.objects) + 1] = obj.val[2]]
JS_ReadArrayBuffer(r) ==
    LET len == bc_get_leb128(r)
        bytes == IF len.error # "" THEN len ELSE bc_get_buf(len, len.val)
    IN  IF bytes.error # "" THEN bytes ELSE MadeAndCounted(bytes, [JSObject("buffer") EXCEPT !.bytes = bytes.val])
JS_ReadSharedArrayBuffer(r) ==
    LET len == bc_get_leb128(r)
        addr == GetNumber(len, 8)
    IN  IF addr.error # "" THEN addr
        ELSE MadeAndCounted([addr EXCEPT !.sab_dups = Append(@, addr.val)],
                            [JSObject("sab") EXCEPT !.count = len.val, !.addr = addr.val])
(* The object around a primitive is made and counted after it was read.    *)
ReadAround(r, class, depth) ==
    LET val == JS_ReadObjectRec(r, depth) IN
    IF val.error # "" THEN val
    ELSE IF class = "date" /\ val.val[1] \notin {"int", "float"} THEN Invalid(val, "TypeError")
    ELSE MadeAndCounted(val, [JSObject(class) EXCEPT !.items = <<val.val>>])
ReadReference(r) ==
    LET idx == bc_get_leb128(r) IN
    IF "reference" \notin r.flags THEN Invalid(r, "SyntaxError")
    ELSE IF idx.error # "" THEN idx
    ELSE IF idx.val >= Len(r.objects) THEN Invalid(idx, "SyntaxError")
    ELSE Give(idx, <<"object", r.objects[idx.val + 1]>>)

JS_ReadObjectRec(r, depth) ==
    LET tag == bc_get_u8(r)
        name == IF tag.val \in DOMAIN Tags THEN Tags[tag.val] ELSE "invalid"
        int == bc_get_sleb128(tag)
        float == bc_get_buf(tag, 8)
        str == JS_ReadString(tag)
    IN  CASE r.error # "" -> r
          [] r.error = "" /\ depth = STACK_MAX -> Invalid(r, "InternalError")
          [] OTHER ->
             CASE tag.error # "" -> tag
               [] tag.error = "" /\ name \in {"null", "undefined"} -> Give(tag, <<name>>)
               [] tag.error = "" /\ name \in {"false", "true"} -> Give(tag, <<"bool", tag.val - Tag("false")>>)
               [] tag.error = "" /\ name = "int" -> Give(int, <<"int", int.val>>)
               [] tag.error = "" /\ name = "float" ->
                    IF float.error # "" THEN float ELSE Give(float, <<"float", Native(r, float.val)>>)
               [] tag.error = "" /\ name = "string" -> Give(str, <<"string", str.val>>)
               [] tag.error = "" /\ name = "function" /\ "bytecode" \in r.flags -> JS_ReadFunctionTag(tag, depth + 1)
               [] tag.error = "" /\ name = "module" /\ "bytecode" \in r.flags -> JS_ReadModule(tag, depth + 1)
               [] tag.error = "" /\ name = "object" -> JS_ReadObjectTag(tag, depth + 1)
               [] tag.error = "" /\ name \in {"array", "template"} -> JS_ReadArray(tag, name, depth + 1)
               [] tag.error = "" /\ name = "typed" -> JS_ReadTypedArray(tag, depth + 1)
               [] tag.error = "" /\ name = "buffer" -> JS_ReadArrayBuffer(tag)
               [] tag.error = "" /\ name = "sab" /\ "sab" \in r.flags -> JS_ReadSharedArrayBuffer(tag)
               [] tag.error = "" /\ name \in {"date", "boxed"} -> ReadAround(tag, name, depth + 1)
               [] tag.error = "" /\ name \in {"bigint", "bigfloat", "bigdecimal"} -> JS_ReadBigNum(tag, name)
               [] tag.error = "" /\ name = "reference" -> ReadReference(tag)
               [] OTHER -> Invalid(tag, "SyntaxError")

(* Bytecode in read-only data is used as it is only when every atom has    *)
(* the number it had when it was written.                                  *)
JS_ReadObjectAtoms(r) ==
    LET version == bc_get_u8(r)
        expected == IF r.rt.big_endian THEN BC_VERSION + BC_BE_VERSION ELSE BC_VERSION
        ReadAtom(q) == LET str == JS_ReadString(q)
                       IN  IF str.error # "" THEN str ELSE Give(str, r.rt.JS_NewAtomStr[str.val])
        table == GetCounted(version, ReadAtom)
        same == \A i \in DOMAIN table.val : table.val[i] = (i - 1) + first_atom(r.flags)
    IN  IF version.error # "" THEN version
        ELSE IF version.val # expected THEN Invalid(version, "SyntaxError")
        ELSE IF table.error # "" THEN table
        ELSE [table EXCEPT !.idx_to_atom = table.val, !.rom = @ /\ same]
JS_ReadObject(rt, buf, flags) ==
    LET r == JS_ReadObjectAtoms(Reader(rt, buf, flags)) IN
    IF r.error # "" THEN r ELSE JS_ReadObjectRec(r, 0)
-----------------------------------------------------------------------------
(* The table of line numbers of a function.                                *)
PC2LINE_BASE == -1
PC2LINE_RANGE == 5
PC2LINE_OP_FIRST == 1
PC2LINE_DIFF_PC_MAX == (255 - PC2LINE_OP_FIRST) \div PC2LINE_RANGE

(* slots = [pc, line] in the order the code was emitted.                   *)
add_pc2line_info(slots, line_num, pc, line) ==
    LET last == IF slots = <<>> THEN [pc |-> 0, line |-> line_num] ELSE Last(slots) IN
    IF pc >= last.pc /\ line # last.line THEN Append(slots, [pc |-> pc, line |-> line]) ELSE slots

compute_pc2line_info(slots, line_num) ==
    LET f[i \in 0..Len(slots)] ==
            IF i = 0 THEN [buf |-> <<>>, pc |-> 0, line |-> line_num]
            ELSE LET s == f[i - 1]
                     pc == slots[i].pc - s.pc
                     line == slots[i].line - s.line
                     short == /\ line >= PC2LINE_BASE /\ line < PC2LINE_BASE + PC2LINE_RANGE
                              /\ pc <= PC2LINE_DIFF_PC_MAX
                     op == (line - PC2LINE_BASE) + pc * PC2LINE_RANGE + PC2LINE_OP_FIRST
                 IN  IF slots[i].line < 0 \/ line = 0 \/ pc < 0 THEN s
                     ELSE [buf |-> s.buf \o (IF short THEN <<op>> ELSE <<0>> \o LebBytes(pc) \o LebBytes(ZigZag(line))),
                           pc |-> slots[i].pc, line |-> slots[i].line]
    IN  f[Len(slots)].buf
RECURSIVE LineFrom(_, _, _, _, _, _)
LineFrom(buf, p, pc, line, first, pc_value) ==
    LET op == buf[p + 1] - PC2LINE_OP_FIRST
        long == buf[p + 1] = 0
        dpc == get_leb128(buf, p + 1, 0)
        dline == get_leb128(buf, p + 1 + dpc[2], 0)
        newpc == IF long THEN pc + dpc[1] ELSE pc + op \div PC2LINE_RANGE
        newline == IF long THEN line + UnZigZag(dline[1]) ELSE line + (op % PC2LINE_RANGE) + PC2LINE_BASE
        next == IF long THEN p + 1 + dpc[2] + dline[2] ELSE p + 1
    IN  IF p >= Len(buf) THEN line
        ELSE IF long /\ (dpc = <<>> \/ dline = <<>>) THEN first
        ELSE IF pc_value < newpc THEN line
        ELSE LineFrom(buf, next, newpc, newline, first, pc_value)
find_line_num(buf, line_num, pc_value) == LineFrom(buf, 0, 0, line_num, line_num, pc_value)
-----------------------------------------------------------------------------
(***************************************************************************)
(* What a value read back owes to the value written: the two are walked    *)
(* side by side.  Every value has a label, what can be seen of it without  *)
(* following a reference, with atoms turned into their strings and the     *)
(* operands of instructions into numbers; and parts, the values inside it. *)
(***************************************************************************)

Name(rt, atom) == IF IsTaggedInt(atom) THEN <<"integer", atom - JS_ATOM_TAG_INT>> ELSE <<"name", rt.atoms[atom]>>

(* The operands each format puts behind the opcode, in bytes.              *)
Layout(fmt) ==
    CASE fmt \in {"none", "none_int", "none_loc", "none_arg", "none_var_ref", "npopx"} -> <<>>
      [] fmt \in {"u8", "i8", "loc8", "const8", "label8"} -> <<1>>
      [] fmt \in {"u16", "i16", "label16", "npop", "loc", "arg", "var_ref"} -> <<2>>
      [] fmt = "npop_u16" -> <<2, 2>>
      [] fmt \in {"u32", "i32", "const", "label", "atom"} -> <<4>>
      [] fmt = "atom_u8" -> <<4, 1>>
      [] fmt \in {"atom_u16", "label_u16"} -> <<4, 2>>
      [] fmt = "atom_label_u8" -> <<4, 4, 1>>
      [] fmt = "atom_label_u16" -> <<4, 4, 2>>
Sum(seq) == LET f[i \in 0..Len(seq)] == IF i = 0 THEN 0 ELSE f[i - 1] + seq[i] IN f[Len(seq)]
(* The instructions of a piece of bytecode, as a machine of the given byte *)
(* order sees them.                                                        *)
RECURSIVE Instructions(_, _)
Instructions(rt, code) ==
    IF code = <<>> THEN <<>>
    ELSE LET fmt == OpInfo[Head(code)].fmt
             layout == Layout(fmt)
             size == 1 + Sum(layout)
             Operand(i) ==
                LET from == 2 + Sum(SubSeq(layout, 1, i - 1))
                    bytes == SubSeq(code, from, from + layout[i] - 1)
                    n == Number(IF rt.big_endian THEN Reverse(bytes) ELSE bytes)
                IN  IF HasAtom(fmt) /\ i = 1 THEN Name(rt, n) ELSE <<"integer", n>>
         IN  <<<<Head(code), [i \in DOMAIN layout |-> Operand(i)]>>>>
                \o Instructions(rt, SubSeq(code, size + 1, Len(code)))

Template(o, flags) == o.class = "array" /\ ~ o.extensible /\ "bytecode" \in flags
KeptProps(rt, o) == SelectSeq(o.props, LAMBDA pr : pr.enumerable /\ pr.name \notin rt.symbols)

Parts(rt, heap, v, flags) ==
    CASE v[1] = "function" -> v[2].cpool
      [] v[1] = "module" -> <<v[2].func>>
      [] v[1] = "object" ->
            LET o == heap[v[2]]
                kept == KeptProps(rt, o)
            IN  [i \in DOMAIN o.items |-> IF o.items[i] = <<"hole">> THEN Undef ELSE o.items[i]]
                \o [i \in DOMAIN kept |-> kept[i].value] \o (IF Template(o, flags) THEN o.raw ELSE <<>>)
      [] OTHER -> <<>>
Label(rt, heap, v, flags) ==
    CASE v[1] = "function" ->
            LET f == v[2] IN
            <<"function", f.flags, f.js_mode, f.counts, Name(rt, f.name), Instructions(rt, f.code),
              [i \in DOMAIN f.vars |-> <<Name(rt, f.vars[i].name), f.vars[i].scope_level, f.vars[i].scope_next, f.vars[i].flags>>],
              [i \in DOMAIN f.closures |-> <<Name(rt, f.closures[i].name), f.closures[i].var_idx, f.closures[i].flags>>],
              IF HasDebug(f.flags) THEN <<Name(rt, f.debug.filename), f.debug.line_num, f.debug.pc2line>> ELSE <<>> >>
      [] v[1] = "module" ->
            LET m == v[2] IN
            <<"module", Name(rt, m.name), [i \in DOMAIN m.requires |-> Name(rt, m.requires[i])], m.stars,
              [i \in DOMAIN m.exports |-> <<m.exports[i].local, m.exports[i].idx, Name(rt, m.exports[i].export_name),
                    IF m.exports[i].local THEN <<>> ELSE Name(rt, m.exports[i].local_name)>>],
              [i \in DOMAIN m.imports |-> <<m.imports[i].var_idx, Name(rt, m.imports[i].import_name), m.imports[i].req_module_idx>>] >>
      [] v[1] = "object" ->
            LET o == heap[v[2]]
                kept == KeptProps(rt, o)
            IN  <<"object", o.class, Template(o, flags), [i \in DOMAIN kept |-> Name(rt, kept[i].name)],
                  o.bytes, o.kind, o.count, o.offset, o.addr>>
      [] OTHER -> v

(* The pairs of values that the same path leads to.                        *)
RECURSIVE SideBySide(_, _, _, _)
SideBySide(pairs, todo, PartsOf1, PartsOf2) ==
    IF todo = {} THEN pairs
    ELSE LET new == UNION {{<<PartsOf1[x[1]][i], PartsOf2[x[2]][i]>> :
                               i \in DOMAIN PartsOf1[x[1]] \cap DOMAIN PartsOf2[x[2]]} : x \in todo}
         IN  SideBySide(pairs \cup new, new \ pairs, PartsOf1, PartsOf2)
RECURSIVE Reached(_, _, _, _, _)
Reached(rt, heap, flags, seen, todo) ==
    IF todo = {} THEN seen
    ELSE LET new == UNION {LET ps == Parts(rt, heap, v, flags) IN {ps[i] : i \in DOMAIN ps} : v \in todo}
         IN  Reached(rt, heap, flags, seen \cup new, new \ seen)
SameValue(rt1, heap1, v1, rt2, heap2, v2, flags) ==
    LET Parts1 == [v \in Reached(rt1, heap1, flags, {v1}, {v1}) |-> Parts(rt1, heap1, v, flags)]
        Parts2 == [v \in Reached(rt2, heap2, flags, {v2}, {v2}) |-> Parts(rt2, heap2, v, flags)]
        pairs == SideBySide({<<v1, v2>>}, {<<v1, v2>>}, Parts1, Parts2)
        objects == {x \in pairs : x[1][1] = "object"}
    IN  /\ \A x \in pairs :
              /\ Len(Parts1[x[1]]) = Len(Parts2[x[2]])
              /\ Label(rt1, heap1, x[1], flags) = Label(rt2, heap2, x[2], flags)
        /\ \A x, y \in objects : x[2] = y[2] => x[1] = y[1]
        /\ "reference" \in flags => \A x, y \in objects : x[1] = y[1] => x[2] = y[2]

(* What keeps a value from being written.                                  *)
Cyclic(rt, v, flags) ==
    LET all == Reached(rt, rt.heap, flags, {v}, {v})
        After(w) == LET ps == Parts(rt, rt.heap, w, flags) IN Reached(rt, rt.heap, flags, {}, {ps[i] : i \in DOMAIN ps})
                                                              \cup {ps[i] : i \in DOMAIN ps}
    IN  \E w \in all : w[1] = "object" /\ w \in After(w)
Unwritable(rt, w, flags) ==
    \/ w[1] \in {"function", "module"} /\ "bytecode" \notin flags
    \/ w[1] = "big" /\ w[2].kind = "finite" /\ (w[2].expn < 0 - WORD \div 4 \/ w[2].expn + 3 >= WORD \div 4)
    \/ w[1] = "object" /\ LET o == rt.heap[w[2]]
                              kept == KeptProps(rt, o)
                          IN  \/ o.class \notin {"array", "object", "buffer", "sab", "date", "boxed", "typed"}
                              \/ o.class = "sab" /\ "sab" \notin flags
                              \/ o.detached
                              \/ \E i \in DOMAIN kept : kept[i].accessor
CanWrite(rt, v, flags) ==
    /\ \A w \in Reached(rt, rt.heap, flags, {v}, {v}) : ~ Unwritable(rt, w, flags)
    /\ "reference" \in flags \/ ~ Cyclic(rt, v, flags)
===============================================================================
