----------------------------- MODULE TypedArrays ------------------------------
(***************************************************************************)
(* rqsort of cutils.c, under Array.prototype.sort and TypedArray sort: a   *)
(* quicksort that keeps the elements equal to the pivot at both ends while *)
(* it partitions, stacks the larger part and goes on with the smaller one, *)
(* turns to insertion sort for short parts and to heap sort when it gets   *)
(* too deep.  cmp is a function of pairs of elements, and may be any: it   *)
(* is a script.                                                            *)
(*                                                                         *)
(* Positions count elements from 0; a[i + 1] is the element at position i. *)
(* The two thresholds of the code are constants so that short sequences    *)
(* reach every path.                                                       *)
(***************************************************************************)
EXTENDS ArrayBuffers

CONSTANTS INSERTION_MAX,    \* parts up to this length are sorted by insertion; 6
          DEPTH_MAX         \* partitions nested deeper are sorted by heapsortx; 50

At(a, i) == a[i + 1]
swap(a, i, j) == [a EXCEPT ![i + 1] = a[j + 1], ![j + 1] = a[i + 1]]
swap_block(a, i, j, n) ==
    [k \in DOMAIN a |-> IF k - 1 \in i..(i + n - 1) THEN a[k - i + j]
                        ELSE IF k - 1 \in j..(j + n - 1) THEN a[k - j + i] ELSE a[k]]

(* The element at r sinks below its larger child, in the heap of the       *)
(* positions base .. base + n - 1.                                         *)
RECURSIVE SiftDown(_, _, _, _, _)
SiftDown(a, base, n, r, cmp) ==
    LET c1 == 2 * r + 1
        c == IF c1 < n - 1 /\ cmp[At(a, base + c1), At(a, base + c1 + 1)] <= 0 THEN c1 + 1 ELSE c1
    IN  IF c1 >= n \/ cmp[At(a, base + r), At(a, base + c)] > 0 THEN a
        ELSE SiftDown(swap(a, base + r, base + c), base, n, c, cmp)
RECURSIVE Heapify(_, _, _, _, _)
Heapify(a, base, n, i, cmp) ==
    IF i = 0 THEN a ELSE Heapify(SiftDown(a, base, n, i - 1, cmp), base, n, i - 1, cmp)
RECURSIVE Unheap(_, _, _, _)
Unheap(a, base, i, cmp) ==
    IF i <= 0 THEN a ELSE Unheap(SiftDown(swap(a, base, base + i), base, i, 0, cmp), base, i - 1, cmp)
heapsortx(a, base, n, cmp) ==
    IF n <= 1 THEN a ELSE Unheap(Heapify(a, base, n, n \div 2, cmp), base, n - 1, cmp)

med3(a, i, j, k, cmp) ==
    IF cmp[At(a, i), At(a, j)] < 0
    THEN IF cmp[At(a, j), At(a, k)] < 0 THEN j ELSE IF cmp[At(a, i), At(a, k)] < 0 THEN k ELSE i
    ELSE IF cmp[At(a, j), At(a, k)] > 0 THEN j ELSE IF cmp[At(a, i), At(a, k)] < 0 THEN i ELSE k

(* The two inner loops: p = [a, lt, pi, pj, gt], the pivot at ptr.         *)
RECURSIVE ScanUp(_, _, _)
ScanUp(p, ptr, cmp) ==
    IF ~ (p.pi < p.pj /\ cmp[At(p.a, ptr), At(p.a, p.pi)] >= 0) THEN p
    ELSE IF cmp[At(p.a, ptr), At(p.a, p.pi)] = 0
         THEN ScanUp([p EXCEPT !.a = swap(p.a, p.lt, p.pi), !.lt = @ + 1, !.pi = @ + 1], ptr, cmp)
         ELSE ScanUp([p EXCEPT !.pi = @ + 1], ptr, cmp)
RECURSIVE ScanDown(_, _, _)
ScanDown(q, ptr, cmp) ==
    LET p == [q EXCEPT !.pj = @ - 1] IN
    IF ~ (p.pi < p.pj /\ cmp[At(p.a, ptr), At(p.a, p.pj)] <= 0) THEN p
    ELSE IF cmp[At(p.a, ptr), At(p.a, p.pj)] = 0
         THEN ScanDown([p EXCEPT !.a = swap(p.a, p.gt - 1, p.pj), !.gt = @ - 1], ptr, cmp)
         ELSE ScanDown(p, ptr, cmp)
RECURSIVE Scan(_, _, _)
Scan(p, ptr, cmp) ==
    LET q == ScanDown(ScanUp(p, ptr, cmp), ptr, cmp) IN
    IF q.pi >= q.pj THEN q
    ELSE Scan([q EXCEPT !.a = swap(q.a, q.pi, q.pj), !.pi = @ + 1], ptr, cmp)

(* One partition of the n elements from ptr: less than the pivot at        *)
(* ptr .. ptr + lt - 1, greater from pgt on, equal ones between.           *)
Least(x, y) == IF x < y THEN x ELSE y
Partition(a, ptr, n, cmp) ==
    LET m4 == n \div 4
        m == med3(a, ptr + m4, ptr + 2 * m4, ptr + 3 * m4, cmp)
        top == ptr + n
        p == Scan([a |-> swap(a, ptr, m), lt |-> ptr + 1, pi |-> ptr + 1, pj |-> top, gt |-> top], ptr, cmp)
        less == Least(p.lt - ptr, p.pi - p.lt)
        more == Least(top - p.gt, p.gt - p.pi)
    IN  [a |-> swap_block(swap_block(p.a, ptr, p.pi - less, less), p.pi, top - more, more),
         lt |-> p.pi - p.lt, pgt |-> top - (p.gt - p.pi)]

RECURSIVE Insert(_, _, _, _)
Insert(a, ptr, pj, cmp) ==
    IF pj > ptr /\ cmp[At(a, pj - 1), At(a, pj)] > 0
    THEN Insert(swap(a, pj, pj - 1), ptr, pj - 1, cmp) ELSE a
RECURSIVE InsertionSort(_, _, _, _, _)
InsertionSort(a, ptr, pi, top, cmp) ==
    IF pi >= top THEN a ELSE InsertionSort(Insert(a, ptr, pi, cmp), ptr, pi + 1, top, cmp)

(* stack: the part being sorted and the ones stacked, [base, count,        *)
(* depth].  The local array has as many places as the depth may reach; a   *)
(* push past its end has no result.                                        *)
RECURSIVE SortParts(_, _, _)
SortParts(a, stack, cmp) ==
    IF stack = <<>> THEN a
    ELSE IF Len(stack) > DEPTH_MAX + 1 THEN <<>>
    ELSE LET part == Head(stack)
             rest == Tail(stack)
             depth == part.depth + 1
         IN  IF part.count <= INSERTION_MAX
             THEN SortParts(InsertionSort(a, part.base, part.base + 1, part.base + part.count, cmp), rest, cmp)
             ELSE IF depth > DEPTH_MAX
             THEN SortParts(heapsortx(a, part.base, part.count, cmp), rest, cmp)
             ELSE LET p == Partition(a, part.base, part.count, cmp)
                      low == [base |-> part.base, count |-> p.lt, depth |-> depth]
                      high == [base |-> p.pgt, count |-> part.base + part.count - p.pgt, depth |-> depth]
                  IN  SortParts(p.a, (IF low.count > high.count THEN <<high, low>> ELSE <<low, high>>) \o rest, cmp)
rqsort(a, cmp) ==
    IF Len(a) < 2 THEN a ELSE SortParts(a, <<[base |-> 0, count |-> Len(a), depth |-> 0]>>, cmp)
-----------------------------------------------------------------------------
(***************************************************************************)
(* The operations on the elements of typed arrays, on DataViews and the    *)
(* Atomics: reading and writing converts between numbers and bytes, an     *)
(* argument may detach the buffer half way through, and two views of one   *)
(* buffer may overlap.                                                     *)
(*                                                                         *)
(* A number is a pair: <<"int", n>>, <<"half", n>> (n + 1/2),              *)
(* <<"zero", -1>> (the negative zero), <<"nan", 0>>, <<"inf", 1>>,         *)
(* <<"inf", -1>>; <<"undefined", 0>> is what an absent element reads as.   *)
(* Floats are scaled down to a sign and a magnitude: the two largest       *)
(* magnitudes stand for the infinity and for NaN, the others for integers. *)
(* BigInt arrays are the 8 byte integer classes.                           *)
(***************************************************************************)

CONSTANTS Signed,       \* the classes of signed integers
          Floats        \* Float32Array and Float64Array

Base == Cardinality(Byte)
Power(n) == Base ^ n
Integer(n) == <<"int", n>>
Undefined == <<"undefined", 0>>
Clamped == "uint8c"

(* Conversions of a number: JS_ToInt32, JS_ToUint8Clamp, JS_ToFloat64.     *)
JS_ToInt32(x) == CASE x[1] = "int" -> x[2]
                   [] x[1] = "half" -> IF x[2] < 0 THEN x[2] + 1 ELSE x[2]
                   [] OTHER -> 0
Even(n) == IF n % 2 = 0 THEN n ELSE n + 1
Within(n, lo, hi) == IF n < lo THEN lo ELSE IF n > hi THEN hi ELSE n
JS_ToUint8Clamp(x) == CASE x[1] = "int" -> Within(x[2], 0, Base - 1)
                        [] x[1] = "half" -> Within(Even(x[2]), 0, Base - 1)
                        [] x[1] = "inf" /\ x[2] > 0 -> Base - 1
                        [] OTHER -> 0
ToFloatBits(x, size) ==
    LET sign == Power(size) \div 2
        nan == sign - 1
        n == IF x[1] = "half" THEN Even(x[2]) ELSE x[2]
        mag == IF n < 0 THEN 0 - n ELSE n
        minus == IF x[2] < 0 THEN sign ELSE 0
    IN  CASE x[1] \in {"nan", "undefined"} -> nan
          [] x[1] = "inf" -> minus + nan - 1
          [] x[1] = "zero" -> sign
          [] OTHER -> minus + (IF mag > nan - 2 THEN nan - 1 ELSE mag)
FromFloatBits(bits, size) ==
    LET sign == Power(size) \div 2
        mag == bits % sign
        s == IF bits >= sign THEN -1 ELSE 1
    IN  CASE mag = sign - 1 -> <<"nan", 0>>
          [] mag = sign - 2 -> <<"inf", s>>
          [] mag = 0 /\ s < 0 -> <<"zero", -1>>
          [] OTHER -> Integer(s * mag)

(* The bits an element of a class keeps of a number, and the number that   *)
(* bits read back as.                                                      *)
ToBits(class, x) ==
    CASE class = Clamped -> JS_ToUint8Clamp(x)
      [] class \in Floats -> ToFloatBits(x, SizeOf[class])
      [] OTHER -> JS_ToInt32(x) % Power(SizeOf[class])
FromBits(class, bits) ==
    LET all == Power(SizeOf[class]) IN
    CASE class \in Floats -> FromFloatBits(bits, SizeOf[class])
      [] class \in Signed /\ 2 * bits >= all -> Integer(bits - all)
      [] OTHER -> Integer(bits)

(* Memory is little endian.                                                *)
ToBytes(bits, size) == [i \in 1..size |-> (bits \div Power(i - 1)) % Base]
FromBytes(bytes) ==
    LET f[i \in 0..Len(bytes)] == IF i = 0 THEN 0 ELSE f[i - 1] + bytes[i] * Power(i - 1)
    IN  f[Len(bytes)]
(* An access outside a buffer is not refused: it reads a byte that is none *)
(* and writes past the end.                                                *)
NoByte == Base
Peek(h, b, pos, size) == [i \in 1..size |-> IF pos + i <= ByteLength(h, b) THEN h.data[b][pos + i] ELSE NoByte]
Poke(h, b, pos, bytes) ==
    LET n == Len(bytes)
        end == IF n > 0 /\ pos + n > ByteLength(h, b) THEN pos + n ELSE ByteLength(h, b)
    IN  [h EXCEPT !.data[b] =
            [i \in 1..end |-> IF i - pos \in 1..n THEN bytes[i - pos] ELSE IF i <= Len(@) THEN @[i] ELSE NoByte]]
(* A mutant: memmove replaced by a copy upwards, byte by byte.             *)
MutMemmove(h, b, to, from, src, n) ==
    LET f[i \in 0..n] == IF i = 0 THEN h
                         ELSE Poke(f[i - 1], b, to + i - 1, Peek(f[i - 1], src, from + i - 1, 1))
    IN  f[n]

memmove(h, b, to, from, src, n) == Poke(h, b, to, Peek(h, src, from, n))

IsDetached(h, v) == h.status[h.view[v].buffer] = "detached"
Position(h, v, i) == h.view[v].offset + i * SizeOf[h.view[v].class]
Bits(h, v, i) == FromBytes(Peek(h, h.view[v].buffer, Position(h, v, i), SizeOf[h.view[v].class]))
Store(h, v, i, bits) ==
    Poke(h, h.view[v].buffer, Position(h, v, i), ToBytes(bits, SizeOf[h.view[v].class]))
Element(h, v, i) == FromBits(h.view[v].class, Bits(h, v, i))

JS_GetPropertyValue(h, v, i) == IF i < h.view[v].count THEN Element(h, v, i) ELSE Undefined
(* The conversion comes first: it may detach the array.                    *)
JS_SetPropertyValue(h, v, i, arg) ==
    LET h1 == Converted(h, arg) IN
    IF i >= h1.view[v].count THEN Throw(h1, "TypeError")
    ELSE Return(Store(h1, v, i, ToBits(h1.view[v].class, arg.value)), v)

Plain(x) == [value |-> x, detaches |-> {}]
Given(h, optional) == IF optional = <<>> THEN h ELSE Converted(h, optional[1])
ClampedOr(optional, len, default) ==
    IF optional = <<>> THEN default ELSE JS_ToInt32Clamp(optional[1].value, len)

(* Elements start .. start + n - 1 of v are set one after the other.       *)
SetEach(h, v, start, n, Source(_, _)) ==
    LET f[i \in 0..n] ==
            IF i = 0 THEN Return(h, v)
            ELSE LET r == f[i - 1] IN
                 IF Threw(r) THEN r
                 ELSE JS_SetPropertyValue(r.heap, v, start + i - 1, Source(r.heap, i - 1))
    IN  f[n]

(* The source is another typed array, <<"view", w>>, or an array of        *)
(* arguments, <<"array", args>>.                                           *)
js_typed_array_set_internal(h0, v, source, offset) ==
    LET h == Converted(h0, offset)
        dst == h.view[v]
        at == offset.value
        isView == source[1] = "view"
        len == IF isView THEN h.view[source[2]].count ELSE Len(source[2])
        Value(g, i) == IF isView THEN Plain(JS_GetPropertyValue(g, source[2], i)) ELSE source[2][i + 1]
    IN  CASE at < 0 -> Throw(h, "RangeError")
          [] at >= 0 /\ (IsDetached(h, v) \/ (isView /\ IsDetached(h, source[2]))) -> Throw(h, "TypeError")
          [] OTHER ->
             CASE at > dst.count - len -> Throw(h, "RangeError")
               [] at <= dst.count - len /\ isView /\ h.view[source[2]].class = dst.class ->
                    Return(memmove(h, dst.buffer, Position(h, v, at), h.view[source[2]].offset,
                                   h.view[source[2]].buffer, len * SizeOf[dst.class]), Undefined)
               [] OTHER -> [SetEach(h, v, at, len, Value) EXCEPT !.result = IF @[1] = "ok" THEN <<"ok", Undefined>> ELSE @]

js_typed_array_copyWithin(h, v, target, start, end) ==
    LET len == h.view[v].count
        h1 == Given(Converted(Converted(h, target), start), end)
        to == JS_ToInt32Clamp(target.value, len)
        from == JS_ToInt32Clamp(start.value, len)
        final == ClampedOr(end, len, len)
        count == IF final - from < len - to THEN final - from ELSE len - to
        size == SizeOf[h.view[v].class]
    IN  CASE IsDetached(h, v) -> Throw(h, "TypeError")
          [] ~ IsDetached(h, v) /\ count <= 0 -> Return(h1, v)
          [] OTHER ->
             IF IsDetached(h1, v) THEN Throw(h1, "TypeError")
             ELSE Return(memmove(h1, h.view[v].buffer, Position(h1, v, to), Position(h1, v, from),
                                 h.view[v].buffer, count * size), v)

js_typed_array_fill(h, v, arg, start, end) ==
    LET len == h.view[v].count
        h1 == Given(Given(Converted(h, arg), start), end)
        k == ClampedOr(start, len, 0)
        final == ClampedOr(end, len, len)
        bits == ToBits(h.view[v].class, arg.value)
        f[i \in k..Len(h.data[h.view[v].buffer])] == IF i = k THEN h1 ELSE Store(f[i - 1], v, i - 1, bits)
    IN  CASE IsDetached(h, v) -> Throw(h, "TypeError")
          [] ~ IsDetached(h, v) /\ IsDetached(h1, v) -> Throw(h1, "TypeError")
          [] OTHER -> Return(IF k < final THEN f[final] ELSE h1, v)

(* The predicate is called for one element after the other: calls[i] is    *)
(* its answer and what it detaches.  A detached array reads as undefined.  *)
js_typed_array_find(h, v, calls, findIndex) ==
    LET len == h.view[v].count
        heaps[i \in 0..len] == IF i = 0 THEN h ELSE Converted(heaps[i - 1], calls[i])
        hits == {i \in 1..len : calls[i].value}
        first == CHOOSE i \in hits : \A j \in hits : i <= j
    IN  CASE IsDetached(h, v) -> Throw(h, "TypeError")
          [] ~ IsDetached(h, v) /\ hits = {} ->
                Return(heaps[len], IF findIndex THEN Integer(-1) ELSE Undefined)
          [] OTHER -> Return(heaps[first],
                IF findIndex THEN Integer(first - 1) ELSE JS_GetPropertyValue(heaps[first - 1], v, first - 1))

InElementRange(class, n) ==
    LET all == Power(SizeOf[class]) IN
    IF class \in Signed THEN 2 * n >= 0 - all /\ 2 * n < all ELSE n >= 0 /\ n < all
IsZero(x) == x \in {Integer(0), <<"zero", -1>>}
SameNumber(x, y) == x[1] # "nan" /\ (x = y \/ (IsZero(x) /\ IsZero(y)))
FloatExact(class, x) == SameNumber(FromBits(class, ToBits(class, x)), x)

(* The bits an element is compared with.  A number no element of the class *)
(* can equal is not looked for.  Scanning down an 8 bit array compares     *)
(* with 16 bits.                                                           *)
ScanWidth(class, up) == IF SizeOf[class] = 1 /\ ~ up THEN 2 ELSE SizeOf[class]
ElementMatches(h, v, x, special, i) ==
    LET class == h.view[v].class
        n == JS_ToInt32(x)
        up == special # "lastIndexOf"
    IN  IF class \in Floats
        THEN \/ x[1] = "nan" /\ special = "includes" /\ Element(h, v, i)[1] = "nan"
             \/ FloatExact(class, x) /\ SameNumber(Element(h, v, i), x)
        ELSE /\ x[1] = "int" \/ IsZero(x)
             /\ InElementRange(class, n)
             /\ Bits(h, v, i) = n % Power(ScanWidth(class, up))

js_typed_array_indexOf(h, v, x, from, special) ==
    LET len == h.view[v].count
        h1 == Given(h, from)
        given == from # <<>>
        down == special = "lastIndexOf"
        last == IF given /\ from[1].value < 0 THEN from[1].value + len
                ELSE IF given /\ from[1].value < len - 1 THEN from[1].value ELSE len - 1
        first == IF given THEN JS_ToInt32Clamp(from[1].value, len) ELSE 0
        range == IF down THEN 0..last ELSE first..(len - 1)
        hits == {i \in range : ElementMatches(h1, v, x, special, i)}
        hit == CHOOSE i \in hits : \A j \in hits : IF down THEN j <= i ELSE i <= j
        Answer(i) == IF special = "includes" THEN <<"bool", IF i >= 0 THEN 1 ELSE 0>> ELSE Integer(i)
    IN  CASE IsDetached(h, v) -> Throw(h, "TypeError")
          [] ~ IsDetached(h, v) /\ len = 0 -> Return(h, Answer(-1))
          [] ~ IsDetached(h, v) /\ len > 0 /\ down /\ last < 0 -> Return(h1, Answer(-1))
          [] OTHER -> IF IsDetached(h1, v) THEN Throw(h1, "TypeError")
                      ELSE Return(h1, Answer(IF hits = {} THEN -1 ELSE hit))

(* The strings are not put together: the elements that would be joined.    *)
js_typed_array_join(h, v, separator) ==
    LET n == h.view[v].count
        h1 == Given(h, separator)
    IN  IF IsDetached(h, v) THEN Throw(h, "TypeError")
        ELSE Return(h1, [i \in 1..n |-> JS_GetPropertyValue(h1, v, i - 1)])

js_typed_array_reverse(h, v) ==
    LET len == h.view[v].count
        f[i \in 0..(len \div 2)] ==
            IF i = 0 THEN h
            ELSE Store(Store(f[i - 1], v, i - 1, Bits(f[i - 1], v, len - i)), v, len - i, Bits(f[i - 1], v, i - 1))
    IN  IF IsDetached(h, v) THEN Throw(h, "TypeError") ELSE Return(f[len \div 2], v)

(* memcpy of regions that overlap may go either way, up or down.           *)
memcpy(h, b, to, from, src, n, up) ==
    LET place(i) == IF up THEN i - 1 ELSE n - i
        f[i \in 0..n] == IF i = 0 THEN h
                         ELSE memmove(f[i - 1], b, to + place(i), from + place(i), src, 1)
    IN  f[n]

(* new TypedArray(length), with a buffer b of its own.                     *)
NewArray(h, v, class, b, len) ==
    typed_array_init(NewBuffer(h, b, len * SizeOf[class], FALSE), v, class, b, 0, len)

(* A constructor species = [target, detaches] found through the species    *)
(* property or given as this: no target is the default one, a target a     *)
(* typed array it returns instead of a new one.                            *)
js_typed_array_create(h, species, class, v, b, len) ==
    LET h1 == JS_DetachArrayBuffer(h, species.detaches) IN
    IF species.target = <<>> THEN Return(NewArray(h1, v, class, b, len), v)
    ELSE IF IsDetached(h1, species.target[1]) \/ h1.view[species.target[1]].count < len
    THEN Throw(h1, "TypeError") ELSE Return(h1, species.target[1])

js_typed_array_slice(h, v, begin, end, species, w, b, up) ==
    LET len == h.view[v].count
        class == h.view[v].class
        start == JS_ToInt32Clamp(begin.value, len)
        final == ClampedOr(end, len, len)
        count == IF final > start THEN final - start ELSE 0
        r == js_typed_array_create(Given(Converted(h, begin), end), species, class, w, b, count)
        g == r.heap
        to == r.result[2]
        Value(k, i) == Plain(JS_GetPropertyValue(k, v, start + i))
    IN  CASE IsDetached(h, v) -> Throw(h, "TypeError")
          [] ~ IsDetached(h, v) /\ (Threw(r) \/ count = 0) -> r
          [] OTHER ->
             CASE IsDetached(g, v) \/ IsDetached(g, to) -> Throw(g, "TypeError")
               [] ~ (IsDetached(g, v) \/ IsDetached(g, to)) /\ g.view[to].class = class ->
                    Return(memcpy(g, g.view[to].buffer, g.view[to].offset, Position(g, v, start),
                                  g.view[v].buffer, count * SizeOf[class], up), to)
               [] OTHER -> SetEach(g, to, 0, count, Value)

js_array_buffer_slice(h, b, begin, end, species, c) ==
    LET len == ByteLength(h, b)
        start == JS_ToInt32Clamp(begin.value, len)
        final == ClampedOr(end, len, len)
        new_len == IF final > start THEN final - start ELSE 0
        h1 == JS_DetachArrayBuffer(Given(Converted(h, begin), end), species.detaches)
        to == IF species.target = <<>> THEN c ELSE species.target[1]
        g == IF species.target = <<>> THEN NewBuffer(h1, c, new_len, FALSE) ELSE h1
    IN  IF \/ h.status[b] = "detached" \/ to = b \/ g.status[to] = "detached"
           \/ ByteLength(g, to) < new_len \/ g.status[b] = "detached"
        THEN Throw(IF h.status[b] = "detached" THEN h ELSE g, "TypeError")
        ELSE Return(memmove(g, to, 0, start, b, new_len), to)

(* new TypedArray(src): the species constructor of the buffer may detach.  *)
js_typed_array_constructor_ta(h, v, class, src, b, species) ==
    LET len == h.view[src].count
        h1 == JS_DetachArrayBuffer(h, species.detaches)
        g == NewArray(h1, v, class, b, len)
        Value(k, i) == Plain(JS_GetPropertyValue(k, src, i))
    IN  CASE IsDetached(h, src) -> Throw(h, "TypeError")
          [] ~ IsDetached(h, src) /\ IsDetached(h1, src) -> Throw(h1, "TypeError")
          [] OTHER -> IF h.view[src].class = class
                      THEN Return(memmove(g, b, 0, h.view[src].offset, h.view[src].buffer,
                                          ByteLength(g, b)), v)
                      ELSE SetEach(g, v, 0, len, Value)
(* TypedArray.of and from, and new TypedArray(array): args[i] is the value *)
(* of element i.                                                           *)
js_typed_array_of(h, species, class, v, b, args) ==
    LET r == js_typed_array_create(h, species, class, v, b, Len(args))
        Value(k, i) == args[i + 1]
    IN  IF Threw(r) THEN r ELSE SetEach(r.heap, r.result[2], 0, Len(args), Value)

(* TypedArray.prototype.sort.  compare is <<>> or the comparison function  *)
(* of the script: its answers and what its first call detaches.            *)
js_cmp_doubles(x, y) ==
    LET Key(z) == CASE z[1] = "nan" -> 1000 [] z[1] = "inf" -> 999 * z[2]
                    [] z[1] = "zero" -> -1 [] OTHER -> 2 * z[2]
    IN  Key(x) - Key(y)
js_TA_cmp_generic(cmp, elements) ==
    [i, j \in DOMAIN elements |->
        LET c == cmp[elements[i], elements[j]] IN IF c # 0 THEN c ELSE i - j]
js_typed_array_sort(h, v, compare) ==
    LET len == h.view[v].count
        h1 == IF len > 1 THEN Given(h, compare) ELSE h
        elements == [i \in 1..len |-> Element(h, v, i - 1)]
        S == {elements[i] : i \in 1..len}
        order == IF compare = <<>>
                 THEN rqsort(elements, [x, y \in S |-> js_cmp_doubles(x, y)])
                 ELSE LET idx == rqsort([i \in 1..len |-> i], js_TA_cmp_generic(compare[1].value, elements))
                      IN  [i \in 1..len |-> elements[idx[i]]]
        f[i \in 0..len] == IF i = 0 THEN h1
                           ELSE Store(f[i - 1], v, i - 1, ToBits(h.view[v].class, order[i]))
    IN  CASE IsDetached(h, v) -> Throw(h, "TypeError")
          [] ~ IsDetached(h, v) /\ IsDetached(h1, v) -> Throw(h1, "TypeError")
          [] OTHER -> Return(f[len], v)

(* The bytes of a value in the order asked for.                            *)
Swapped(bytes, little) == IF little THEN bytes ELSE [i \in DOMAIN bytes |-> bytes[Len(bytes) + 1 - i]]
OutOfView(h, v, pos, size) == pos + size > h.view[v].length
js_dataview_getValue(h, v, class, pos, little) ==
    LET h1 == Converted(h, pos)
        size == SizeOf[class]
    IN  CASE pos.value < 0 -> Throw(h1, "RangeError")
          [] pos.value >= 0 /\ IsDetached(h1, v) -> Throw(h1, "TypeError")
          [] pos.value >= 0 /\ ~ IsDetached(h1, v) /\ OutOfView(h1, v, pos.value, size) -> Throw(h1, "RangeError")
          [] OTHER -> Return(h1, FromBits(class, FromBytes(Swapped(
                        Peek(h1, h1.view[v].buffer, h1.view[v].offset + pos.value, size), little))))
js_dataview_setValue(h, v, class, pos, arg, little) ==
    LET h1 == Converted(h, pos)
        h2 == Converted(h1, arg)
        size == SizeOf[class]
    IN  CASE pos.value < 0 -> Throw(h1, "RangeError")
          [] pos.value >= 0 /\ IsDetached(h2, v) -> Throw(h2, "TypeError")
          [] pos.value >= 0 /\ ~ IsDetached(h2, v) /\ OutOfView(h2, v, pos.value, size) -> Throw(h2, "RangeError")
          [] OTHER -> Return(Poke(h2, h2.view[v].buffer, h2.view[v].offset + pos.value,
                                  Swapped(ToBytes(ToBits(class, arg.value), size), little)), Undefined)

(* Atomics: the element is found first, then the operands are converted.   *)
js_atomics_get_ptr(h, v, index) ==
    LET h1 == Converted(h, index) IN
    CASE h.view[v].class \in Floats \cup {Clamped} \/ IsDetached(h, v) -> Throw(h, "TypeError")
      [] h.view[v].class \notin Floats \cup {Clamped} /\ ~ IsDetached(h, v)
            /\ (index.value < 0 \/ index.value >= h1.view[v].count) -> Throw(h1, "RangeError")
      [] OTHER -> Return(h1, index.value)
BitOf(n, k) == (n \div 2 ^ k) % 2
BitByBit(Op(_, _), a, b, top) ==
    LET f[k \in 0..top] == IF k = 0 THEN 0
                           ELSE f[k - 1] + 2 ^ (k - 1) * Op(BitOf(a, k - 1), BitOf(b, k - 1))
    IN  f[top]
Updated(op, a, v, expected, all) ==
    LET Both(x, y) == x * y
        Either(x, y) == IF x + y > 0 THEN 1 ELSE 0
        One(x, y) == (x + y) % 2
        top == CHOOSE k \in 0..30 : 2 ^ k = all
    IN  CASE op = "add" -> (a + v) % all
          [] op = "sub" -> (a - v) % all
          [] op = "and" -> BitByBit(Both, a, v, top)
          [] op = "or" -> BitByBit(Either, a, v, top)
          [] op = "xor" -> BitByBit(One, a, v, top)
          [] op = "exchange" -> v
          [] op = "load" -> a
          [] op = "compareExchange" -> IF a = expected THEN v ELSE a
(* arg is the operand, replaced the value compareExchange stores.          *)
js_atomics_op(h, v, index, op, arg, replaced) ==
    LET r == js_atomics_get_ptr(h, v, index)
        g == IF op = "load" THEN r.heap
             ELSE LET k == Converted(r.heap, arg)
                  IN  IF op = "compareExchange" THEN Converted(k, replaced) ELSE k
        class == h.view[v].class
        a == Bits(g, v, index.value)
        bits == ToBits(class, arg.value)
        new == IF op = "compareExchange"
               THEN Updated(op, a, ToBits(class, replaced.value), bits, Power(SizeOf[class]))
               ELSE Updated(op, a, bits, bits, Power(SizeOf[class]))
    IN  CASE Threw(r) -> r
          [] ~ Threw(r) /\ op # "load" /\ IsDetached(g, v) -> Throw(g, "TypeError")
          [] OTHER -> Return(Store(g, v, index.value, new), FromBits(class, a))
js_atomics_store(h, v, index, arg) ==
    LET r == js_atomics_get_ptr(h, v, index)
        g == Converted(r.heap, arg)
    IN  CASE Threw(r) -> r
          [] ~ Threw(r) /\ IsDetached(g, v) -> Throw(g, "TypeError")
          [] OTHER -> Return(Store(g, v, index.value, ToBits(h.view[v].class, arg.value)),
                             IF arg.value[1] = "inf" THEN arg.value ELSE Integer(JS_ToInt32(arg.value)))
-----------------------------------------------------------------------------
(***************************************************************************)
(* What the operations of TypedArrays promise, said in terms of sequences  *)
(* of numbers: the elements of a view before and after.  A question q is a *)
(* record that names an operation and its arguments; Perform(h, q) is what *)
(* the engine does and the rules below say what is expected of it.         *)
(***************************************************************************)

Elements(h, v) == [i \in 1..h.view[v].count |-> Element(h, v, i - 1)]

(* Twice a finite number, an integer.                                      *)
Twice(x) == CASE x[1] = "int" -> 2 * x[2] [] x[1] = "half" -> 2 * x[2] + 1 [] OTHER -> 0
Finite(x) == x[1] \in {"int", "half", "zero"}
Magnitude(n) == IF n < 0 THEN 0 - n ELSE n

(* The number of the set S nearest to x, the even one of two.              *)
Nearest(S, x) ==
    CHOOSE n \in S : \A k \in S :
        LET d == Magnitude(2 * n - Twice(x))
            e == Magnitude(2 * k - Twice(x))
        IN  d < e \/ (d = e /\ (n = k \/ n % 2 = 0))
ClassRange(class) ==
    LET all == Power(SizeOf[class])
    IN  IF class \in Signed THEN (0 - all \div 2)..(all \div 2 - 1) ELSE 0..(all - 1)
Largest(class) == Power(SizeOf[class]) \div 2 - 3

(* The number an element of a class holds after x was assigned to it.      *)
Stored(class, x) ==
    LET all == Power(SizeOf[class])
        Truncated == IF Twice(x) < 0 THEN 0 - ((0 - Twice(x)) \div 2) ELSE Twice(x) \div 2
        n == Nearest(((0 - Largest(class)) - 1)..(Largest(class) + 1), x)
        negative == Twice(x) < 0 \/ x = <<"zero", -1>>
    IN  CASE class = Clamped /\ Finite(x) -> Integer(Nearest(0..(Base - 1), x))
          [] class = Clamped /\ ~ Finite(x) -> Integer(IF x = <<"inf", 1>> THEN Base - 1 ELSE 0)
          [] class \in Floats /\ ~ Finite(x) -> IF x[1] = "inf" THEN x ELSE <<"nan", 0>>
          [] class \in Floats /\ Finite(x) ->
                IF Magnitude(n) > Largest(class) THEN <<"inf", IF negative THEN -1 ELSE 1>>
                ELSE IF n = 0 /\ negative THEN <<"zero", -1>> ELSE Integer(n)
          [] OTHER -> Integer(IF Finite(x) THEN CHOOSE y \in ClassRange(class) : (y - Truncated) % all = 0 ELSE 0)

(* From the end of len elements when negative.                             *)
Relative(x, len) == LET y == IF x < 0 THEN len + x ELSE x
                    IN  CHOOSE k \in 0..len : \A j \in 0..len : Magnitude(k - y) <= Magnitude(j - y)
RelativeOr(optional, len, default) == IF optional = <<>> THEN default ELSE Relative(optional[1].value, len)

Perform(h, q) ==
    CASE q.op = "set" -> js_typed_array_set_internal(h, q.v, q.source, q.offset)
      [] q.op = "copyWithin" -> js_typed_array_copyWithin(h, q.v, q.target, q.start, q.end)
      [] q.op = "fill" -> js_typed_array_fill(h, q.v, q.arg, q.from, q.end)
      [] q.op = "find" -> js_typed_array_find(h, q.v, q.calls, q.findIndex)
      [] q.op \in {"indexOf", "lastIndexOf", "includes"} -> js_typed_array_indexOf(h, q.v, q.x, q.from, q.op)
      [] q.op = "join" -> js_typed_array_join(h, q.v, q.separator)
      [] q.op = "reverse" -> js_typed_array_reverse(h, q.v)
      [] q.op = "slice" -> js_typed_array_slice(h, q.v, q.start, q.end, q.species, q.w, q.b, q.up)
      [] q.op = "bufferSlice" -> js_array_buffer_slice(h, h.view[q.v].buffer, q.start, q.end, q.species, q.b)
      [] q.op = "copy" -> js_typed_array_constructor_ta(h, q.w, q.class, q.v, q.b, q.species)
      [] q.op = "of" -> js_typed_array_of(h, q.species, h.view[q.v].class, q.w, q.b, q.args)
      [] q.op = "sort" -> js_typed_array_sort(h, q.v, q.compare)
      [] q.op = "get" -> js_dataview_getValue(h, q.v, q.class, q.pos, q.little)
      [] q.op = "put" -> js_dataview_setValue(h, q.v, q.class, q.pos, q.arg, q.little)
      [] q.op = "atomic" -> js_atomics_op(h, q.v, q.index, q.kind, q.arg, q.replaced)
      [] q.op = "store" -> js_atomics_store(h, q.v, q.index, q.arg)

(* What an operation may change: the elements of v and nothing else.       *)
OnlyIn(h, g, v) ==
    /\ g.view = h.view /\ g.status = h.status
    /\ \A b \in Buffers : \A p \in 1..ByteLength(h, b) :
          \/ g.data[b][p] = h.data[b][p]
          \/ b = h.view[v].buffer /\ p - h.view[v].offset \in 1..h.view[v].length
Unchanged(h, g) == g.view = h.view /\ g.status = h.status /\ g.data = h.data
Fails(r, error) == r.result = <<"throw", error>>

Overlaps(h, v, w) ==
    LET x == h.view[v] y == h.view[w] IN
    x.buffer = y.buffer /\ x.offset < y.offset + y.length /\ y.offset < x.offset + x.length

(* set: the elements from offset on become those of the source as they     *)
(* were before, converted; or nothing changes at all.                      *)
SetExpected(h, q, r) ==
    LET old == Elements(h, q.v)
        class == h.view[q.v].class
        values == IF q.source[1] = "view" THEN Elements(h, q.source[2])
                  ELSE [i \in DOMAIN q.source[2] |-> q.source[2][i].value]
        at == q.offset.value
    IN  IF at < 0 \/ at + Len(values) > Len(old) THEN Fails(r, "RangeError") /\ Unchanged(h, r.heap)
        ELSE /\ r.result = <<"ok", Undefined>> /\ OnlyIn(h, r.heap, q.v)
             /\ Elements(r.heap, q.v) =
                   [i \in DOMAIN old |-> IF i - at \in DOMAIN values THEN Stored(class, values[i - at]) ELSE old[i]]
(* Two views of different classes over the same bytes.                     *)
Reinterprets(h, q) == /\ q.op = "set" /\ q.source[1] = "view" /\ Overlaps(h, q.v, q.source[2])
                      /\ h.view[q.v].class # h.view[q.source[2]].class

(* copyWithin and fill: a range of elements is replaced.                   *)
CopyWithinExpected(h, q, r) ==
    LET old == Elements(h, q.v)
        to == Relative(q.target.value, Len(old))
        from == Relative(q.start.value, Len(old))
        end == RelativeOr(q.end, Len(old), Len(old))
    IN  /\ r.result = <<"ok", q.v>> /\ OnlyIn(h, r.heap, q.v)
        /\ Elements(r.heap, q.v) =
              [i \in DOMAIN old |-> IF i > to /\ i - to + from <= end THEN old[i - to + from] ELSE old[i]]
FillExpected(h, q, r) ==
    LET old == Elements(h, q.v)
        range == (RelativeOr(q.from, Len(old), 0) + 1)..RelativeOr(q.end, Len(old), Len(old))
    IN  /\ r.result = <<"ok", q.v>> /\ OnlyIn(h, r.heap, q.v)
        /\ Elements(r.heap, q.v) =
              [i \in DOMAIN old |-> IF i \in range THEN Stored(h.view[q.v].class, q.arg.value) ELSE old[i]]
ReverseExpected(h, q, r) ==
    LET old == Elements(h, q.v) IN
    /\ OnlyIn(h, r.heap, q.v)
    /\ Elements(r.heap, q.v) = [i \in DOMAIN old |-> old[Len(old) + 1 - i]]

(* find: the first element the predicate accepts.                          *)
FindExpected(h, q, r) ==
    LET old == Elements(h, q.v)
        hits == {i \in DOMAIN old : q.calls[i].value}
        first == CHOOSE i \in hits : \A j \in hits : i <= j
    IN  r.result[2] = IF hits = {} THEN (IF q.findIndex THEN Integer(-1) ELSE Undefined)
                      ELSE IF q.findIndex THEN Integer(first - 1) ELSE old[first]

(* indexOf, lastIndexOf, includes: the first (last) position from a given  *)
(* one on that holds the number; only includes finds NaN.                  *)
SearchExpected(h, q, r) ==
    LET old == Elements(h, q.v)
        len == Len(old)
        from == q.from[1].value
        range == IF q.op = "lastIndexOf"
                 THEN 1..(IF q.from = <<>> THEN len ELSE IF from < 0 THEN len + from + 1 ELSE from + 1)
                 ELSE (RelativeOr(q.from, len, 0) + 1)..len
        hits == {i \in range \cap DOMAIN old : SameNumber(old[i], q.x) \/ (q.op = "includes" /\ old[i] = q.x)}
        hit == IF q.op = "lastIndexOf" THEN CHOOSE i \in hits : \A j \in hits : j <= i
               ELSE CHOOSE i \in hits : \A j \in hits : i <= j
    IN  r.result = <<"ok", CASE q.op = "includes" -> <<"bool", IF hits = {} THEN 0 ELSE 1>>
                             [] q.op # "includes" /\ hits = {} -> Integer(-1)
                             [] OTHER -> Integer(hit - 1)>>
(* A negative number is not found from the end of an array of bytes.       *)
NegativeFromEnd(h, q) == /\ q.op = "lastIndexOf" /\ h.view[q.v].class \in Signed
                         /\ SizeOf[h.view[q.v].class] = 1 /\ Twice(q.x) < 0

(* slice: a new array of the class holds the elements of the range; an     *)
(* array a species constructor returns holds them first, converted.        *)
SliceExpected(h, q, r) ==
    LET old == Elements(h, q.v)
        range == SubSeq(old, Relative(q.start.value, Len(old)) + 1, RelativeOr(q.end, Len(old), Len(old)))
        w == r.result[2]
        new == Elements(r.heap, w)
        class == r.heap.view[w].class
    IN  IF q.species.target = <<>>
        THEN /\ new = range /\ class = h.view[q.v].class /\ Elements(r.heap, q.v) = old
        ELSE LET target == q.species.target[1] IN
             IF h.view[target].count < Len(range) THEN Fails(r, "TypeError") /\ Unchanged(h, r.heap)
             ELSE /\ w = target /\ OnlyIn(h, r.heap, target)
                  /\ SubSeq(new, 1, Len(range)) = [i \in DOMAIN range |-> Stored(class, range[i])]
BufferSliceExpected(h, q, r) ==
    LET b == h.view[q.v].buffer
        old == h.data[b]
        range == SubSeq(old, Relative(q.start.value, Len(old)) + 1, RelativeOr(q.end, Len(old), Len(old)))
        target == q.species.target
    IN  IF target # <<>> /\ (target[1] = b \/ ByteLength(h, target[1]) < Len(range))
        THEN Fails(r, "TypeError") /\ Unchanged(h, r.heap)
        ELSE SubSeq(r.heap.data[r.result[2]], 1, Len(range)) = range /\ (target # <<>> \/ ByteLength(r.heap, q.b) = Len(range))

(* new TypedArray(array), of and from: every element converted.            *)
CopyExpected(h, q, r) ==
    LET old == Elements(h, q.v) IN
    /\ r.result = <<"ok", q.w>>
    /\ Elements(r.heap, q.w) = [i \in DOMAIN old |-> Stored(q.class, old[i])]
OfExpected(h, q, r) ==
    LET w == r.result[2]
        values == [i \in DOMAIN q.args |-> Stored(r.heap.view[w].class, q.args[i].value)]
    IN  IF q.species.target # <<>> /\ h.view[q.species.target[1]].count < Len(q.args)
        THEN Fails(r, "TypeError") /\ Unchanged(h, r.heap)
        ELSE SubSeq(Elements(r.heap, w), 1, Len(values)) = values

(* sort: a permutation, ordered when the comparison orders anything; equal *)
(* elements keep their order.  An ordering that contradicts itself still   *)
(* loses nothing.                                                          *)
NumberBelow(x, y) ==
    \/ x[1] # "nan" /\ y[1] = "nan"
    \/ x[1] # "nan" /\ y[1] # "nan" /\ (x = <<"inf", -1>> \/ y = <<"inf", 1>>) /\ x # y
    \/ Finite(x) /\ Finite(y) /\ (Twice(x) < Twice(y) \/ (x = <<"zero", -1>> /\ y = Integer(0)))
Occurrences(s, x) == Cardinality({i \in DOMAIN s : s[i] = x})
Consistent(cmp, S) ==
    /\ \A x, y \in S : (cmp[x, y] < 0) = (cmp[y, x] > 0)
    /\ \A x, y, z \in S : cmp[x, y] <= 0 /\ cmp[y, z] <= 0 => cmp[x, z] <= 0
SortExpected(h, q, r) ==
    LET old == Elements(h, q.v)
        new == Elements(r.heap, q.v)
        S == {old[i] : i \in DOMAIN old}
        cmp == q.compare[1].value
        place(i) == Cardinality({j \in DOMAIN old :
                        cmp[old[j], old[i]] < 0 \/ (cmp[old[j], old[i]] = 0 /\ j <= i)})
    IN  /\ r.result = <<"ok", q.v>> /\ OnlyIn(h, r.heap, q.v)
        /\ \A x \in S : Occurrences(new, x) = Occurrences(old, x)
        /\ q.compare = <<>> => \A i, j \in DOMAIN new : i < j => ~ NumberBelow(new[j], new[i])
        /\ q.compare # <<>> /\ Consistent(cmp, S) => \A i \in DOMAIN old : new[place(i)] = old[i]

(* DataView: the bytes of a value, most significant first unless little.   *)
Significant(h, q) ==
    LET base == h.view[q.v].offset + q.pos.value
        size == SizeOf[q.class]
    IN  [i \in 1..size |-> h.data[h.view[q.v].buffer][base + (IF q.little THEN size + 1 - i ELSE i)]]
NumberOf(class, digits) ==
    LET f[i \in 0..Len(digits)] == IF i = 0 THEN 0 ELSE f[i - 1] * Base + digits[i]
        n == f[Len(digits)]
        sign == Power(SizeOf[class]) \div 2
    IN  CASE class \in Signed -> Integer(IF n >= sign THEN n - Power(SizeOf[class]) ELSE n)
          [] class \in Floats /\ n % sign > Largest(class) ->
                IF n % sign = Largest(class) + 1 THEN <<"inf", IF n >= sign THEN -1 ELSE 1>> ELSE <<"nan", 0>>
          [] class \in Floats /\ n % sign <= Largest(class) ->
                IF n = sign THEN <<"zero", -1>> ELSE Integer(IF n > sign THEN sign - n ELSE n)
          [] OTHER -> Integer(n)
ViewExpected(h, q, r) ==
    IF q.pos.value < 0 \/ q.pos.value + SizeOf[q.class] > h.view[q.v].length
    THEN Fails(r, "RangeError") /\ Unchanged(h, r.heap)
    ELSE IF q.op = "get" THEN r.result = <<"ok", NumberOf(q.class, Significant(h, q))>> /\ Unchanged(h, r.heap)
    ELSE /\ NumberOf(q.class, Significant(r.heap, q)) = Stored(q.class, q.arg.value)
         /\ OnlyIn(h, r.heap, q.v)
         /\ \A p \in 1..ByteLength(h, h.view[q.v].buffer) :
               p - h.view[q.v].offset - q.pos.value \in 1..SizeOf[q.class]
               \/ r.heap.data[h.view[q.v].buffer][p] = h.data[h.view[q.v].buffer][p]

(* Atomics: the old number is answered, and the new one is the operation   *)
(* on numbers, as an element holds it.                                     *)
AtomicExpected(h, q, r) ==
    LET old == Elements(h, q.v)
        class == h.view[q.v].class
        at == q.index.value + 1
        n == old[at][2]
        arg == Stored(class, q.arg.value)[2]
        Digit(x, k) == ((x % Power(SizeOf[class])) \div 2 ^ k) % 2
        Same(y, Op(_, _)) == \A k \in 0..5 : 2 ^ k < Power(SizeOf[class]) => (Digit(y, k) = 1) = Op(Digit(n, k) = 1, Digit(arg, k) = 1)
        new == Elements(r.heap, q.v)[at][2]
    IN  IF class \in Floats \cup {Clamped} THEN Fails(r, "TypeError") /\ Unchanged(h, r.heap)
        ELSE IF at \notin DOMAIN old THEN Fails(r, "RangeError") /\ Unchanged(h, r.heap)
        ELSE /\ OnlyIn(h, r.heap, q.v)
             /\ \A i \in DOMAIN old : i # at => Elements(r.heap, q.v)[i] = old[i]
             /\ IF q.op = "store" THEN new = arg
                ELSE /\ r.result = <<"ok", old[at]>>
                     /\ CASE q.kind = "add" -> new = Stored(class, Integer(n + arg))[2]
                          [] q.kind = "sub" -> new = Stored(class, Integer(n - arg))[2]
                          [] q.kind = "and" -> Same(new, LAMBDA x, y : x /\ y)
                          [] q.kind = "or" -> Same(new, LAMBDA x, y : x \/ y)
                          [] q.kind = "xor" -> Same(new, LAMBDA x, y : x # y)
                          [] q.kind = "exchange" -> new = arg
                          [] q.kind = "load" -> new = n
                          [] q.kind = "compareExchange" ->
                                new = IF n = arg THEN Stored(class, q.replaced.value)[2] ELSE n

Expected(h, q, r) ==
    CASE q.op = "set" -> SetExpected(h, q, r)
      [] q.op = "copyWithin" -> CopyWithinExpected(h, q, r)
      [] q.op = "fill" -> FillExpected(h, q, r)
      [] q.op = "find" -> FindExpected(h, q, r)
      [] q.op \in {"indexOf", "lastIndexOf", "includes"} -> SearchExpected(h, q, r)
      [] q.op = "join" -> r.result = <<"ok", Elements(h, q.v)>>
      [] q.op = "reverse" -> ReverseExpected(h, q, r)
      [] q.op = "slice" -> SliceExpected(h, q, r)
      [] q.op = "bufferSlice" -> BufferSliceExpected(h, q, r)
      [] q.op = "copy" -> CopyExpected(h, q, r)
      [] q.op = "of" -> OfExpected(h, q, r)
      [] q.op = "sort" -> SortExpected(h, q, r)
      [] q.op \in {"get", "put"} -> ViewExpected(h, q, r)
      [] q.op \in {"atomic", "store"} -> AtomicExpected(h, q, r)

(* memcpy between overlapping regions has no defined outcome.              *)
CopiesOntoItself(h, q) == q.op = "slice" /\ q.species.target # <<>> /\ Overlaps(h, q.v, q.species.target[1])
===============================================================================
