----------------------------- MODULE ArrayBuffers -----------------------------
(***************************************************************************)
(* ArrayBuffer and SharedArrayBuffer objects, the typed arrays and         *)
(* DataViews that look into them, detaching and finalizing.  A buffer      *)
(* keeps the list of its views (array_list); a typed array caches the      *)
(* number of its elements in the object (count) beside the offset and the  *)
(* length of its JSTypedArray record, and detaching the buffer has to find *)
(* and clear every such cache.                                             *)
(*                                                                         *)
(* Converting an argument runs script code.  An argument is a record       *)
(* [value, detaches]: the number it converts to and the buffers the        *)
(* conversion detaches on the way.  JS_DetachArrayBuffer belongs to the    *)
(* interface of the engine; the embedder calls it from a native function.  *)
(* js_create_from_ctor may run a getter too, for the prototype of the new  *)
(* object: a record [detaches, throws].  The typed array constructor does  *)
(* not look at the buffer again after it, the DataView constructor does.   *)
(* A view remembers the status its buffer had when it was made, which only *)
(* the model does: a typed array made on a buffer that was detached there  *)
(* counts elements that do not exist.                                      *)
(***************************************************************************)
EXTENDS Integers, Sequences, FiniteSets

CONSTANTS Buffers,      \* the ArrayBuffer objects
          Views,        \* the typed array and DataView objects
          Classes,      \* the classes of typed arrays
          SizeOf,       \* the bytes of one element of each class
          Byte,         \* the values of a byte, 0 .. 255 in the code
          DataView,     \* JS_CLASS_DATAVIEW
          None          \* no class: the object does not exist

ASSUME SizesAssumption ==
    /\ SizeOf \in [Classes -> {1, 2, 4, 8}]
    /\ DataView \notin Classes /\ None \notin Classes /\ DataView # None
ASSUME ByteAssumption == 0 \in Byte

VARIABLES heap,         \* the objects
          dying         \* the garbage a running collection has still to finalize

NoView(b) == [class |-> None, buffer |-> b, offset |-> 0, length |-> 0, count |-> 0, made |-> "live"]
Exists(h, v) == h.view[v].class # None
Late(h, v) == h.view[v].made = "detached"
IsTyped(h, v) == h.view[v].class \in Classes
ByteLength(h, b) == Len(h.data[b])

Throw(h, error) == [heap |-> h, result |-> <<"throw", error>>]
Return(h, x) == [heap |-> h, result |-> <<"ok", x>>]
Threw(r) == r.result[1] = "throw"

(* A mutant: only the first view of the list is cleared.                   *)
MutCleared(view, list) ==
    [v \in DOMAIN view |->
        IF list # {} /\ v = (CHOOSE w \in list : TRUE) /\ view[v].class # DataView
        THEN [view[v] EXCEPT !.count = 0] ELSE view[v]]

(* The data pointer of a typed array goes with count: both are cleared.    *)
Cleared(view, list) ==
    [v \in DOMAIN view |->
        IF v \in list /\ view[v].class # DataView
        THEN [view[v] EXCEPT !.count = 0] ELSE view[v]]

(* Every buffer of D is detached.                                          *)
JS_DetachArrayBuffer(h, D) ==
    LET gone == {b \in D : h.status[b] = "live" /\ ~ h.shared[b]} IN
    [h EXCEPT !.data = [b \in DOMAIN h.data |-> IF b \in gone THEN <<>> ELSE h.data[b]],
              !.status = [b \in DOMAIN h.status |-> IF b \in gone THEN "detached" ELSE h.status[b]],
              !.view = Cleared(h.view, UNION {h.list[b] : b \in gone})]
Converted(h, arg) == JS_DetachArrayBuffer(h, arg.detaches)
js_create_from_ctor(h, proto) == JS_DetachArrayBuffer(h, proto.detaches)
PlainPrototype == [detaches |-> {}, throws |-> FALSE]

(* js_array_buffer_constructor3: the bytes are zeroed.                     *)
NewBuffer(h, b, len, shared) ==
    [h EXCEPT !.data[b] = [i \in 1..len |-> 0], !.status[b] = "live", !.shared[b] = shared,
              !.held[b] = TRUE]

typed_array_init(h, v, class, b, offset, len) ==
    [h EXCEPT !.view[v] = [class |-> class, buffer |-> b, offset |-> offset,
                           length |-> len * SizeOf[class], count |-> len,
                           made |-> h.status[b]],
              !.list[b] = @ \cup {v}]

(* new TypedArray(buffer, offset, length); no length: the rest of it.      *)
js_typed_array_constructor(h, v, class, b, offset, length, proto) ==
    LET size == SizeOf[class]
        h1 == Converted(h, offset)
        bytes == ByteLength(h1, b)
        start == offset.value
        h2 == IF length = <<>> THEN h1 ELSE Converted(h1, length[1])
        len == IF length = <<>> THEN (bytes - start) \div size ELSE length[1].value
        h3 == js_create_from_ctor(h2, proto)
    IN  CASE start < 0 -> Throw(h1, "RangeError")
          [] start >= 0 /\ h1.status[b] = "detached" -> Throw(h1, "TypeError")
          [] start >= 0 /\ h1.status[b] # "detached" /\ (start % size # 0 \/ start > bytes) ->
                Throw(h1, "RangeError")
          [] OTHER ->
             CASE length = <<>> /\ bytes % size # 0 -> Throw(h1, "RangeError")
               [] length # <<>> /\ len < 0 -> Throw(h2, "RangeError")
               [] length # <<>> /\ len >= 0 /\ h2.status[b] = "detached" -> Throw(h2, "TypeError")
               [] length # <<>> /\ len >= 0 /\ h2.status[b] # "detached"
                    /\ start + len * size > ByteLength(h2, b) -> Throw(h2, "RangeError")
               [] OTHER -> IF proto.throws THEN Throw(h3, "exception")
                           ELSE Return(typed_array_init(h3, v, class, b, start, len), v)

(* The length is compared with what was left before it was converted.      *)
js_dataview_constructor(h, v, b, offset, length, proto) ==
    LET h1 == Converted(h, offset)
        start == offset.value
        left == ByteLength(h1, b) - start
        h2 == IF length = <<>> THEN h1 ELSE Converted(h1, length[1])
        len == IF length = <<>> THEN left ELSE length[1].value
        h3 == js_create_from_ctor(h2, proto)
    IN  CASE start < 0 -> Throw(h1, "RangeError")
          [] start >= 0 /\ h1.status[b] = "detached" -> Throw(h1, "TypeError")
          [] start >= 0 /\ h1.status[b] # "detached" /\ left < 0 -> Throw(h1, "RangeError")
          [] OTHER ->
             CASE len < 0 \/ len > left -> Throw(h2, "RangeError")
               [] len >= 0 /\ len <= left /\ proto.throws -> Throw(h3, "exception")
               [] len >= 0 /\ len <= left /\ ~ proto.throws /\ h3.status[b] = "detached" -> Throw(h3, "TypeError")
               [] OTHER ->
                  Return([h3 EXCEPT !.view[v] = [class |-> DataView, buffer |-> b, offset |-> start,
                                                 length |-> len, count |-> 0, made |-> "live"],
                                    !.list[b] = @ \cup {v}], v)

(* JS_ToInt32Clamp with the bounds 0 and len: from the end when negative.  *)
JS_ToInt32Clamp(x, len) ==
    IF x < 0 THEN (IF x + len < 0 THEN 0 ELSE x + len) ELSE (IF x > len THEN len ELSE x)

(* A view w of the elements start .. final - 1 of v, by the default        *)
(* species constructor.  The offset of a detached array reads as 0.        *)
js_typed_array_subarray(h, w, v, begin, end) ==
    LET len == h.view[v].count
        h1 == Converted(h, begin)
        start == JS_ToInt32Clamp(begin.value, len)
        h2 == IF end = <<>> THEN h1 ELSE Converted(h1, end[1])
        final == IF end = <<>> THEN len ELSE JS_ToInt32Clamp(end[1].value, len)
        b == h.view[v].buffer
        class == h.view[v].class
        offset == IF h2.status[b] = "detached" THEN 0 ELSE h2.view[v].offset
        plain(x) == [value |-> x, detaches |-> {}]
    IN  js_typed_array_constructor(h2, w, class, b, plain(offset + start * SizeOf[class]),
            <<plain(IF final > start THEN final - start ELSE 0)>>, PlainPrototype)

js_array_buffer_finalizer(h, b) == [h EXCEPT !.data[b] = <<>>, !.status[b] = "freed"]

(* A collection finalizes the members of a garbage cycle in any order, so  *)
(* a buffer may go before its views: a view leaves the list only of a      *)
(* buffer that is still live.  The memory of the objects stays until the   *)
(* collection ends.                                                        *)
js_typed_array_finalizer(h, v) ==
    LET b == h.view[v].buffer IN
    [h EXCEPT !.view[v] = NoView(b),
              !.list[b] = IF h.status[b] # "freed" THEN @ \ {v} ELSE @]

(* JS_FreeValueRT of a buffer that only b's views still refer to.          *)
Released(h, b) == IF ~ h.held[b] /\ h.list[b] = {} THEN js_array_buffer_finalizer(h, b) ELSE h
-----------------------------------------------------------------------------
bufferVars == <<heap, dying>>

EmptyHeap == [data |-> [b \in Buffers |-> <<>>], status |-> [b \in Buffers |-> "none"],
              shared |-> [b \in Buffers |-> FALSE], held |-> [b \in Buffers |-> FALSE], list |-> [b \in Buffers |-> {}],
              view |-> [v \in Views |-> NoView(CHOOSE b \in Buffers : TRUE)]]
BuffersInit == heap = EmptyHeap /\ dying = {}

Usable(b) == heap.status[b] \in {"live", "detached"}
Unused(v) == ~ Exists(heap, v)
Mutator == dying = {}

Construct(b, len, shared) ==
    /\ Mutator /\ heap.status[b] = "none"
    /\ heap' = NewBuffer(heap, b, len, shared) /\ UNCHANGED dying
Detach(b) ==
    /\ Mutator /\ Usable(b)
    /\ heap' = JS_DetachArrayBuffer(heap, {b}) /\ UNCHANGED dying
View(v, class, b, offset, length, proto) ==
    /\ Mutator /\ Unused(v) /\ Usable(b)
    /\ heap' = js_typed_array_constructor(heap, v, class, b, offset, length, proto).heap
    /\ UNCHANGED dying
Subarray(w, v, begin, end) ==
    /\ Mutator /\ Unused(w) /\ IsTyped(heap, v)
    /\ heap' = js_typed_array_subarray(heap, w, v, begin, end).heap
    /\ UNCHANGED dying
NewDataView(v, b, offset, length, proto) ==
    /\ Mutator /\ Unused(v) /\ Usable(b)
    /\ heap' = js_dataview_constructor(heap, v, b, offset, length, proto).heap
    /\ UNCHANGED dying

(* The script's last reference to a buffer or to a view goes, or a cycle   *)
(* of a buffer and all its views becomes garbage.                          *)
DropBuffer(b) ==
    /\ Mutator /\ heap.held[b]
    /\ heap' = Released([heap EXCEPT !.held[b] = FALSE], b) /\ UNCHANGED dying
DropView(v) ==
    /\ Mutator /\ Exists(heap, v)
    /\ heap' = Released(js_typed_array_finalizer(heap, v), heap.view[v].buffer)
    /\ UNCHANGED dying
CollectCycle(b) ==
    /\ Mutator /\ Usable(b)
    /\ dying' = {b} \cup heap.list[b] /\ heap' = [heap EXCEPT !.held[b] = FALSE]
Finalize(o) ==
    /\ o \in dying /\ dying' = dying \ {o}
    /\ heap' = IF o \in Buffers THEN js_array_buffer_finalizer(heap, o)
                                ELSE js_typed_array_finalizer(heap, o)

(* The indexes, lengths and conversions a program passes.                  *)
CONSTANTS Indexes, Lengths
ASSUME ArgumentsAssumption == Indexes \subseteq Int /\ Lengths \subseteq Nat
ASSUME ObjectsAssumption == Buffers # {} /\ Buffers \cap Views = {}
Arguments == [value : Indexes, detaches : SUBSET Buffers]
Optional == {<<>>} \cup {<<x>> : x \in Arguments}
Prototypes == [detaches : SUBSET Buffers, throws : BOOLEAN]

BuffersNext ==
    \/ \E b \in Buffers, n \in Lengths, shared \in BOOLEAN : Construct(b, n, shared)
    \/ \E b \in Buffers : Detach(b)
    \/ \E v \in Views, c \in Classes, b \in Buffers, x \in Arguments, y \in Optional, p \in Prototypes :
          View(v, c, b, x, y, p)
    \/ \E w, v \in Views, x \in Arguments, y \in Optional : Subarray(w, v, x, y)
    \/ \E v \in Views, b \in Buffers, x \in Arguments, y \in Optional, p \in Prototypes : NewDataView(v, b, x, y, p)
    \/ \E b \in Buffers : DropBuffer(b)
    \/ \E v \in Views : DropView(v)
    \/ \E b \in Buffers : CollectCycle(b)
    \/ \E o \in dying : Finalize(o)
BuffersSpec == BuffersInit /\ [][BuffersNext]_bufferVars

HeapTypeOK ==
    /\ heap \in [data : [Buffers -> Seq(Byte)],
                status : [Buffers -> {"none", "live", "detached", "freed"}],
                shared : [Buffers -> BOOLEAN],
                held : [Buffers -> BOOLEAN],
                list : [Buffers -> SUBSET Views],
                view : [Views -> [class : Classes \cup {DataView, None}, buffer : Buffers,
                                  offset : Nat, length : Nat, count : Nat, made : {"live", "detached"}]]]
    /\ dying \subseteq Buffers \cup Views

(* A view of a live buffer lies inside its bytes and counts exactly the    *)
(* elements of its length; a typed array of a detached buffer has no       *)
(* element left ("if the array buffer is detached,                         *)
(* p->u.array.count = 0", js_atomics_get_ptr).  Whatever the order of      *)
(* conversions, detaching and finalizers, no element access that checks    *)
(* its index against count can leave the buffer.  The one exception is a   *)
(* late view, whose buffer js_create_from_ctor detached after the          *)
(* constructor had looked at it: only a typed array of a buffer that is    *)
(* no longer live can be one.                                              *)
ViewsInside ==
    \A v \in Views :
        LET r == heap.view[v] IN
        /\ heap.status[r.buffer] = "live" /\ Exists(heap, v) =>
              r.offset + r.length <= ByteLength(heap, r.buffer)
        /\ heap.status[r.buffer] = "live" /\ IsTyped(heap, v) =>
              r.offset % SizeOf[r.class] = 0 /\ r.length = r.count * SizeOf[r.class]
        /\ heap.status[r.buffer] = "detached" /\ Exists(heap, v) => r.count = 0 \/ Late(heap, v)
        /\ Late(heap, v) => IsTyped(heap, v) /\ heap.status[r.buffer] \in {"detached", "freed"}

(* The list a buffer keeps holds its views and nothing else, as long as    *)
(* the buffer has not been finalized: JS_DetachArrayBuffer walks it and    *)
(* js_typed_array_finalizer unlinks from it, in whatever order a           *)
(* collection calls the finalizers.                                        *)
ListExact ==
    \A b \in Buffers : heap.status[b] \in {"live", "detached"} =>
        heap.list[b] = {v \in Views : Exists(heap, v) /\ heap.view[v].buffer = b}

(* What the engine keeps about buffers and views is right at any time.     *)
BuffersExact == ViewsInside /\ ListExact
====
