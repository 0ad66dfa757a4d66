------------------------ MODULE ArrayBuffersProofs ------------------------
(***************************************************************************)
(* What ArrayBuffers promises of buffers and views, for any number of      *)
(* objects, any sizes and any arguments.  A heap that is Good keeps its    *)
(* views inside their buffers and its lists exact; every function of the   *)
(* engine leaves a Good heap Good.                                         *)
(***************************************************************************)
EXTENDS ArrayBuffers, SequenceTheorems, TLAPS

Status == {"none", "live", "detached", "freed"}
ViewRec == [class : Classes \cup {DataView, None}, buffer : Buffers,
            offset : Nat, length : Nat, count : Nat, made : {"live", "detached"}]
HeapType == [data : [Buffers -> Seq(Byte)], status : [Buffers -> Status],
             shared : [Buffers -> BOOLEAN], held : [Buffers -> BOOLEAN],
             list : [Buffers -> SUBSET Views], view : [Views -> ViewRec]]

(* ViewsInside for one view r and the state of its buffer.                 *)
Fits(h, r) ==
    /\ h.status[r.buffer] = "live" /\ r.class # None =>
          r.offset + r.length <= Len(h.data[r.buffer])
    /\ h.status[r.buffer] = "live" /\ r.class \in Classes =>
          r.offset % SizeOf[r.class] = 0 /\ r.length = r.count * SizeOf[r.class]
    /\ h.status[r.buffer] = "detached" /\ r.class # None => r.count = 0 \/ r.made = "detached"
    /\ r.made = "detached" => r.class \in Classes /\ h.status[r.buffer] \in {"detached", "freed"}
    /\ r.class = DataView => r.count = 0
Inside(h) == \A v \in Views : Fits(h, h.view[v])

InUse(h, b) == h.status[b] \in {"live", "detached"}
ViewsOf(h, b) == {v \in Views : Exists(h, v) /\ h.view[v].buffer = b}
Listed(h) == \A b \in Buffers : InUse(h, b) => h.list[b] = ViewsOf(h, b)

(* A buffer not yet made has no view, and what the script holds is there.  *)
Unmade(h) == \A b \in Buffers : h.status[b] = "none" => h.list[b] = {} /\ ViewsOf(h, b) = {}
HeldInUse(h) == \A b \in Buffers : h.held[b] => InUse(h, b)

Good(h) == h \in HeapType /\ Inside(h) /\ Listed(h) /\ Unmade(h) /\ HeldInUse(h)

(* The garbage D is closed: a view of a finalized buffer is still to be    *)
(* finalized, and so are the views of a buffer that is.                    *)
Garbage(h, D) ==
    /\ D \subseteq Buffers \cup Views
    /\ \A v \in Views : Exists(h, v) /\ h.status[h.view[v].buffer] = "freed" => v \in D
    /\ \A b \in D \cap Buffers : InUse(h, b) /\ ~ h.held[b] /\ h.list[b] \subseteq D

(* The inductive invariant.                                                *)
BuffersIInv == Good(heap) /\ Garbage(heap, dying)

AnArgument == [value : Int, detaches : SUBSET Buffers]
AnOption == {<<>>} \cup {<<x>> : x \in AnArgument}
-----------------------------------------------------------------------------
(* The fields of a heap have their types.                                  *)
LEMMA HeapFields ==
  ASSUME NEW h \in HeapType
  PROVE  /\ h.data \in [Buffers -> Seq(Byte)]
         /\ h.status \in [Buffers -> Status]
         /\ h.shared \in [Buffers -> BOOLEAN]
         /\ h.held \in [Buffers -> BOOLEAN]
         /\ h.list \in [Buffers -> SUBSET Views]
         /\ h.view \in [Views -> ViewRec]
         /\ h = [data |-> h.data, status |-> h.status, shared |-> h.shared,
                 held |-> h.held, list |-> h.list, view |-> h.view]
  BY DEF HeapType

(* The fields of a view have their types.                                  *)
LEMMA ViewFields ==
  ASSUME NEW r \in ViewRec
  PROVE  /\ r.class \in Classes \cup {DataView, None}
         /\ r.buffer \in Buffers
         /\ r.offset \in Nat /\ r.length \in Nat /\ r.count \in Nat /\ r.made \in {"live", "detached"}
  BY DEF ViewRec

(* What JS_DetachArrayBuffer changes.                                      *)
LEMMA DetachEffect ==
  ASSUME NEW h \in HeapType, NEW D \in SUBSET Buffers, NEW T, T = JS_DetachArrayBuffer(h, D)
  PROVE  /\ T \in HeapType
         /\ T.shared = h.shared /\ T.held = h.held /\ T.list = h.list
         /\ \A b \in Buffers :
              \/ T.status[b] = h.status[b] /\ T.data[b] = h.data[b]
              \/ h.status[b] = "live" /\ T.status[b] = "detached" /\ b \in D
         /\ \A v \in Views :
              /\ T.view[v].class = h.view[v].class /\ T.view[v].buffer = h.view[v].buffer
              /\ T.view[v].offset = h.view[v].offset /\ T.view[v].length = h.view[v].length
              /\ T.view[v].count \in {0, h.view[v].count} /\ T.view[v].made = h.view[v].made
              /\ \/ T.view[v].count = h.view[v].count
                 \/ \E b \in Buffers : h.status[b] = "live" /\ T.status[b] = "detached" /\ v \in h.list[b]
              /\ \A b \in Buffers : h.status[b] = "live" /\ T.status[b] = "detached" /\ v \in h.list[b]
                   => T.view[v].count = 0 \/ h.view[v].class = DataView
<1> DEFINE gone == {b \in D : h.status[b] = "live" /\ ~ h.shared[b]}
           L == UNION {h.list[b] : b \in gone}
           data == [b \in Buffers |-> IF b \in gone THEN <<>> ELSE h.data[b]]
           status == [b \in Buffers |-> IF b \in gone THEN "detached" ELSE h.status[b]]
           view == [v \in Views |-> IF v \in L /\ h.view[v].class # DataView
                                    THEN [h.view[v] EXCEPT !.count = 0] ELSE h.view[v]]
<1>1. T = [data |-> data, status |-> status, shared |-> h.shared,
           held |-> h.held, list |-> h.list, view |-> view]
  <2>1. DOMAIN h.data = Buffers /\ DOMAIN h.status = Buffers /\ DOMAIN h.view = Views
    BY HeapFields
  <2>2. h = [data |-> h.data, status |-> h.status, shared |-> h.shared,
             held |-> h.held, list |-> h.list, view |-> h.view]
    BY HeapFields
  <2>3. T = [h EXCEPT !.data = data, !.status = status, !.view = view]
    BY <2>1 DEF JS_DetachArrayBuffer, Cleared
  <2> HIDE DEF data, status, view
  <2> QED BY <2>2, <2>3, Zenon
<1>2. gone \subseteq Buffers /\ L \subseteq Views
  BY HeapFields
<1>3. data \in [Buffers -> Seq(Byte)]
  BY HeapFields, EmptySeq
<1>4. status \in [Buffers -> Status]
  BY HeapFields DEF Status
<1>5. \A v \in Views : /\ view[v] \in ViewRec
                       /\ view[v].class = h.view[v].class /\ view[v].buffer = h.view[v].buffer
                       /\ view[v].offset = h.view[v].offset /\ view[v].length = h.view[v].length
                       /\ view[v].count \in {0, h.view[v].count} /\ view[v].made = h.view[v].made
                       /\ v \notin L => view[v].count = h.view[v].count
                       /\ v \in L => view[v].count = 0 \/ h.view[v].class = DataView
  <2> TAKE v \in Views
  <2>1. h.view[v] \in ViewRec
    BY HeapFields
  <2> HIDE DEF L
  <2> QED BY <2>1 DEF ViewRec
<1>6. view \in [Views -> ViewRec]
  BY <1>5
<1>7. \A b \in Buffers : h.status[b] = "live" /\ status[b] = "detached" <=> b \in gone
  BY HeapFields DEF Status
<1>8. \A v \in Views : v \in L <=> \E b \in gone : v \in h.list[b]
  OBVIOUS
<1> HIDE DEF L, view, data, status
<1>9. T \in HeapType
  BY <1>1, <1>3, <1>4, <1>6, HeapFields DEF HeapType
<1>10. T.status = status /\ T.data = data /\ T.view = view /\ T.shared = h.shared /\ T.held = h.held /\ T.list = h.list
  BY <1>1
<1>11. \A b \in Buffers : \/ status[b] = h.status[b] /\ data[b] = h.data[b]
                          \/ h.status[b] = "live" /\ status[b] = "detached" /\ b \in D
  BY <1>7 DEF status, data
<1>12. \A v \in Views :
         /\ \/ view[v].count = h.view[v].count
            \/ \E b \in Buffers : h.status[b] = "live" /\ status[b] = "detached" /\ v \in h.list[b]
         /\ \A b \in Buffers : h.status[b] = "live" /\ status[b] = "detached" /\ v \in h.list[b]
              => view[v].count = 0 \/ h.view[v].class = DataView
  BY <1>2, <1>5, <1>7, <1>8
<1> QED BY <1>5, <1>9, <1>10, <1>11, <1>12

(* Detaching any buffers leaves a Good heap Good: the list of a live       *)
(* buffer names every view whose count must be cleared.                    *)
LEMMA DetachGood ==
  ASSUME NEW h, Good(h), NEW D \in SUBSET Buffers
  PROVE  Good(JS_DetachArrayBuffer(h, D))
<1> DEFINE T == JS_DetachArrayBuffer(h, D)
<1>1. h \in HeapType
  BY DEF Good
<1> HIDE DEF T
<1>2. /\ T \in HeapType
      /\ T.shared = h.shared /\ T.held = h.held /\ T.list = h.list
      /\ \A b \in Buffers :
           \/ T.status[b] = h.status[b] /\ T.data[b] = h.data[b]
           \/ h.status[b] = "live" /\ T.status[b] = "detached" /\ b \in D
      /\ \A v \in Views :
           /\ T.view[v].class = h.view[v].class /\ T.view[v].buffer = h.view[v].buffer
           /\ T.view[v].offset = h.view[v].offset /\ T.view[v].length = h.view[v].length
           /\ T.view[v].count \in {0, h.view[v].count} /\ T.view[v].made = h.view[v].made
           /\ \/ T.view[v].count = h.view[v].count
              \/ \E b \in Buffers : h.status[b] = "live" /\ T.status[b] = "detached" /\ v \in h.list[b]
           /\ \A b \in Buffers : h.status[b] = "live" /\ T.status[b] = "detached" /\ v \in h.list[b]
                => T.view[v].count = 0 \/ h.view[v].class = DataView
  BY <1>1, DetachEffect DEF T
<1>3. \A b \in Buffers : ViewsOf(T, b) = ViewsOf(h, b)
  BY <1>2 DEF ViewsOf, Exists
<1>4. Listed(T) /\ Unmade(T) /\ HeldInUse(T)
  BY <1>2, <1>3, SMTT(30) DEF Good, Listed, Unmade, HeldInUse, InUse
<1>5. Inside(T)
  <2> SUFFICES ASSUME NEW v \in Views
               PROVE  Fits(T, T.view[v])
    BY DEF Inside
  <2> DEFINE c == h.view[v].buffer
  <2>1. c \in Buffers /\ Fits(h, h.view[v]) /\ h.view[v].class \in Classes \cup {DataView, None}
    BY <1>1, HeapFields, ViewFields DEF Good, Inside
  <2>2. \A b \in Buffers : InUse(h, b) /\ v \in h.list[b] => b = c /\ h.view[v].class # None
    BY DEF Good, Listed, ViewsOf, Exists
  <2>3. h.view[v].class # None /\ InUse(h, c) => v \in h.list[c]
    BY <2>1, SMTT(30) DEF Good, Listed, ViewsOf, Exists
  <2>4. CASE T.status[c] = h.status[c] /\ T.data[c] = h.data[c]
    <3>1. T.view[v].count = h.view[v].count
      <4> SUFFICES ASSUME NEW b \in Buffers, h.status[b] = "live", T.status[b] = "detached", v \in h.list[b]
                   PROVE  FALSE
        BY <1>2
      <4> QED BY <2>2, <2>4 DEF InUse
    <3> QED BY <1>2, <2>1, <2>4, <3>1, ZenonT(30) DEF Fits
  <2>5. CASE h.status[c] = "live" /\ T.status[c] = "detached"
    <3>1. h.view[v].class # None => T.view[v].count = 0 \/ h.view[v].class = DataView
      BY <1>2, <2>1, <2>3, <2>5 DEF InUse
    <3>2. h.view[v].class = DataView => T.view[v].count = 0
      <4>1. h.view[v].class = DataView => h.view[v].count = 0
        BY <2>1 DEF Fits
      <4> QED BY <1>2, <4>1
    <3>3. T.view[v].made # "detached"
      BY <1>2, <2>1, <2>5 DEF Fits
    <3>4. T.view[v].class # None => T.view[v].count = 0
      BY <1>2, <3>1, <3>2
    <3>5. T.view[v].class = DataView => T.view[v].count = 0
      BY <1>2, <3>2
    <3>6. T.view[v].buffer = c /\ T.status[c] = "detached"
      BY <1>2, <2>5
    <3> HIDE DEF c
    <3> QED BY <3>3, <3>4, <3>5, <3>6 DEF Fits
  <2> QED BY <1>2, <2>1, <2>4, <2>5
<1> QED BY <1>2, <1>4, <1>5 DEF Good, T

(* Between collections no view looks into a finalized buffer.              *)
Sound(h) == Good(h) /\ \A v \in Views : Exists(h, v) => InUse(h, h.view[v].buffer)

(* Detaching keeps the views that exist, and a buffer in use in use.       *)
LEMMA DetachSound ==
  ASSUME NEW h, Sound(h), NEW D \in SUBSET Buffers
  PROVE  /\ Sound(JS_DetachArrayBuffer(h, D))
         /\ \A v \in Views : Exists(JS_DetachArrayBuffer(h, D), v) = Exists(h, v)
         /\ \A b \in Buffers : InUse(h, b) => InUse(JS_DetachArrayBuffer(h, D), b)
         /\ \A b \in Buffers : JS_DetachArrayBuffer(h, D).status[b] = "live" =>
               JS_DetachArrayBuffer(h, D).data[b] = h.data[b]
<1> DEFINE T == JS_DetachArrayBuffer(h, D)
<1>1. h \in HeapType
  BY DEF Good, Sound
<1>2. Good(T)
  BY DetachGood, SMTT(30) DEF Sound
<1> HIDE DEF T
<1>3. /\ \A b \in Buffers :
           \/ T.status[b] = h.status[b] /\ T.data[b] = h.data[b]
           \/ h.status[b] = "live" /\ T.status[b] = "detached" /\ b \in D
      /\ \A v \in Views : T.view[v].class = h.view[v].class /\ T.view[v].buffer = h.view[v].buffer
  BY <1>1, DetachEffect DEF T
<1>4. \A v \in Views : h.view[v].buffer \in Buffers
  BY <1>1, HeapFields, ViewFields
<1>5. \A b \in Buffers : InUse(h, b) => InUse(T, b)
  BY <1>3 DEF InUse
<1>6. \A v \in Views : Exists(T, v) = Exists(h, v)
  BY <1>3 DEF Exists
<1>7. \A v \in Views : Exists(T, v) => InUse(T, T.view[v].buffer)
  BY <1>3, <1>4, <1>5, <1>6 DEF Sound
<1>8. \A b \in Buffers : T.status[b] = "live" => T.data[b] = h.data[b]
  BY <1>3
<1> QED BY <1>2, <1>5, <1>6, <1>7, <1>8 DEF Sound, T

(* A new view that fits its buffer, linked into the buffer's list.         *)
LEMMA AddView ==
  ASSUME NEW h, Sound(h), NEW v \in Views, ~ Exists(h, v), NEW r \in ViewRec,
         r.class # None, InUse(h, r.buffer), Fits(h, r)
  PROVE  Sound([h EXCEPT !.view[v] = r, !.list[r.buffer] = @ \cup {v}])
<1> DEFINE b == r.buffer
           view == [h.view EXCEPT ![v] = r]
           list == [h.list EXCEPT ![b] = @ \cup {v}]
           T == [h EXCEPT !.view[v] = r, !.list[b] = @ \cup {v}]
<1>1. h \in HeapType /\ b \in Buffers
  BY ViewFields DEF Sound, Good
<1>2. T = [data |-> h.data, status |-> h.status, shared |-> h.shared,
           held |-> h.held, list |-> list, view |-> view]
  <2>1. T = [h EXCEPT !.view = view, !.list = list]
    BY <1>1, HeapFields
  <2>2. h = [data |-> h.data, status |-> h.status, shared |-> h.shared,
             held |-> h.held, list |-> h.list, view |-> h.view]
    BY <1>1, HeapFields
  <2> HIDE DEF view, list, T
  <2> QED BY <2>1, <2>2, Zenon
<1>3. list \in [Buffers -> SUBSET Views] /\ view \in [Views -> ViewRec]
  BY <1>1, HeapFields
<1>4. /\ view[v] = r /\ \A w \in Views \ {v} : view[w] = h.view[w]
      /\ list[b] = h.list[b] \cup {v} /\ \A c \in Buffers \ {b} : list[c] = h.list[c]
  BY <1>1, HeapFields
<1> HIDE DEF view, list, T, b
<1>5. T \in HeapType
  BY <1>1, <1>2, <1>3, HeapFields DEF HeapType
<1>6. T.status = h.status /\ T.data = h.data /\ T.held = h.held /\ T.view = view /\ T.list = list
  BY <1>2
<1>7. Inside(T)
  BY <1>4, <1>6 DEF Inside, Fits, Sound, Good
<1>8. ViewsOf(T, b) = ViewsOf(h, b) \cup {v} /\ \A c \in Buffers \ {b} : ViewsOf(T, c) = ViewsOf(h, c)
  BY <1>4, <1>6 DEF ViewsOf, Exists, b
<1>9. Listed(T) /\ Unmade(T) /\ HeldInUse(T)
  <2>1. h.status[b] # "none" /\ b \in Buffers
    BY <1>1 DEF b, InUse
  <2>2. Listed(T)
    <3> SUFFICES ASSUME NEW c \in Buffers, InUse(h, c)
                 PROVE  list[c] = ViewsOf(T, c)
      BY <1>6 DEF Listed, InUse
    <3>1. h.list[c] = ViewsOf(h, c)
      BY DEF Sound, Good, Listed
    <3> QED BY <3>1, <1>4, <1>8, Zenon
  <2>3. Unmade(T)
    <3> SUFFICES ASSUME NEW c \in Buffers, h.status[c] = "none"
                 PROVE  list[c] = {} /\ ViewsOf(T, c) = {}
      BY <1>6 DEF Unmade
    <3>1. h.list[c] = {} /\ ViewsOf(h, c) = {} /\ c # b
      BY <2>1 DEF Sound, Good, Unmade
    <3> QED BY <3>1, <1>4, <1>8
  <2> QED BY <2>2, <2>3, <1>6 DEF HeldInUse, InUse, Sound, Good
<1>10. \A w \in Views : Exists(T, w) => InUse(T, T.view[w].buffer)
  BY <1>4, <1>6 DEF Exists, InUse, Sound
<1> QED BY <1>5, <1>7, <1>9, <1>10 DEF Sound, Good, T, b

(* typed_array_init on a range that was inside the buffer when it was      *)
(* still live.                                                             *)
LEMMA TypedArrayInit ==
  ASSUME NEW h, Sound(h), NEW v \in Views, ~ Exists(h, v), NEW class \in Classes,
         NEW b \in Buffers, InUse(h, b), NEW offset \in Nat, NEW len \in Nat,
         offset % SizeOf[class] = 0,
         h.status[b] = "live" => offset + len * SizeOf[class] <= ByteLength(h, b)
  PROVE  Sound(typed_array_init(h, v, class, b, offset, len))
<1> DEFINE r == [class |-> class, buffer |-> b, offset |-> offset,
                 length |-> len * SizeOf[class], count |-> len, made |-> h.status[b]]
<1>1. SizeOf[class] \in Nat /\ class # None /\ class # DataView
  BY SizesAssumption
<1>2. len * SizeOf[class] \in Nat
  BY <1>1, SizesAssumption
<1>3. r \in ViewRec
  BY <1>2 DEF ViewRec, InUse
<1>4. r.class = class /\ r.buffer = b /\ r.offset = offset /\ r.length = len * SizeOf[class] /\ r.count = len /\ r.made = h.status[b]
  OBVIOUS
<1>5. typed_array_init(h, v, class, b, offset, len) = [h EXCEPT !.view[v] = r, !.list[r.buffer] = @ \cup {v}]
  BY DEF typed_array_init
<1> HIDE DEF r
<1>6. Fits(h, r)
  BY <1>1, <1>4, SMTT(30) DEF Fits, ByteLength, InUse
<1>7. Sound([h EXCEPT !.view[v] = r, !.list[r.buffer] = @ \cup {v}])
  BY <1>1, <1>3, <1>4, <1>6, AddView, Zenon
<1> QED BY <1>5, <1>7

(* A sound heap after the conversion of an argument.                       *)
LEMMA ConvertedSound ==
  ASSUME NEW h, Sound(h), NEW x \in AnArgument
  PROVE  /\ Sound(Converted(h, x))
         /\ \A v \in Views : Exists(Converted(h, x), v) = Exists(h, v)
         /\ \A b \in Buffers : InUse(h, b) => InUse(Converted(h, x), b)
         /\ \A b \in Buffers : Converted(h, x).status[b] = "live" =>
               Converted(h, x).data[b] = h.data[b]
  BY DetachSound DEF AnArgument, Converted

(* The same for an argument that may be missing.                           *)
LEMMA OptionSound ==
  ASSUME NEW h, Sound(h), NEW y \in AnOption
  PROVE  LET T == IF y = <<>> THEN h ELSE Converted(h, y[1]) IN
         /\ Sound(T)
         /\ \A v \in Views : Exists(T, v) = Exists(h, v)
         /\ \A b \in Buffers : InUse(h, b) => InUse(T, b)
         /\ \A b \in Buffers : T.status[b] = "live" => T.data[b] = h.data[b]
<1>1. CASE y = <<>>
  BY <1>1
<1>2. CASE \E x \in AnArgument : y = <<x>>
  BY <1>2, ConvertedSound
<1> QED BY <1>1, <1>2 DEF AnOption

(* The length that is left fits: division rounds toward zero elements.     *)
LEMMA RestFits ==
  ASSUME NEW size \in {1, 2, 4, 8}, NEW bytes \in Nat, NEW start \in Nat,
         start % size = 0, bytes % size = 0, start <= bytes
  PROVE  /\ (bytes - start) \div size \in Nat
         /\ start + ((bytes - start) \div size) * size <= bytes
<1>1. CASE size = 1 BY <1>1
<1>2. CASE size = 2 BY <1>2
<1>3. CASE size = 4 BY <1>3
<1>4. CASE size = 8 BY <1>4
<1> QED BY <1>1, <1>2, <1>3, <1>4

(* A sound heap after the prototype of the new object was looked up.       *)
LEMMA CreatedSound ==
  ASSUME NEW h, Sound(h), NEW proto \in Prototypes
  PROVE  LET T == js_create_from_ctor(h, proto) IN
         /\ Sound(T)
         /\ \A v \in Views : Exists(T, v) = Exists(h, v)
         /\ \A b \in Buffers : InUse(h, b) => InUse(T, b)
         /\ \A b \in Buffers : T.status[b] = "live" => T.data[b] = h.data[b]
  BY DetachSound DEF Prototypes, js_create_from_ctor

(* No lookup makes a detached buffer live.                                 *)
LEMMA CreatedLive ==
  ASSUME NEW h, Sound(h), NEW proto \in Prototypes, NEW b \in Buffers,
         js_create_from_ctor(h, proto).status[b] = "live"
  PROVE  h.status[b] = "live"
<1>1. h \in HeapType /\ proto.detaches \in SUBSET Buffers
  BY DEF Sound, Good, Prototypes
<1>2. \/ js_create_from_ctor(h, proto).status[b] = h.status[b]
      \/ js_create_from_ctor(h, proto).status[b] = "detached"
  BY <1>1, DetachEffect DEF js_create_from_ctor
<1> QED BY <1>2

(* new TypedArray on a buffer in use, whatever the conversions and the    *)
(* lookup of the prototype detach.                                         *)
LEMMA TypedArrayConstructor ==
  ASSUME NEW h, Sound(h), NEW v \in Views, ~ Exists(h, v), NEW class \in Classes,
         NEW b \in Buffers, InUse(h, b), NEW offset \in AnArgument, NEW length \in AnOption,
         NEW proto \in Prototypes
  PROVE  Sound(js_typed_array_constructor(h, v, class, b, offset, length, proto).heap)
<1> DEFINE size == SizeOf[class]
           h1 == Converted(h, offset)
           bytes == ByteLength(h1, b)
           start == offset.value
           h2 == IF length = <<>> THEN h1 ELSE Converted(h1, length[1])
           len == IF length = <<>> THEN (bytes - start) \div size ELSE length[1].value
           h3 == js_create_from_ctor(h2, proto)
           R == js_typed_array_constructor(h, v, class, b, offset, length, proto)
<1>1. Sound(h1) /\ ~ Exists(h1, v) /\ InUse(h1, b)
  BY ConvertedSound
<1>2. Sound(h2) /\ ~ Exists(h2, v) /\ InUse(h2, b)
      /\ (h2.status[b] = "live" => h2.data[b] = h1.data[b])
  BY <1>1, OptionSound
<1>3. size \in {1, 2, 4, 8} /\ bytes \in Nat /\ ByteLength(h2, b) \in Nat /\ start \in Int
      /\ (length # <<>> => len \in Int)
  <2>1. h1 \in HeapType /\ h2 \in HeapType
    BY <1>1, <1>2 DEF Sound, Good
  <2>2. h1.data[b] \in Seq(Byte) /\ h2.data[b] \in Seq(Byte)
    BY <2>1, HeapFields
  <2>3. start \in Int /\ (length # <<>> => length[1].value \in Int)
    BY DEF AnArgument, AnOption
  <2> HIDE DEF h1, h2
  <2> QED BY <2>2, <2>3, SizesAssumption, LenProperties DEF ByteLength
<1> HIDE DEF h1, h2
<1>4. Sound(h3) /\ ~ Exists(h3, v) /\ InUse(h3, b)
      /\ (h3.status[b] = "live" => h3.data[b] = h2.data[b])
  BY <1>2, CreatedSound
<1> HIDE DEF h3
<1>5. \/ R.heap \in {h1, h2, h3}
      \/ /\ R.heap = typed_array_init(h3, v, class, b, start, len)
         /\ start >= 0 /\ h1.status[b] # "detached" /\ start % size = 0 /\ start <= bytes
         /\ length = <<>> => bytes % size = 0
         /\ length # <<>> => len >= 0 /\ h2.status[b] # "detached" /\ start + len * size <= ByteLength(h2, b)
  <2>1. R = CASE start < 0 -> Throw(h1, "RangeError")
             [] start >= 0 /\ h1.status[b] = "detached" -> Throw(h1, "TypeError")
             [] start >= 0 /\ h1.status[b] # "detached" /\ (start % size # 0 \/ start > bytes) ->
                   Throw(h1, "RangeError")
             [] OTHER ->
                CASE length = <<>> /\ bytes % size # 0 -> Throw(h1, "RangeError")
                  [] length # <<>> /\ len < 0 -> Throw(h2, "RangeError")
                  [] length # <<>> /\ len >= 0 /\ h2.status[b] = "detached" -> Throw(h2, "TypeError")
                  [] length # <<>> /\ len >= 0 /\ h2.status[b] # "detached"
                       /\ start + len * size > ByteLength(h2, b) -> Throw(h2, "RangeError")
                  [] OTHER -> IF proto.throws THEN Throw(h3, "exception")
                              ELSE Return(typed_array_init(h3, v, class, b, start, len), v)
    BY Zenon DEF js_typed_array_constructor, h1, h2, h3
  <2> HIDE DEF R, len, start, bytes, size
  <2>2. CASE start < 0
    BY <2>1, <2>2, <1>3 DEF Throw
  <2>3. CASE start >= 0 /\ h1.status[b] = "detached"
    BY <2>1, <2>3, <1>3 DEF Throw
  <2>4. CASE start >= 0 /\ h1.status[b] # "detached" /\ (start % size # 0 \/ start > bytes)
    BY <2>1, <2>4, <1>3 DEF Throw
  <2>5. CASE start >= 0 /\ h1.status[b] # "detached" /\ start % size = 0 /\ start <= bytes
    <3>1. R = CASE length = <<>> /\ bytes % size # 0 -> Throw(h1, "RangeError")
                [] length # <<>> /\ len < 0 -> Throw(h2, "RangeError")
                [] length # <<>> /\ len >= 0 /\ h2.status[b] = "detached" -> Throw(h2, "TypeError")
                [] length # <<>> /\ len >= 0 /\ h2.status[b] # "detached"
                     /\ start + len * size > ByteLength(h2, b) -> Throw(h2, "RangeError")
                [] OTHER -> IF proto.throws THEN Throw(h3, "exception")
                            ELSE Return(typed_array_init(h3, v, class, b, start, len), v)
      BY <2>1, <2>5, <1>3
    <3>2. CASE length = <<>>
      BY <3>1, <3>2, <2>5 DEF Throw, Return
    <3>3. CASE length # <<>>
      BY <3>1, <3>3, <2>5, <1>3, SMTT(30) DEF Throw, Return
    <3> QED BY <3>2, <3>3
  <2> QED BY <2>2, <2>3, <2>4, <2>5, <1>3
<1>6. ASSUME R.heap = typed_array_init(h3, v, class, b, start, len),
             start >= 0, h1.status[b] # "detached", start % size = 0, start <= bytes,
             length = <<>> => bytes % size = 0,
             length # <<>> => len >= 0 /\ h2.status[b] # "detached" /\ start + len * size <= ByteLength(h2, b)
      PROVE  Sound(R.heap)
  <2>1. h2.status[b] = "live"
    BY <1>1, <1>2, <1>6 DEF InUse, h2
  <2>2. start \in Nat
    BY <1>3, <1>6
  <2>3. len \in Nat /\ start + len * size <= ByteLength(h2, b)
    <3>1. CASE length = <<>>
      <4>1. ByteLength(h2, b) = bytes
        BY <3>1 DEF h2
      <4>2. len = (bytes - start) \div size
        BY <3>1
      <4> HIDE DEF bytes, len, size, start
      <4>3. /\ (bytes - start) \div size \in Nat
            /\ start + ((bytes - start) \div size) * size <= bytes
        BY <1>3, <1>6, <2>2, <3>1, RestFits
      <4> QED BY <4>1, <4>2, <4>3
    <3>2. CASE length # <<>>
      BY <1>3, <1>6, <3>2
    <3> QED BY <3>1, <3>2
  <2>4. h3.status[b] = "live" => start + len * size <= ByteLength(h3, b)
    <3> HIDE DEF len, start, size
    <3> QED BY <1>4, <2>3 DEF ByteLength
  <2> HIDE DEF len, start
  <2>5. Sound(typed_array_init(h3, v, class, b, start, len))
    BY <1>6, <1>4, <2>2, <2>3, <2>4, TypedArrayInit
  <2> QED BY <1>6, <2>5
<1> QED BY <1>1, <1>2, <1>5, <1>6, <1>4

(* new DataView: the length is compared with what was left before it was   *)
(* converted, and the buffer is looked at again at the end.                *)
LEMMA DataViewConstructor ==
  ASSUME NEW h, Sound(h), NEW v \in Views, ~ Exists(h, v),
         NEW b \in Buffers, InUse(h, b), NEW offset \in AnArgument, NEW length \in AnOption,
         NEW proto \in Prototypes
  PROVE  Sound(js_dataview_constructor(h, v, b, offset, length, proto).heap)
<1> DEFINE h1 == Converted(h, offset)
           start == offset.value
           left == ByteLength(h1, b) - start
           h2 == IF length = <<>> THEN h1 ELSE Converted(h1, length[1])
           len == IF length = <<>> THEN left ELSE length[1].value
           r == [class |-> DataView, buffer |-> b, offset |-> start, length |-> len, count |-> 0,
                 made |-> "live"]
           h3 == js_create_from_ctor(h2, proto)
           T == [h3 EXCEPT !.view[v] = r, !.list[b] = @ \cup {v}]
           R == js_dataview_constructor(h, v, b, offset, length, proto)
<1>1. Sound(h1) /\ ~ Exists(h1, v) /\ InUse(h1, b)
  BY ConvertedSound
<1>2. Sound(h2) /\ ~ Exists(h2, v) /\ InUse(h2, b)
      /\ (h2.status[b] = "live" => h2.data[b] = h1.data[b])
  BY <1>1, OptionSound
<1>3. Sound(h3) /\ ~ Exists(h3, v) /\ InUse(h3, b)
      /\ (h3.status[b] = "live" => h3.data[b] = h2.data[b] /\ h2.status[b] = "live")
  <2>1. h2.status[b] \in Status
    BY <1>2, HeapFields DEF Sound, Good
  <2> HIDE DEF h2
  <2> QED BY <1>2, CreatedSound, CreatedLive
<1>4. ByteLength(h1, b) \in Nat /\ start \in Int /\ left \in Int /\ len \in Int
  <2>1. h1 \in HeapType
    BY <1>1 DEF Sound, Good
  <2>2. h1.data[b] \in Seq(Byte)
    BY <2>1, HeapFields
  <2>3. start \in Int /\ (length # <<>> => length[1].value \in Int)
    BY DEF AnArgument, AnOption
  <2> HIDE DEF h1
  <2> QED BY <2>2, <2>3, LenProperties DEF ByteLength
<1>5. R = CASE start < 0 -> Throw(h1, "RangeError")
            [] start >= 0 /\ h1.status[b] = "detached" -> Throw(h1, "TypeError")
            [] start >= 0 /\ h1.status[b] # "detached" /\ left < 0 -> Throw(h1, "RangeError")
            [] OTHER ->
               CASE len < 0 \/ len > left -> Throw(h2, "RangeError")
                 [] len >= 0 /\ len <= left /\ proto.throws -> Throw(h3, "exception")
                 [] len >= 0 /\ len <= left /\ ~ proto.throws /\ h3.status[b] = "detached" -> Throw(h3, "TypeError")
                 [] OTHER -> Return(T, v)
  BY Zenon DEF js_dataview_constructor
<1>6. \/ R.heap \in {h1, h2, h3}
      \/ R.heap = T /\ start >= 0 /\ len >= 0 /\ len <= left /\ h3.status[b] # "detached"
  <2> HIDE DEF R, h1, h2, h3, len, left, start, T
  <2>1. CASE start < 0
    BY <1>5, <2>1, <1>4 DEF Throw
  <2>2. CASE start >= 0 /\ h1.status[b] = "detached"
    BY <1>5, <2>2, <1>4 DEF Throw
  <2>3. CASE start >= 0 /\ h1.status[b] # "detached" /\ left < 0
    BY <1>5, <2>3, <1>4 DEF Throw
  <2>4. CASE start >= 0 /\ h1.status[b] # "detached" /\ left >= 0
    BY <1>5, <2>4, <1>4 DEF Throw, Return
  <2> QED BY <2>1, <2>2, <2>3, <2>4, <1>4
<1>7. ASSUME start >= 0, len >= 0, len <= left, h3.status[b] # "detached"
      PROVE  Sound(T)
  <2>1. h3.status[b] = "live"
    BY <1>3, <1>7 DEF InUse
  <2>2. ByteLength(h3, b) = ByteLength(h1, b)
    <3> HIDE DEF h1, h2, h3
    <3> QED BY <1>2, <1>3, <2>1 DEF ByteLength
  <2>3. start + len <= ByteLength(h3, b) /\ start \in Nat /\ len \in Nat
    <3> HIDE DEF h1, h2, h3, start, len
    <3> QED BY <1>4, <1>7, <2>2
  <2> HIDE DEF h1, h2, h3, start, len
  <2>4. r \in ViewRec
    BY <2>3 DEF ViewRec
  <2>5. r.class = DataView /\ r.buffer = b /\ r.offset = start /\ r.length = len /\ r.count = 0 /\ r.made = "live"
    OBVIOUS
  <2> HIDE DEF r
  <2>6. Fits(h3, r)
    BY <2>3, <2>5, SizesAssumption, SMTT(30) DEF Fits, ByteLength
  <2>7. Sound([h3 EXCEPT !.view[v] = r, !.list[r.buffer] = @ \cup {v}])
    BY <1>3, <2>4, <2>5, <2>6, SizesAssumption, AddView, Zenon
  <2> QED BY <2>5, <2>7
<1> QED BY <1>1, <1>2, <1>6, <1>7, <1>3

(* subarray: the buffer of an existing view is in use between collections. *)
LEMMA TypedArraySubarray ==
  ASSUME NEW h, Sound(h), NEW w \in Views, NEW v \in Views, ~ Exists(h, w), IsTyped(h, v),
         NEW begin \in AnArgument, NEW end \in AnOption
  PROVE  Sound(js_typed_array_subarray(h, w, v, begin, end).heap)
<1> DEFINE len == h.view[v].count
           h1 == Converted(h, begin)
           start == JS_ToInt32Clamp(begin.value, len)
           h2 == IF end = <<>> THEN h1 ELSE Converted(h1, end[1])
           final == IF end = <<>> THEN len ELSE JS_ToInt32Clamp(end[1].value, len)
           b == h.view[v].buffer
           class == h.view[v].class
           offset == IF h2.status[b] = "detached" THEN 0 ELSE h2.view[v].offset
           at == [value |-> offset + start * SizeOf[class], detaches |-> {}]
           n == [value |-> IF final > start THEN final - start ELSE 0, detaches |-> {}]
<1>1. h \in HeapType
  BY DEF Sound, Good
<1>2. b \in Buffers /\ len \in Nat /\ class \in Classes /\ class # None
  BY <1>1, HeapFields, ViewFields, SizesAssumption DEF IsTyped
<1>3. InUse(h, b)
  BY <1>2 DEF Sound, Exists
<1>4. Sound(h1) /\ ~ Exists(h1, w) /\ InUse(h1, b)
  BY <1>2, <1>3, ConvertedSound
<1>5. Sound(h2) /\ ~ Exists(h2, w) /\ InUse(h2, b)
  BY <1>2, <1>4, OptionSound
<1>6. start \in Int /\ final \in Int
  <2>1. begin.value \in Int /\ (end # <<>> => end[1].value \in Int)
    BY DEF AnArgument, AnOption
  <2> HIDE DEF len
  <2> QED BY <1>2, <2>1 DEF JS_ToInt32Clamp
<1>7. offset \in Int
  <2>1. h2 \in HeapType
    BY <1>5 DEF Sound, Good
  <2>2. h2.view[v].offset \in Nat
    BY <2>1, HeapFields, ViewFields
  <2> QED BY <2>2
<1> HIDE DEF h2, start, final, offset, class, b
<1>8. SizeOf[class] \in Int
  BY <1>2, SizesAssumption
<1>9. at \in AnArgument /\ <<n>> \in AnOption
  <2>1. offset + start * SizeOf[class] \in Int
    BY <1>6, <1>7, <1>8
  <2>2. n \in AnArgument
    BY <1>6 DEF AnArgument
  <2> QED BY <2>1, <2>2, Zenon DEF AnArgument, AnOption
<1>10. js_typed_array_subarray(h, w, v, begin, end) = js_typed_array_constructor(h2, w, class, b, at, <<n>>, PlainPrototype)
  BY Zenon DEF js_typed_array_subarray, h2, start, final, offset, class, b
<1> HIDE DEF at, n
<1>11. Sound(js_typed_array_constructor(h2, w, class, b, at, <<n>>, PlainPrototype).heap)
  <2>1. PlainPrototype \in Prototypes
    BY DEF PlainPrototype, Prototypes
  <2> QED BY <1>2, <1>5, <1>9, <2>1, TypedArrayConstructor
<1> QED BY <1>10, <1>11

-----------------------------------------------------------------------------
(* A change of the data, status, shared and held of buffer c keeps a heap  *)
(* Good when the new state of c suits the views that c has.                *)
LEMMA ChangeBufferGood ==
  ASSUME NEW h, Good(h), NEW c \in Buffers, NEW T \in HeapType, T.list = h.list, T.view = h.view,
         \A b \in Buffers \ {c} : /\ T.data[b] = h.data[b] /\ T.status[b] = h.status[b]
                                  /\ T.held[b] = h.held[b],
         \/ T.status[c] = h.status[c] /\ T.data[c] = h.data[c]
         \/ T.status[c] = "live" /\ h.status[c] = "none"
         \/ T.status[c] = "freed",
         T.held[c] => InUse(T, c)
  PROVE  Good(T)
<1>1. h \in HeapType
  BY DEF Good
<1>2. \A v \in Views : T.view[v].buffer \in Buffers
  BY HeapFields, ViewFields
<1>3. \A b \in Buffers : ViewsOf(T, b) = ViewsOf(h, b)
  BY DEF ViewsOf, Exists
<1>4. Inside(T)
  <2> SUFFICES ASSUME NEW v \in Views PROVE Fits(T, T.view[v])
    BY DEF Inside
  <2>1. Fits(h, T.view[v]) /\ T.view[v].buffer \in Buffers
    BY <1>2, SMTT(30) DEF Good, Inside
  <2>2. CASE T.view[v].buffer # c
    BY <2>1, <2>2, SMTT(30) DEF Fits
  <2>3. CASE T.view[v].buffer = c /\ T.status[c] = h.status[c] /\ T.data[c] = h.data[c]
    BY <2>1, <2>3 DEF Fits
  <2>4. CASE T.view[v].buffer = c /\ T.status[c] = "freed"
    BY <2>1, <2>4 DEF Fits
  <2>5. CASE T.view[v].buffer = c /\ T.status[c] = "live" /\ h.status[c] = "none"
    <3>1. T.view[v].class = None
      BY <2>5 DEF Good, Unmade, ViewsOf, Exists
    <3> QED BY <2>1, <3>1, SizesAssumption DEF Fits
  <2> QED BY <2>2, <2>3, <2>4, <2>5
<1>5. Listed(T) /\ Unmade(T)
  <2> SUFFICES ASSUME NEW b \in Buffers
               PROVE  /\ InUse(T, b) => T.list[b] = ViewsOf(T, b)
                      /\ T.status[b] = "none" => T.list[b] = {} /\ ViewsOf(T, b) = {}
    BY DEF Listed, Unmade
  <2>1. /\ InUse(h, b) => T.list[b] = ViewsOf(T, b)
        /\ h.status[b] = "none" => T.list[b] = {} /\ ViewsOf(T, b) = {}
    BY <1>3 DEF Good, Listed, Unmade
  <2> QED BY <2>1, Zenon DEF InUse
<1>6. HeldInUse(T)
  BY DEF HeldInUse, Good, InUse
<1> QED BY <1>4, <1>5, <1>6 DEF Good

(* js_array_buffer_finalizer changes one buffer.                           *)
LEMMA FinalizeBuffer ==
  ASSUME NEW h, Good(h), NEW c \in Buffers, ~ h.held[c]
  PROVE  LET T == js_array_buffer_finalizer(h, c) IN
         /\ Good(T) /\ T.list = h.list /\ T.view = h.view /\ T.held = h.held
         /\ T.status[c] = "freed" /\ \A b \in Buffers \ {c} : T.status[b] = h.status[b]
<1> DEFINE T == js_array_buffer_finalizer(h, c)
           data == [h.data EXCEPT ![c] = <<>>]
           status == [h.status EXCEPT ![c] = "freed"]
<1>1. h \in HeapType
  BY DEF Good
<1>2. T = [data |-> data, status |-> status, shared |-> h.shared,
           held |-> h.held, list |-> h.list, view |-> h.view]
  <2>1. h = [data |-> h.data, status |-> h.status, shared |-> h.shared,
             held |-> h.held, list |-> h.list, view |-> h.view]
    BY <1>1, HeapFields
  <2>2. T = [h EXCEPT !.data = data, !.status = status]
    BY <2>1 DEF js_array_buffer_finalizer
  <2> HIDE DEF data, status, T
  <2> QED BY <2>1, <2>2, Zenon
<1>3. /\ data \in [Buffers -> Seq(Byte)] /\ status \in [Buffers -> Status]
      /\ status[c] = "freed"
      /\ \A b \in Buffers \ {c} : data[b] = h.data[b] /\ status[b] = h.status[b]
  BY <1>1, HeapFields, EmptySeq DEF Status
<1> HIDE DEF data, status, T
<1>4. T \in HeapType
  BY <1>1, <1>2, <1>3, HeapFields DEF HeapType
<1>5. T.data = data /\ T.status = status /\ T.held = h.held /\ T.list = h.list /\ T.view = h.view
  BY <1>2
<1>6. Good(T)
  BY <1>3, <1>4, <1>5, ChangeBufferGood, ZenonT(30)
<1> QED BY <1>3, <1>5, <1>6 DEF T

(* js_array_buffer_constructor3 on a buffer not yet made.                  *)
LEMMA NewBufferSound ==
  ASSUME NEW h, Sound(h), NEW c \in Buffers, h.status[c] = "none",
         NEW len \in Nat, NEW sh \in BOOLEAN
  PROVE  Sound(NewBuffer(h, c, len, sh))
<1> DEFINE T == NewBuffer(h, c, len, sh)
           data == [h.data EXCEPT ![c] = [i \in 1..len |-> 0]]
           status == [h.status EXCEPT ![c] = "live"]
           shared == [h.shared EXCEPT ![c] = sh]
           held == [h.held EXCEPT ![c] = TRUE]
<1>1. h \in HeapType /\ Good(h)
  BY DEF Good, Sound
<1>2. T = [data |-> data, status |-> status, shared |-> shared,
           held |-> held, list |-> h.list, view |-> h.view]
  <2>1. h = [data |-> h.data, status |-> h.status, shared |-> h.shared,
             held |-> h.held, list |-> h.list, view |-> h.view]
    BY <1>1, HeapFields
  <2>2. T = [h EXCEPT !.data = data, !.status = status, !.shared = shared, !.held = held]
    BY <2>1 DEF NewBuffer
  <2> HIDE DEF data, status, shared, held, T
  <2> QED BY <2>1, <2>2, Zenon
<1>3. [i \in 1..len |-> 0] \in Seq(Byte)
  <2>1. [i \in 1..len |-> 0] \in [1..len -> Byte]
    BY ByteAssumption
  <2>2. [1..len -> Byte] \subseteq Seq(Byte)
    BY SeqDef
  <2> QED BY <2>1, <2>2
<1>4. data \in [Buffers -> Seq(Byte)] /\ \A b \in Buffers \ {c} : data[b] = h.data[b]
  <2> DEFINE zeros == [i \in 1..len |-> 0]
  <2> HIDE DEF zeros
  <2> QED BY <1>1, <1>3, HeapFields DEF zeros
<1>5. /\ status \in [Buffers -> Status]
      /\ status[c] = "live" /\ \A b \in Buffers \ {c} : status[b] = h.status[b]
  BY <1>1, HeapFields DEF Status
<1>6. /\ shared \in [Buffers -> BOOLEAN] /\ held \in [Buffers -> BOOLEAN]
      /\ \A b \in Buffers \ {c} : held[b] = h.held[b]
  BY <1>1, HeapFields
<1> HIDE DEF data, status, shared, held, T
<1>7. T \in HeapType
  BY <1>1, <1>2, <1>4, <1>5, <1>6, HeapFields DEF HeapType
<1>8. T.data = data /\ T.status = status /\ T.held = held /\ T.list = h.list /\ T.view = h.view
  BY <1>2
<1>9. Good(T)
  <2>1. \A b \in Buffers \ {c} : /\ T.data[b] = h.data[b] /\ T.status[b] = h.status[b]
                                /\ T.held[b] = h.held[b]
    BY <1>4, <1>5, <1>6, <1>8
  <2>2. T.status[c] = "live" /\ h.status[c] = "none"
    BY <1>5, <1>8
  <2>3. InUse(T, c)
    BY <2>2 DEF InUse
  <2> QED BY <1>1, <1>7, <1>8, <2>1, <2>2, <2>3, ChangeBufferGood
<1>10. \A v \in Views : Exists(T, v) => InUse(T, T.view[v].buffer)
  <2>1. \A v \in Views : h.view[v].buffer \in Buffers
    BY <1>1, HeapFields, ViewFields
  <2> QED BY <1>5, <1>8, <2>1 DEF Exists, InUse, Sound
<1> QED BY <1>9, <1>10 DEF Sound, T

(* The script lets go of a buffer.                                         *)
LEMMA LetGo ==
  ASSUME NEW h, Good(h), NEW c \in Buffers
  PROVE  LET T == [h EXCEPT !.held[c] = FALSE] IN
         /\ Good(T) /\ ~ T.held[c] /\ \A b \in Buffers \ {c} : T.held[b] = h.held[b]
         /\ T.list = h.list /\ T.view = h.view /\ T.status = h.status
<1> DEFINE T == [h EXCEPT !.held[c] = FALSE]
           held == [h.held EXCEPT ![c] = FALSE]
<1>1. h \in HeapType
  BY DEF Good
<1>2. T = [data |-> h.data, status |-> h.status, shared |-> h.shared,
           held |-> held, list |-> h.list, view |-> h.view]
  <2>1. h = [data |-> h.data, status |-> h.status, shared |-> h.shared,
             held |-> h.held, list |-> h.list, view |-> h.view]
    BY <1>1, HeapFields
  <2>2. T = [h EXCEPT !.held = held]
    BY <2>1
  <2> HIDE DEF held, T
  <2> QED BY <2>1, <2>2
<1>3. held \in [Buffers -> BOOLEAN] /\ ~ held[c] /\ \A b \in Buffers \ {c} : held[b] = h.held[b]
  BY <1>1, HeapFields
<1> HIDE DEF held, T
<1>4. T \in HeapType
  BY <1>1, <1>2, <1>3, HeapFields DEF HeapType
<1>5. /\ T.data = h.data /\ T.status = h.status /\ T.held = held
      /\ T.list = h.list /\ T.view = h.view
  BY <1>2
<1>6. Good(T)
  BY <1>3, <1>4, <1>5, ChangeBufferGood
<1> QED BY <1>3, <1>5, <1>6 DEF T

(* js_typed_array_finalizer: the view leaves the list of its buffer unless *)
(* the buffer went first.                                                  *)
LEMMA FinalizeView ==
  ASSUME NEW h, Good(h), NEW v \in Views
  PROVE  LET T == js_typed_array_finalizer(h, v) IN
         /\ Good(T) /\ T.status = h.status /\ T.held = h.held
         /\ ~ Exists(T, v) /\ \A w \in Views \ {v} : T.view[w] = h.view[w]
         /\ \A b \in Buffers : InUse(h, b) => T.list[b] = h.list[b] \ {v}
<1> DEFINE T == js_typed_array_finalizer(h, v)
           c == h.view[v].buffer
           view == [h.view EXCEPT ![v] = NoView(c)]
           list == [h.list EXCEPT ![c] = IF h.status[c] # "freed" THEN @ \ {v} ELSE @]
<1>1. h \in HeapType
  BY DEF Good
<1>2. c \in Buffers
  BY <1>1, HeapFields, ViewFields
<1>3. T = [data |-> h.data, status |-> h.status, shared |-> h.shared,
           held |-> h.held, list |-> list, view |-> view]
  <2>1. h = [data |-> h.data, status |-> h.status, shared |-> h.shared,
             held |-> h.held, list |-> h.list, view |-> h.view]
    BY <1>1, HeapFields
  <2>2. T = [h EXCEPT !.view = view, !.list = list]
    BY <2>1 DEF js_typed_array_finalizer
  <2> HIDE DEF view, list, T
  <2> QED BY <2>1, <2>2, Zenon
<1>4. NoView(c) \in ViewRec /\ NoView(c).class = None /\ NoView(c).buffer = c /\ NoView(c).count = 0
      /\ NoView(c).made = "live"
  BY <1>2 DEF NoView, ViewRec
<1>5. view \in [Views -> ViewRec] /\ view[v] = NoView(c) /\ \A w \in Views \ {v} : view[w] = h.view[w]
  BY <1>1, <1>4, HeapFields
<1>6. /\ list \in [Buffers -> SUBSET Views]
      /\ \A b \in Buffers : list[b] \in {h.list[b], h.list[b] \ {v}}
      /\ h.status[c] # "freed" => list[c] = h.list[c] \ {v}
      /\ \A b \in Buffers \ {c} : list[b] = h.list[b]
  <2>1. h.list \in [Buffers -> SUBSET Views]
    BY <1>1, HeapFields
  <2>2. h.list[c] \ {v} \in SUBSET Views /\ h.list[c] \in SUBSET Views
    BY <1>2, <2>1, Zenon
  <2>3. list \in [Buffers -> SUBSET Views]
    BY <2>1, <2>2, Zenon
  <2>4. /\ h.status[c] # "freed" => list[c] = h.list[c] \ {v}
        /\ h.status[c] = "freed" => list[c] = h.list[c]
    BY <1>2, <2>1
  <2>5. \A b \in Buffers \ {c} : list[b] = h.list[b]
    BY <2>1
  <2> HIDE DEF list
  <2> QED
    BY <2>3, <2>4, <2>5, Zenon
<1> HIDE DEF view, list, T, c
<1>7. T \in HeapType
  BY <1>1, <1>3, <1>5, <1>6, HeapFields DEF HeapType
<1>8. /\ T.data = h.data /\ T.status = h.status /\ T.held = h.held
      /\ T.list = list /\ T.view = view
  BY <1>3
<1>9. \A b \in Buffers : ViewsOf(T, b) = ViewsOf(h, b) \ {v}
  BY <1>4, <1>5, <1>8 DEF ViewsOf, Exists
<1>10. \A b \in Buffers : InUse(h, b) => list[b] = h.list[b] \ {v}
  <2> SUFFICES ASSUME NEW b \in Buffers, InUse(h, b) PROVE list[b] = h.list[b] \ {v}
    OBVIOUS
  <2>1. CASE b = c
    BY <1>6, <2>1 DEF InUse
  <2>2. CASE b # c
    <3>1. v \notin h.list[b]
      BY <2>2 DEF Good, Listed, ViewsOf, c
    <3> QED BY <1>6, <2>2, <3>1
  <2> QED BY <2>1, <2>2
<1>11. Listed(T) /\ HeldInUse(T)
  BY <1>8, <1>9, <1>10, Zenon DEF Listed, HeldInUse, Good, InUse
<1>12. Unmade(T)
  <2> SUFFICES ASSUME NEW b \in Buffers, h.status[b] = "none"
               PROVE  list[b] = {} /\ ViewsOf(T, b) = {}
    BY <1>8 DEF Unmade
  <2>1. h.list[b] = {} /\ ViewsOf(h, b) = {}
    BY DEF Good, Unmade
  <2> QED BY <1>6, <1>9, <2>1
<1>13. Inside(T)
  <2>1. Fits(T, NoView(c))
    BY <1>4, SizesAssumption, Zenon DEF Fits
  <2>2. ASSUME NEW w \in Views PROVE Fits(h, h.view[w]) => Fits(T, h.view[w])
    BY <1>8, Zenon DEF Fits
  <2>3. \A w \in Views : Fits(h, h.view[w])
    BY Zenon DEF Good, Inside
  <2> QED
    BY <1>5, <1>8, <2>1, <2>2, <2>3, Zenon DEF Inside
<1> QED BY <1>4, <1>5, <1>7, <1>8, <1>10, <1>11, <1>12, <1>13 DEF Good, T, Exists

-----------------------------------------------------------------------------
(* Between collections a Good heap without garbage is sound.               *)
LEMMA SoundHeap ==
  ASSUME NEW h, Good(h)
  PROVE  Sound(h) <=> Garbage(h, {})
<1>1. \A v \in Views : h.view[v].buffer \in Buffers /\ h.status[h.view[v].buffer] \in Status
  BY HeapFields, ViewFields DEF Good
<1>2. \A v \in Views : Exists(h, v) => h.status[h.view[v].buffer] # "none"
  BY <1>1 DEF Good, Unmade, ViewsOf
<1> QED BY <1>1, <1>2 DEF Sound, Garbage, InUse, Status

(* Releasing a buffer finalizes it only when it has no view left.          *)
LEMMA ReleasedSound ==
  ASSUME NEW h, Sound(h), NEW b \in Buffers, InUse(h, b)
  PROVE  Sound(Released(h, b))
<1>1. CASE ~ h.held[b] /\ h.list[b] = {}
  <2> DEFINE T == js_array_buffer_finalizer(h, b)
  <2>1. /\ Good(T) /\ T.view = h.view
        /\ \A c \in Buffers \ {b} : T.status[c] = h.status[c]
    BY <1>1, FinalizeBuffer DEF Sound
  <2> HIDE DEF T
  <2>2. \A v \in Views : Exists(h, v) => h.view[v].buffer # b
    BY <1>1 DEF Sound, Good, Listed, ViewsOf
  <2>3. \A v \in Views : h.view[v].buffer \in Buffers
    BY HeapFields, ViewFields DEF Sound, Good
  <2>4. Sound(T)
    BY <2>1, <2>2, <2>3 DEF Sound, Exists, InUse
  <2> QED BY <1>1, <2>4 DEF Released, T
<1>2. CASE ~ (~ h.held[b] /\ h.list[b] = {})
  BY <1>2 DEF Released
<1> QED BY <1>1, <1>2

(* The invariant holds before anything is made.                            *)
LEMMA BuffersInitial == BuffersInit => BuffersIInv
<1> SUFFICES ASSUME BuffersInit PROVE BuffersIInv
  OBVIOUS
<1> DEFINE c == CHOOSE b \in Buffers : TRUE
<1>1. c \in Buffers
  BY ObjectsAssumption
<1> HIDE DEF c
<1>2. NoView(c) \in ViewRec /\ NoView(c).class = None /\ NoView(c).count = 0
      /\ NoView(c).made = "live"
  BY <1>1 DEF NoView, ViewRec
<1>3. heap = [data |-> [b \in Buffers |-> <<>>], status |-> [b \in Buffers |-> "none"],
              shared |-> [b \in Buffers |-> FALSE], held |-> [b \in Buffers |-> FALSE],
              list |-> [b \in Buffers |-> {}], view |-> [v \in Views |-> NoView(c)]]
      /\ dying = {}
  BY DEF BuffersInit, EmptyHeap, c
<1>4. [b \in Buffers |-> <<>>] \in [Buffers -> Seq(Byte)]
  BY EmptySeq
<1>5. heap \in HeapType
  BY <1>2, <1>3, <1>4 DEF HeapType, Status
<1>6. \A b \in Buffers : heap.status[b] = "none" /\ ~ heap.held[b] /\ heap.list[b] = {}
  BY <1>3
<1>7. \A v \in Views : heap.view[v] = NoView(c)
  BY <1>3
<1>8. Inside(heap)
  BY <1>2, <1>7, SizesAssumption DEF Inside, Fits
<1>9. Listed(heap) /\ Unmade(heap) /\ HeldInUse(heap)
  BY <1>2, <1>6, <1>7 DEF Listed, Unmade, HeldInUse, InUse, ViewsOf, Exists
<1>10. Garbage(heap, dying)
  BY <1>2, <1>3, <1>7 DEF Garbage, Exists
<1> QED BY <1>5, <1>8, <1>9, <1>10 DEF BuffersIInv, Good

(* What a program passes is a number and a set of buffers.                 *)
LEMMA ArgumentTypes == Arguments \subseteq AnArgument /\ Optional \subseteq AnOption
<1>1. Arguments \subseteq AnArgument
  BY ArgumentsAssumption, Zenon DEF Arguments, AnArgument
<1> QED BY <1>1 DEF Optional, AnOption

(* Every step of a program or of a collection keeps the invariant.         *)
LEMMA BuffersStep == BuffersIInv /\ [BuffersNext]_bufferVars => BuffersIInv'
<1> SUFFICES ASSUME BuffersIInv, [BuffersNext]_bufferVars PROVE BuffersIInv'
  OBVIOUS
<1>0. Good(heap) /\ Garbage(heap, dying) /\ heap \in HeapType
  BY DEF BuffersIInv, Good
<1>1. Mutator => Sound(heap)
  BY <1>0, SoundHeap DEF Mutator
<1>2. ASSUME Mutator, Sound(heap'), UNCHANGED dying PROVE BuffersIInv'
  <2>1. Good(heap') /\ dying' = {}
    BY <1>2 DEF Sound, Mutator
  <2>2. Garbage(heap', {})
    BY <1>2, <2>1, SoundHeap
  <2> QED BY <2>1, <2>2 DEF BuffersIInv
<1>3. ASSUME NEW b \in Buffers, NEW n \in Lengths, NEW shared \in BOOLEAN, Construct(b, n, shared)
      PROVE  BuffersIInv'
  BY <1>1, <1>2, <1>3, ArgumentsAssumption, NewBufferSound DEF Construct
<1>4. ASSUME NEW b \in Buffers, Detach(b) PROVE BuffersIInv'
  BY <1>1, <1>2, <1>4, DetachSound DEF Detach
<1>5. ASSUME NEW v \in Views, NEW c \in Classes, NEW b \in Buffers, NEW x \in Arguments, NEW y \in Optional,
             NEW p \in Prototypes, View(v, c, b, x, y, p)
      PROVE  BuffersIInv'
  BY <1>1, <1>2, <1>5, ArgumentTypes, TypedArrayConstructor DEF View, Usable, Unused, InUse
<1>6. ASSUME NEW w \in Views, NEW v \in Views, NEW x \in Arguments, NEW y \in Optional, Subarray(w, v, x, y)
      PROVE  BuffersIInv'
  BY <1>1, <1>2, <1>6, ArgumentTypes, TypedArraySubarray DEF Subarray, Unused
<1>7. ASSUME NEW v \in Views, NEW b \in Buffers, NEW x \in Arguments, NEW y \in Optional, NEW p \in Prototypes,
             NewDataView(v, b, x, y, p)
      PROVE  BuffersIInv'
  BY <1>1, <1>2, <1>7, ArgumentTypes, DataViewConstructor DEF NewDataView, Usable, Unused, InUse
<1>8. ASSUME NEW b \in Buffers, DropBuffer(b) PROVE BuffersIInv'
  <2> DEFINE T == [heap EXCEPT !.held[b] = FALSE]
  <2>1. Mutator /\ heap.held[b] /\ heap' = Released(T, b) /\ UNCHANGED dying
    BY <1>8 DEF DropBuffer
  <2>2. Good(T) /\ T.view = heap.view /\ T.status = heap.status
    BY <1>0, LetGo
  <2> HIDE DEF T
  <2>3. Sound(T)
    BY <1>1, <2>1, <2>2 DEF Sound, Exists, InUse
  <2>4. InUse(T, b)
    BY <1>0, <2>1, <2>2 DEF Good, HeldInUse, InUse
  <2> QED BY <1>2, <2>1, <2>3, <2>4, ReleasedSound
<1>9. ASSUME NEW v \in Views, DropView(v) PROVE BuffersIInv'
  <2> DEFINE T == js_typed_array_finalizer(heap, v)
             b == heap.view[v].buffer
  <2>1. Mutator /\ Exists(heap, v) /\ heap' = Released(T, b) /\ UNCHANGED dying
    BY <1>9 DEF DropView
  <2>2. /\ Good(T) /\ T.status = heap.status
        /\ ~ Exists(T, v) /\ \A w \in Views \ {v} : T.view[w] = heap.view[w]
    BY <1>0, FinalizeView
  <2> HIDE DEF T
  <2>3. b \in Buffers /\ InUse(heap, b)
    BY <1>0, <1>1, <2>1, HeapFields, ViewFields DEF Sound
  <2>4. Sound(T)
    BY <1>1, <2>1, <2>2 DEF Sound, Exists, InUse
  <2>5. InUse(T, b)
    BY <2>2, <2>3 DEF InUse
  <2> HIDE DEF b
  <2> QED BY <1>2, <2>1, <2>3, <2>4, <2>5, ReleasedSound
<1>10. ASSUME NEW b \in Buffers, CollectCycle(b) PROVE BuffersIInv'
  <2>1. Mutator /\ Usable(b) /\ dying' = {b} \cup heap.list[b] /\ heap' = [heap EXCEPT !.held[b] = FALSE]
    BY <1>10 DEF CollectCycle
  <2>2. /\ Good(heap') /\ ~ heap'.held[b]
        /\ heap'.list = heap.list /\ heap'.view = heap.view /\ heap'.status = heap.status
    BY <1>0, <2>1, LetGo
  <2>3. heap.list[b] \subseteq Views
    BY <1>0, HeapFields
  <2>4. dying' \cap Buffers = {b} /\ dying' \subseteq Buffers \cup Views
    BY <2>1, <2>3, ObjectsAssumption
  <2>5. \A v \in Views : Exists(heap', v) => InUse(heap', heap'.view[v].buffer)
    BY <1>1, <2>1, <2>2 DEF Sound, Exists, InUse
  <2>6. InUse(heap', b) /\ heap'.list[b] \subseteq dying'
    BY <2>1, <2>2 DEF Usable, InUse
  <2>7. Garbage(heap', dying')
    BY <2>2, <2>4, <2>5, <2>6 DEF Garbage, InUse
  <2> QED BY <2>2, <2>7 DEF BuffersIInv
<1>11. ASSUME NEW o \in dying, Finalize(o) PROVE BuffersIInv'
  <2>1. o \in Buffers \cup Views /\ dying' = dying \ {o}
    BY <1>0, <1>11 DEF Finalize, Garbage
  <2>2. CASE o \in Buffers
    <3>1. heap' = js_array_buffer_finalizer(heap, o) /\ ~ heap.held[o]
      BY <1>0, <1>11, <2>2 DEF Finalize, Garbage
    <3>2. /\ Good(heap') /\ heap'.list = heap.list /\ heap'.view = heap.view /\ heap'.held = heap.held
          /\ heap'.status[o] = "freed" /\ \A b \in Buffers \ {o} : heap'.status[b] = heap.status[b]
      BY <1>0, <2>2, <3>1, FinalizeBuffer
    <3>3. o \notin Views /\ heap.list[o] \subseteq dying \ {o} /\ InUse(heap, o)
      <4>1. heap.list[o] \subseteq Views /\ heap.list[o] \subseteq dying /\ InUse(heap, o)
        BY <1>0, <2>2, HeapFields DEF Garbage
      <4> QED BY <4>1, <2>2, ObjectsAssumption
    <3>4. ASSUME NEW v \in Views, Exists(heap', v), heap'.status[heap'.view[v].buffer] = "freed"
          PROVE  v \in dying'
      <4>1. heap.view[v].buffer \in Buffers /\ Exists(heap, v)
        BY <1>0, <3>2, <3>4, HeapFields, ViewFields DEF Exists
      <4>2. CASE heap.view[v].buffer = o
        <5>1. v \in heap.list[o]
          BY <1>0, <2>2, <3>3, <4>1, <4>2 DEF Good, Listed, ViewsOf
        <5> QED BY <2>1, <3>3, <5>1
      <4>3. CASE heap.view[v].buffer # o
        BY <1>0, <2>1, <3>2, <3>3, <3>4, <4>1, <4>3 DEF Garbage
      <4> QED BY <4>2, <4>3
    <3>5. ASSUME NEW b \in dying' \cap Buffers
          PROVE  InUse(heap', b) /\ ~ heap'.held[b] /\ heap'.list[b] \subseteq dying'
      <4>1. b # o /\ b \in dying \cap Buffers
        BY <2>1
      <4>2. heap.list[b] \subseteq Views /\ heap.list[b] \subseteq dying /\ InUse(heap, b) /\ ~ heap.held[b]
        BY <1>0, <4>1, HeapFields DEF Garbage
      <4> QED BY <2>1, <3>2, <3>3, <4>1, <4>2 DEF InUse
    <3>6. dying' \subseteq Buffers \cup Views
      BY <1>0, <2>1 DEF Garbage
    <3> QED BY <3>2, <3>4, <3>5, <3>6 DEF BuffersIInv, Garbage
  <2>3. CASE o \notin Buffers
    <3>1. heap' = js_typed_array_finalizer(heap, o) /\ o \in Views
      BY <1>11, <2>1, <2>3 DEF Finalize
    <3>2. /\ Good(heap') /\ heap'.status = heap.status /\ heap'.held = heap.held
          /\ ~ Exists(heap', o) /\ \A w \in Views \ {o} : heap'.view[w] = heap.view[w]
          /\ \A b \in Buffers : InUse(heap, b) => heap'.list[b] = heap.list[b] \ {o}
      BY <1>0, <3>1, FinalizeView
    <3>3. \A v \in Views : Exists(heap', v) /\ heap'.status[heap'.view[v].buffer] = "freed" => v \in dying'
      BY <1>0, <2>1, <3>2 DEF Garbage, Exists
    <3>4. \A b \in dying' \cap Buffers : InUse(heap', b) /\ ~ heap'.held[b] /\ heap'.list[b] \subseteq dying'
      BY <1>0, <2>1, <3>2 DEF Garbage, InUse
    <3>5. dying' \subseteq Buffers \cup Views
      BY <1>0, <2>1 DEF Garbage
    <3> QED BY <3>2, <3>3, <3>4, <3>5 DEF BuffersIInv, Garbage
  <2> QED BY <2>2, <2>3
<1>12. CASE UNCHANGED bufferVars
  BY <1>12 DEF BuffersIInv, bufferVars
<1> QED BY <1>3, <1>4, <1>5, <1>6, <1>7, <1>8, <1>9, <1>10, <1>11, <1>12 DEF BuffersNext

(* The invariant implies what the runs check.                              *)
LEMMA BuffersImplied == BuffersIInv => HeapTypeOK /\ BuffersExact
<1> SUFFICES ASSUME BuffersIInv PROVE HeapTypeOK /\ BuffersExact
  OBVIOUS
<1>1. HeapTypeOK
  BY SMTT(30) DEF BuffersIInv, Good, Garbage, HeapTypeOK, HeapType, Status, ViewRec
<1>2. ViewsInside
  BY DEF BuffersIInv, Good, Inside, Fits, ViewsInside, Exists, IsTyped, ByteLength, Late
<1>3. ListExact
  BY DEF BuffersIInv, Good, Listed, ListExact, InUse, ViewsOf
<1> QED BY <1>1, <1>2, <1>3 DEF BuffersExact

(* Whatever a program constructs, detaches, converts and drops, and in     *)
(* whatever order a collection finalizes: a view lies inside its buffer, a *)
(* typed array of a detached buffer has no element unless the buffer was   *)
(* detached while js_typed_array_constructor looked up the prototype, and  *)
(* the list a buffer keeps holds exactly its views (JS_DetachArrayBuffer,  *)
(* js_typed_array_finalizer and the constructors of quickjs.c).            *)
THEOREM ViewsStayInside == BuffersSpec => [](HeapTypeOK /\ BuffersExact)
<1>1. BuffersSpec => []BuffersIInv
  BY BuffersInitial, BuffersStep, PTL DEF BuffersSpec
<1> QED BY <1>1, BuffersImplied, PTL
====
