------------------------------- MODULE Objects --------------------------------
(***************************************************************************)
(* The property operations of QuickJS on ordinary objects, arrays with a   *)
(* fast and a slow representation, arguments objects and String objects.   *)
(* Every object has its own list of properties (the shapes behind it are   *)
(* the subject of Shapes); a deleted property leaves a hole in the list    *)
(* until the list is compacted.  A getter or setter is called as the last  *)
(* thing an operation does: the call is its result.                        *)
(***************************************************************************)
EXTENDS Integers, Sequences, FiniteSets, SequencesExt, FiniteSetsExt

CONSTANTS
  ObjIds,               \* 1..n, prototypes are objects
  StartHeaps,           \* the objects a behaviour starts with
  Names,                \* the property names in use
  NewValues, Descs,     \* values and property descriptors of the calls
  MaxTagged, MaxIndex,  \* largest tagged integer atom (2^31-1), array index (2^32-2)
  CompactLimit,         \* deleted properties before compaction (8)
  MaxCalls              \* bound on the calls of a behaviour

VARIABLES objs, calls
ovars == <<objs, calls>>

Undef == -1
Null == 0
NoAtom == -9
length == -2
name == -3

IsTagged(a) == a \in 0..MaxTagged
IsArrayIndex(a) == a \in 0..MaxIndex

Prop(a, kind, c, w, e, v) ==
  [atom |-> a, kind |-> kind, c |-> c, w |-> w, e |-> e, val |-> v, get |-> Null, set |-> Null]
Data(a, v) == Prop(a, "data", TRUE, TRUE, TRUE, v)
Hole == Prop(NoAtom, "data", FALSE, FALSE, FALSE, Undef)

Object(class, proto, props, elems) ==
  [class |-> class, proto |-> proto, ext |-> TRUE, fast |-> class \in {"array", "arguments"},
   elems |-> elems, props |-> props, deleted |-> 0, small |-> FALSE]
Array(proto, elems) ==
  Object("array", proto, <<Prop(length, "length", FALSE, TRUE, FALSE, Len(elems))>>, elems)

\* A field of a descriptor is the empty set or holds one value.
Has1(field) == field # {}
Or(field, default) == IF field = {} THEN default ELSE CHOOSE x \in field : TRUE
IsAccessorDesc(d) == Has1(d.get) \/ Has1(d.set)
IsDataDesc(d) == Has1(d.value) \/ Has1(d.writable)
Full(v) == [value |-> {v}, writable |-> {TRUE}, get |-> {}, set |-> {},
            enumerable |-> {TRUE}, configurable |-> {TRUE}]
OnlyValue(v) == [value |-> {v}, writable |-> {}, get |-> {}, set |-> {},
                 enumerable |-> {}, configurable |-> {}]

\* The result of an operation on one object, or on the heap.
Ret(x, r) == [x |-> x, r |-> r, f |-> Null]
Calls1(x, f) == [x |-> x, r |-> IF f = Null THEN "false" ELSE "call", f |-> f]

find_own(O, a) == SelectInSeq(O.props, LAMBDA p : p.atom = a)

\* js_instantiate_prototype, JS_InstantiateFunctionListItem: the value is made on demand.
JS_AutoInitProperty(O, i) ==
  IF i # 0 /\ O.props[i].kind = "autoinit" THEN [O EXCEPT !.props[i].kind = "data"] ELSE O
Instantiated(O, a) == JS_AutoInitProperty(O, find_own(O, a))

add_prop(O, p) ==
  [O EXCEPT !.props = Append(@, p), !.small = @ \/ IsTagged(p.atom)]

convert_fast_array(O) ==
  LET elems == [i \in DOMAIN O.elems |-> Data(i - 1, O.elems[i])]
  IN [O EXCEPT !.fast = FALSE, !.elems = <<>>, !.props = @ \o elems,
               !.small = @ \/ elems # <<>>]

compact_props(O) ==
  [O EXCEPT !.props = SelectSeq(@, LAMBDA p : p.atom # NoAtom), !.deleted = 0]

CompactIfSparse(O) ==
  IF O.deleted >= CompactLimit /\ O.deleted >= Len(O.props) \div 2 THEN compact_props(O) ELSE O

DeleteFound(O, i) ==
  IF ~O.props[i].c THEN Ret(O, "false")
  ELSE Ret(CompactIfSparse([O EXCEPT !.props[i] = Hole, !.deleted = @ + 1]), "true")
DeleteNamed(O, a) == DeleteFound(O, find_own(O, a))

js_string_delete_property(O, a) == Ret(O, IF a \in 0..Len(O.elems) - 1 THEN "false" ELSE "true")

delete_own(O, a) ==
  IF find_own(O, a) # 0 THEN DeleteNamed(O, a)
  ELSE IF O.class = "string" THEN js_string_delete_property(O, a)
  ELSE IF ~O.fast \/ a \notin 0..Len(O.elems) - 1 THEN Ret(O, "true")
  ELSE IF a = Len(O.elems) - 1 THEN Ret([O EXCEPT !.elems = Front(@)], "true")
  ELSE DeleteNamed(convert_fast_array(O), a)

\* Few elements to remove: from the last one down, until one cannot be deleted.
AfterDelete(S, D) ==
  IF S.stop \/ D.r = "false" THEN [S EXCEPT !.stop = TRUE]
  ELSE [O |-> D.x, cur |-> S.cur - 1, stop |-> FALSE]
TruncateByIndex(O, len, cur) ==
  FoldLeft(LAMBDA S, k : AfterDelete(S, delete_own(S.O, cur - k)),
           [O |-> O, cur |-> cur, stop |-> FALSE], [k \in 1..cur - len |-> k])

\* Many: one pass over the properties for the last element that must stay, and one that
\* deletes.  The list may be compacted under the second pass.
MustStay(O, len) == {j \in DOMAIN O.props :
  IsArrayIndex(O.props[j].atom) /\ O.props[j].atom >= len /\ ~O.props[j].c}
DeleteFrom(S, i, cur) ==
  IF i <= Len(S.props) /\ IsArrayIndex(S.props[i].atom) /\ S.props[i].atom >= cur
  THEN delete_own(S, S.props[i].atom).x ELSE S
TruncateAt(O, cur) ==
  [O |-> FoldLeft(LAMBDA S, i : DeleteFrom(S, i, cur), O, [i \in DOMAIN O.props |-> i]),
   cur |-> cur]
TruncateByProperty(O, len) ==
  TruncateAt(O, Max({len} \cup {O.props[i].atom + 1 : i \in MustStay(O, len)}))

Truncated(O, len, cur) ==
  IF len >= cur THEN [O |-> O, cur |-> len]
  ELSE IF cur - len <= Len(O.props) THEN TruncateByIndex(O, len, cur)
  ELSE TruncateByProperty(O, len)

StoreLength(T, len) ==
  Ret([T.O EXCEPT !.props[1].val = T.cur], IF T.cur > len THEN "false" ELSE "true")

set_array_length(O, len) ==
  IF len = Undef THEN Ret(O, "throw")
  ELSE IF O.fast
  THEN Ret([O EXCEPT !.elems = SubSeq(@, 1, Min({len, Len(@)})), !.props[1].val = len], "true")
  ELSE StoreLength(Truncated(O, len, O.props[1].val), len)

\* A length above the largest integer is a float, and is not compared.
add_fast_array_element(O, v) ==
  LET new == Len(O.elems) + 1
      grows == O.props[1].val <= MaxTagged /\ new > O.props[1].val
  IN IF grows /\ ~O.props[1].w THEN Ret(O, "false")
     ELSE Ret([O EXCEPT !.elems = Append(@, v),
                        !.props[1].val = IF grows THEN new ELSE @], "true")

\* The length grows before it is known that the element can be added.
GrowLength(O, a) ==
  IF O.class # "array" \/ ~IsArrayIndex(a) \/ a < O.props[1].val THEN Ret(O, "true")
  ELSE IF ~O.props[1].w THEN Ret(O, "false")
  ELSE Ret([O EXCEPT !.props[1].val = a + 1], "true")

NewProp(a, d) ==
  IF IsAccessorDesc(d)
  THEN [Prop(a, "getset", Or(d.configurable, FALSE), FALSE, Or(d.enumerable, FALSE), Undef)
          EXCEPT !.get = Or(d.get, Null), !.set = Or(d.set, Null)]
  ELSE Prop(a, "data", Or(d.configurable, FALSE), Or(d.writable, FALSE),
            Or(d.enumerable, FALSE), Or(d.value, Undef))

PlainFlags(d, default) ==
  Or(d.configurable, default) /\ Or(d.writable, default) /\ Or(d.enumerable, default)

\* Ordinary creation, after the exotic cases.
CreateOrdinary(O, a, d) ==
  LET C == IF O.class = "array" /\ O.fast /\ IsArrayIndex(a)
           THEN convert_fast_array(O) ELSE O
      G == GrowLength(C, a)
  IN IF G.r = "false" THEN G
     ELSE IF ~O.ext THEN Ret(G.x, "false")
     ELSE Ret(add_prop(G.x, NewProp(a, d)), "true")

CreateInArray(O, a, d) ==
  IF O.fast /\ IsTagged(a) /\ a = Len(O.elems) /\ ~O.ext THEN Ret(O, "false")
  ELSE IF O.fast /\ IsTagged(a) /\ a = Len(O.elems) /\ ~IsAccessorDesc(d) /\ PlainFlags(d, FALSE)
  THEN add_fast_array_element(O, Or(d.value, Undef))
  ELSE CreateOrdinary(O, a, d)

check_define_prop_flags(p, d) ==
  \/ p.c
  \/ /\ Or(d.configurable, FALSE) = FALSE
     /\ Or(d.enumerable, p.e) = p.e
     /\ (IsAccessorDesc(d) \/ IsDataDesc(d)) =>
          /\ IsAccessorDesc(d) <=> p.kind = "getset"
          /\ (p.kind # "getset" /\ ~p.w) => Or(d.writable, FALSE) = FALSE

SetCE(p, d) == [p EXCEPT !.c = Or(d.configurable, @), !.e = Or(d.enumerable, @)]

UpdateAccessor(O, i, d) ==
  LET p == O.props[i]
      q == IF p.kind = "getset" THEN p
           ELSE [p EXCEPT !.kind = "getset", !.w = FALSE, !.val = Undef]
  IN IF p.kind = "getset" /\ ~p.c
        /\ (Or(d.get, p.get) # p.get \/ Or(d.set, p.set) # p.set)
     THEN Ret(O, "false")
     ELSE Ret([O EXCEPT !.props[i] =
                 SetCE([q EXCEPT !.get = Or(d.get, @), !.set = Or(d.set, @)], d)], "true")

\* The length of an array: a read-only length is no longer marked as a length.
FreezeLength(S, d) ==
  IF d.writable # {FALSE} THEN S
  ELSE Ret([S.x EXCEPT !.props[1].w = FALSE, !.props[1].kind = "data"], S.r)
UpdateLength(O, d) ==
  FreezeLength(IF Has1(d.value) THEN set_array_length(O, Or(d.value, 0)) ELSE Ret(O, "true"), d)

\* A property that was not yet instantiated loses the value it would have had.
UpdateData(O, i, d) ==
  LET p == O.props[i]
      q == IF p.kind = "getset"
           THEN [p EXCEPT !.kind = "data", !.w = FALSE, !.get = Null, !.set = Null]
           ELSE IF p.kind = "autoinit" THEN [p EXCEPT !.kind = "data", !.val = Undef] ELSE p
      r == [q EXCEPT !.val = Or(d.value, @), !.w = Or(d.writable, @)]
  IN IF p.kind \in {"data", "length"} /\ ~p.c /\ ~p.w /\ Or(d.value, p.val) # p.val
     THEN Ret(O, "false")
     ELSE IF p.kind = "length" THEN UpdateLength(O, d)
     ELSE Ret([O EXCEPT !.props[i] = SetCE(r, d)], "true")

DefineExisting(O, i, d) ==
  IF ~check_define_prop_flags(O.props[i], d) THEN Ret(O, "false")
  ELSE IF IsAccessorDesc(d) THEN UpdateAccessor(O, i, d)
  ELSE IF IsDataDesc(d) THEN UpdateData(O, i, d)
  ELSE Ret([O EXCEPT !.props[i] = SetCE(@, d)], "true")

\* JS_DefineProperty with JS_PROP_NO_EXOTIC.
DefineDefault(O, a, d) ==
  LET i == find_own(O, a)
  IN IF i # 0 THEN DefineExisting(O, i, d) ELSE CreateOrdinary(O, a, d)

js_arguments_define_own_property(O, a, d) ==
  DefineDefault(IF O.fast /\ a \in 0..Len(O.elems) - 1
                THEN convert_fast_array(O) ELSE O, a, d)

\* The characters of a String object are read-only properties.
js_string_define_own_property(O, a, d) ==
  IF a \notin 0..Len(O.elems) - 1 THEN DefineDefault(O, a, d)
  ELSE Ret(O, IF /\ check_define_prop_flags(Prop(a, "data", FALSE, FALSE, TRUE, O.elems[a + 1]), d)
                 /\ Or(d.value, O.elems[a + 1]) = O.elems[a + 1]
              THEN "true" ELSE "false")

JS_CreateProperty(O, a, d) ==
  IF O.class = "array" THEN CreateInArray(O, a, d)
  ELSE IF O.class = "arguments" THEN js_arguments_define_own_property(O, a, d)
  ELSE IF O.class = "string" THEN js_string_define_own_property(O, a, d)
  ELSE CreateOrdinary(O, a, d)

JS_DefineProperty(O, a, d) ==
  LET i == find_own(O, a)
      C == convert_fast_array(O)
  IN IF i # 0 THEN DefineExisting(O, i, d)
     ELSE IF O.class = "array" /\ O.fast /\ a \in 0..Len(O.elems) - 1
     THEN IF ~PlainFlags(d, TRUE) \/ IsAccessorDesc(d)
          THEN DefineExisting(C, find_own(C, a), d)
          ELSE Ret([O EXCEPT !.elems[a + 1] = Or(d.value, @)], "true")
     ELSE JS_CreateProperty(O, a, d)

--------------------------------------------------------------------------------
(* Operations on the heap H, a function from objects to their records. *)

Chain(H, o) ==
  FoldLeft(LAMBDA s, k : IF H[Last(s)].proto = Null THEN s ELSE Append(s, H[Last(s)].proto),
           <<o>>, [k \in 1..Cardinality(ObjIds) |-> k])

\* Lazily made properties are instantiated by a walk that meets them.
InstantiateIn(H, walked, a) ==
  [q \in ObjIds |-> IF Contains(walked, q) THEN Instantiated(H[q], a) ELSE H[q]]

On(H, o, T) == [T EXCEPT !.x = [H EXCEPT ![o] = T.x]]
HasElement(O, a) == O.class # "object" /\ IsTagged(a) /\ a \in 0..Len(O.elems) - 1

\* An own property as a descriptor, {} when there is none.
JS_GetOwnPropertyInternal(O, a) ==
  LET P == Instantiated(O, a)
      i == find_own(P, a)
  IN IF i # 0 THEN {[P.props[i] EXCEPT !.kind = IF @ = "length" THEN "data" ELSE @]}
     ELSE IF HasElement(O, a)
     THEN {Prop(a, "data", O.class # "string", O.class # "string", TRUE, O.elems[a + 1])}
     ELSE {}

JS_HasProperty(H, o, a) ==
  \E k \in DOMAIN Chain(H, o) : JS_GetOwnPropertyInternal(H[Chain(H, o)[k]], a) # {}

\* The first object of the chain with the property gives the value or the getter.
JS_GetPropertyInternal(H, o, a) ==
  LET ch == Chain(H, o)
      k == SelectInSeq(ch, LAMBDA q : JS_GetOwnPropertyInternal(H[q], a) # {})
      p == Or(JS_GetOwnPropertyInternal(H[ch[k]], a), Hole)
      I == InstantiateIn(H, SubSeq(ch, 1, k), a)
  IN IF k = 0 THEN [x |-> H, r |-> "value", f |-> Undef]
     ELSE IF p.kind = "getset" /\ p.get # Null THEN Calls1(I, p.get)
     ELSE [x |-> I, r |-> "value", f |-> p.val]

SetOwn(H, o, i, v) ==
  LET p == H[o].props[i]
  IN CASE p.kind = "getset" -> Calls1(H, p.set)
       [] ~p.w -> Ret(H, "false")
       [] p.kind = "length" -> On(H, o, set_array_length(H[o], v))
       [] OTHER -> Ret([H EXCEPT ![o].props[i].val = v], "true")

SetElement(H, o, a, v) == Ret([H EXCEPT ![o].elems[a + 1] = v], "true")

\* No object of the chain forbids the assignment.
SetNew(H, o, a, v) ==
  LET O == H[o]
  IN IF ~O.ext THEN Ret(H, "false")
     ELSE IF O.class = "object" THEN Ret([H EXCEPT ![o] = add_prop(O, Data(a, v))], "true")
     ELSE IF O.class = "array" /\ O.fast /\ IsTagged(a) /\ a = Len(O.elems)
     THEN On(H, o, add_fast_array_element(O, v))
     ELSE On(H, o, JS_CreateProperty(O, a, Full(v)))

\* What one object of the chain, the first one or a prototype, says to an assignment.
\* A writable data property of a prototype does not end the walk.
SetStep(P, first, a) ==
  LET i == find_own(P, a)
  IN IF ~first /\ i # 0 /\ P.props[i].kind = "getset" THEN "setter"
     ELSE IF ~first /\ i # 0 /\ ~P.props[i].w THEN "readonly"
     ELSE IF P.class = "string" /\ HasElement(P, a) THEN "readonly"
     ELSE IF P.fast /\ HasElement(P, a) THEN IF first THEN "element" ELSE "add"
     ELSE "next"

JS_SetPropertyInternal(H, o, a, v) ==
  LET ch == Chain(H, o)
      own == find_own(H[o], a)
      k == SelectInSeq(ch, LAMBDA q : SetStep(H[q], q = o, a) # "next")
      what == IF k = 0 THEN "add" ELSE SetStep(H[ch[k]], k = 1, a)
      seen == IF own # 0 THEN 1 ELSE IF k = 0 THEN Len(ch) ELSE k
      I == InstantiateIn(H, SubSeq(ch, 1, seen), a)
  IN IF own # 0 THEN SetOwn(I, o, own, v)
     ELSE CASE what = "setter" -> SetOwn(I, ch[k], find_own(I[ch[k]], a), v)
            [] what = "readonly" -> Ret(I, "false")
            [] what = "element" -> SetElement(I, o, a, v)
            [] OTHER -> SetNew(I, o, a, v)

\* For Reflect.set: the receiver is any object.
JS_SetPropertyGeneric(H, o, a, v, this) ==
  LET ch == Chain(H, o)
      k == SelectInSeq(ch, LAMBDA q : JS_GetOwnPropertyInternal(H[q], a) # {})
      p == IF k = 0 THEN Data(a, v) ELSE Or(JS_GetOwnPropertyInternal(H[ch[k]], a), Hole)
      I == InstantiateIn(H, SubSeq(ch, 1, k), a)
      J == InstantiateIn(I, <<this>>, a)
      mine == JS_GetOwnPropertyInternal(H[this], a)
  IN CASE p.kind = "getset" -> Calls1(I, p.set)
       [] ~p.w -> Ret(I, "false")
       [] OTHER ->
          IF mine = {} THEN On(J, this, JS_CreateProperty(J[this], a, Full(v)))
          ELSE IF Or(mine, Hole).kind = "getset" \/ ~Or(mine, Hole).w THEN Ret(J, "false")
          ELSE On(J, this, JS_DefineProperty(J[this], a, OnlyValue(v)))

\* Mutant of NoIndexAbove: the prototypes are not looked at.
NoIndexAboveUnseen(H, o) == TRUE

\* No prototype can have an element: arrays are fast, and objects never had an index.
NoIndexAbove(H, o) ==
  \A k \in 2..Len(Chain(H, o)) :
    LET P == H[Chain(H, o)[k]] IN \/ P.class = "array" /\ P.fast
                                  \/ P.class = "object" /\ ~P.small

\* The fast path of an assignment to an integer index.
JS_SetPropertyValue(H, o, a, v) ==
  LET O == H[o]
  IN IF O.class \in {"array", "arguments"} /\ a \in 0..Len(O.elems) - 1
     THEN SetElement(H, o, a, v)
     ELSE IF O.class = "array" /\ IsTagged(a) /\ a = Len(O.elems) /\ O.fast /\ O.ext
             /\ NoIndexAbove(H, o)
     THEN On(H, o, add_fast_array_element(O, v))
     ELSE JS_SetPropertyInternal(H, o, a, v)

JS_SetPrototypeInternal1(H, o, p) ==
  IF H[o].proto = p THEN Ret(H, "true")
  ELSE IF ~H[o].ext \/ (p # Null /\ Contains(Chain(H, p), o)) THEN Ret(H, "false")
  ELSE Ret([H EXCEPT ![o].proto = p], "true")

JS_PreventExtensions(H, o) == Ret([H EXCEPT ![o].ext = FALSE], "true")

\* Indices first; they are sorted only when some came from the list of properties.
JS_GetOwnPropertyNames(O) ==
  LET held == SelectSeq([i \in DOMAIN O.props |-> O.props[i].atom], LAMBDA a : a # NoAtom)
      nums == SelectSeq(held, IsArrayIndex)
      all == nums \o [i \in DOMAIN O.elems |-> i - 1]
      sorted == nums = <<>> /\ O.class # "string"
  IN (IF sorted THEN all ELSE SortSeq(all, <)) \o SelectSeq(held, LAMBDA a : ~IsArrayIndex(a))

\* Object.seal and Object.freeze: every property is read and defined again.
js_object_seal(H, o, freeze) ==
  LET Desc(p) == [value |-> {}, get |-> {}, set |-> {}, enumerable |-> {}, configurable |-> {FALSE},
                  writable |-> IF freeze /\ p.kind # "getset" /\ p.w THEN {FALSE} ELSE {}]
      One(O, a) == LET p == Or(JS_GetOwnPropertyInternal(O, a), Hole)
                   IN JS_DefineProperty(IF freeze THEN Instantiated(O, a) ELSE O, a, Desc(p)).x
  IN Ret([H EXCEPT ![o] = FoldLeft(One, [@ EXCEPT !.ext = FALSE], JS_GetOwnPropertyNames(@))],
         "true")

--------------------------------------------------------------------------------
ObjInit == objs \in StartHeaps /\ calls = 0

Do(T) == objs' = T.x
SetProperty(o) == \E a \in Names, v \in NewValues : Do(JS_SetPropertyInternal(objs, o, a, v))
SetValue(o) == \E a \in Names \cap 0..MaxTagged, v \in NewValues :
                 Do(JS_SetPropertyValue(objs, o, a, v))
ReflectSet(o) == \E a \in Names, v \in NewValues, this \in ObjIds :
                   Do(JS_SetPropertyGeneric(objs, o, a, v, this))
Define(o) == \E a \in Names, d \in Descs : Do(On(objs, o, JS_DefineProperty(objs[o], a, d)))
Delete(o) == \E a \in Names : Do(On(objs, o, delete_own(objs[o], a)))
SetProto(o) == \E p \in ObjIds \cup {Null} : Do(JS_SetPrototypeInternal1(objs, o, p))
Prevent(o) == Do(JS_PreventExtensions(objs, o))
Seal(o) == \E freeze \in BOOLEAN : Do(js_object_seal(objs, o, freeze))

ObjNext ==
  /\ calls < MaxCalls /\ calls' = calls + 1
  /\ \E o \in ObjIds : \/ SetProperty(o) \/ SetValue(o) \/ ReflectSet(o) \/ Define(o)
                       \/ Delete(o) \/ SetProto(o) \/ Prevent(o) \/ Seal(o)
ObjSpec == ObjInit /\ [][ObjNext]_ovars
-----------------------------------------------------------------------------
(***************************************************************************)
(* The rules of ECMAScript for the essential internal methods, on objects  *)
(* that are a prototype, an extensible flag and a map from names to        *)
(* descriptors; and the property operations of Objects held against them.  *)
(***************************************************************************)

View(O) == [array |-> O.class = "array", ext |-> O.ext, proto |-> O.proto,
            p |-> [a \in Names |-> JS_GetOwnPropertyInternal(O, a)]]
Views(H) == [o \in DOMAIN H |-> View(H[o])]
Seen(T) == [T EXCEPT !.x = View(T.x)]
SeenOn(T, o) == [T EXCEPT !.x = View(T.x[o])]

FirstWith(A, o, a) ==
  LET Up[q \in ObjIds, n \in 0..Cardinality(ObjIds)] ==
        IF A[q].p[a] # {} THEN A[q].p[a]
        ELSE IF A[q].proto = Null \/ n = 0 THEN {} ELSE Up[A[q].proto, n - 1]
  IN Up[o, Cardinality(ObjIds)]

\* ValidateAndApplyPropertyDescriptor: the new property, or {} when it is rejected.
Applied(ext, a, d, cur) ==
  LET p == Or(cur, Hole)
      other == IF IsAccessorDesc(d) THEN p.kind = "data" ELSE p.kind = "getset"
      fixed == /\ Or(d.configurable, FALSE) = FALSE /\ Or(d.enumerable, p.e) = p.e
               /\ (IsAccessorDesc(d) \/ IsDataDesc(d)) => ~other
               /\ p.kind = "getset" => Or(d.get, p.get) = p.get /\ Or(d.set, p.set) = p.set
               /\ (p.kind = "data" /\ ~p.w)
                    => Or(d.writable, FALSE) = FALSE /\ Or(d.value, p.val) = p.val
      base == IF (~IsAccessorDesc(d) /\ ~IsDataDesc(d)) \/ ~other THEN p
              ELSE Prop(a, IF IsAccessorDesc(d) THEN "getset" ELSE "data", p.c, FALSE, p.e, Undef)
  IN IF cur = {} THEN IF ext THEN {NewProp(a, d)} ELSE {}
     ELSE IF ~p.c /\ ~fixed THEN {}
     ELSE {[base EXCEPT !.c = Or(d.configurable, @), !.e = Or(d.enumerable, @),
                        !.w = Or(d.writable, @), !.val = Or(d.value, @),
                        !.get = Or(d.get, @), !.set = Or(d.set, @)]}

Replaced(V, a, new) ==
  IF new = {} THEN Ret(V, "false") ELSE Ret([V EXCEPT !.p[a] = new], "true")
OrdinaryDefine(V, a, d) ==
  Replaced(V, a, Applied(V.ext, a, d, V.p[a]))

LengthOf(V) == Or(V.p[length], Hole)

\* ArraySetLength: elements go from the last one down, until one is not configurable.
Stuck(V, new) ==
  {a \in Names : IsArrayIndex(a) /\ a >= new /\ V.p[a] # {} /\ ~Or(V.p[a], Hole).c}
CutFrom(T, cut, r) ==
  IF T.r = "false" THEN T
  ELSE Ret([T.x EXCEPT !.p = [a \in Names |-> IF IsArrayIndex(a) /\ a >= cut THEN {} ELSE @[a]]], r)
Shorten(V, d, new, cut) ==
  CutFrom(OrdinaryDefine(V, length, [d EXCEPT !.value = {cut}]), cut,
          IF cut = new THEN "true" ELSE "false")
ArraySetLength(V, d) ==
  LET new == Or(d.value, 0)
  IN IF new = Undef THEN Ret(V, "throw")
     ELSE IF d.value = {} \/ new >= LengthOf(V).val THEN OrdinaryDefine(V, length, d)
     ELSE IF ~LengthOf(V).w THEN Ret(V, "false")
     ELSE Shorten(V, d, new, Max({new} \cup {a + 1 : a \in Stuck(V, new)}))

Grown(V, a, T) ==
  IF ~V.array \/ ~IsArrayIndex(a) \/ a < LengthOf(V).val THEN T
  ELSE IF ~LengthOf(V).w \/ T.r = "false" THEN Ret(V, "false")
  ELSE Ret([T.x EXCEPT !.p[length] = {[LengthOf(V) EXCEPT !.val = a + 1]}], "true")

DefineOwn(V, a, d) ==
  IF V.array /\ a = length THEN ArraySetLength(V, d) ELSE Grown(V, a, OrdinaryDefine(V, a, d))

\* Of an assignment: what becomes of the receiver.
OrdinarySet(A, o, a, v, this) ==
  LET p == Or(FirstWith(A, o, a), Data(a, v))
      V == A[this]
      mine == Or(V.p[a], Hole)
  IN IF p.kind = "getset" THEN Calls1(V, p.set)
     ELSE IF ~p.w THEN Ret(V, "false")
     ELSE IF V.p[a] # {} /\ (mine.kind = "getset" \/ ~mine.w) THEN Ret(V, "false")
     ELSE DefineOwn(V, a, IF V.p[a] = {} THEN Full(v) ELSE OnlyValue(v))

OrdinaryDelete(V, a) ==
  IF V.p[a] # {} /\ ~Or(V.p[a], Hole).c THEN Ret(V, "false")
  ELSE Ret([V EXCEPT !.p[a] = {}], "true")

--------------------------------------------------------------------------------
(* Where the code is known to differ. *)

\* The list of properties is compacted while set_array_length walks it.
CutUnderWalk(O, len) ==
  /\ O.class = "array" /\ ~O.fast /\ len # Undef
  /\ O.props[1].val - len > Len(O.props)
  /\ O.deleted + Cardinality({i \in DOMAIN O.props : O.props[i].atom >= len}) >= CompactLimit

\* A writable property of a prototype hides one further up that forbids the assignment:
\* a setter or a read-only property, which the walk goes on to.
HiddenSetter(H, o, a) ==
  LET ch == Chain(H, o)
      k == SelectInSeq(ch, LAMBDA q : JS_GetOwnPropertyInternal(H[q], a) # {})
  IN /\ k > 1 /\ SetStep(H[ch[k]], FALSE, a) = "next"
     /\ \E j \in k + 1..Len(ch) : \E p \in JS_GetOwnPropertyInternal(H[ch[j]], a) :
          p.kind = "getset" \/ ~p.w

\* The value of a property that was not instantiated is lost with its writable flag.
LosesValue(O, a, d) ==
  LET i == find_own(O, a)
  IN i # 0 /\ O.props[i].kind = "autoinit" /\ d.value = {} /\ IsDataDesc(d)

\* The element is refused after the length has grown.
GrowsInVain(O, a) ==
  O.class = "array" /\ ~O.ext /\ IsArrayIndex(a) /\ a >= O.props[1].val

\* A value that is no length is refused where a RangeError was due, if the length is
\* read-only: the flags are looked at first.
RefusesInvalidLength(O, a, d) == a = length /\ d.value = {Undef} /\ ~LengthOf(View(O)).w

--------------------------------------------------------------------------------
\* Type correctness, and the layout the code relies on: names are unique, the first
\* property of an array is its length, only a fast array or arguments object has
\* elements besides its list, and no name is both an element and in the list.
ObjTypeOK ==
  \A o \in DOMAIN objs : LET O == objs[o] IN
    /\ O.proto \in ObjIds \cup {Null} /\ calls \in 0..MaxCalls
    /\ \A i, j \in DOMAIN O.props : O.props[i].atom = O.props[j].atom => i = j \/ O.props[i] = Hole
    /\ O.class = "array" => O.props[1].atom = length /\ Len(O.elems) <= O.props[1].val
    /\ O.class # "string" /\ ~O.fast => O.elems = <<>>
    /\ \A i \in DOMAIN O.props : ~HasElement(O, O.props[i].atom)
    /\ O.deleted = Cardinality({i \in DOMAIN O.props : O.props[i] = Hole})

\* JS_DefineProperty, with the fast and the slow form of an array, accepts and refuses
\* what ECMAScript does and leaves the same properties; a call that fails changes
\* nothing.  The cases named above are left out.
DefineFollowsRules ==
  \A o \in DOMAIN objs : \A V \in {View(objs[o])} :
    \A a \in Names, d \in Descs :
      \/ LosesValue(objs[o], a, d) \/ GrowsInVain(objs[o], a)
      \/ RefusesInvalidLength(objs[o], a, d)
      \/ a = length /\ CutUnderWalk(objs[o], Or(d.value, 0))
      \/ Seen(JS_DefineProperty(objs[o], a, d)) = DefineOwn(V, a, d)

\* What an assignment did, seen from outside.
OnlyChanges(A, T, o, R) == SeenOn(T, o) = R /\ \A q \in DOMAIN A \ {o} : View(T.x[q]) = A[q]

\* An assignment (JS_SetPropertyInternal and the fast path of JS_SetPropertyValue for
\* array elements) walks the prototypes and ends as OrdinarySet says; it changes the
\* object and no prototype.
SetFollowsRules ==
  \A A \in {Views(objs)} :
  \A o \in DOMAIN objs, a \in Names, v \in NewValues :
    \/ HiddenSetter(objs, o, a) \/ (a = length /\ CutUnderWalk(objs[o], v))
    \/ \A R \in {OrdinarySet(A, o, a, v, o)} :
         /\ OnlyChanges(A, JS_SetPropertyInternal(objs, o, a, v), o, R)
         /\ IsTagged(a) => OnlyChanges(A, JS_SetPropertyValue(objs, o, a, v), o, R)

\* Reflect.set (JS_SetPropertyGeneric), for every receiver, ends as OrdinarySet says.
ReflectSetFollowsRules ==
  \A A \in {Views(objs)} :
  \A o, this \in DOMAIN objs, a \in Names, v \in NewValues :
    \/ GrowsInVain(objs[this], a) \/ (a = length /\ CutUnderWalk(objs[this], v))
    \/ SeenOn(JS_SetPropertyGeneric(objs, o, a, v, this), this) = OrdinarySet(A, o, a, v, this)

\* delete removes exactly the property it names, in every representation.
DeleteFollowsRules ==
  \A o \in DOMAIN objs, a \in Names :
    Seen(delete_own(objs[o], a)) = OrdinaryDelete(View(objs[o]), a)

\* A read finds what the nearest object of the prototype chain has.
GetFollowsRules ==
  \A A \in {Views(objs)} :
  \A o \in DOMAIN objs, a \in Names :
    LET p == Or(FirstWith(A, o, a), Hole)
        T == JS_GetPropertyInternal(objs, o, a)
    IN /\ <<T.r, T.f>> = IF p.kind = "getset" /\ p.get # Null THEN <<"call", p.get>> ELSE <<"value", p.val>>
       /\ Views(T.x) = A
       /\ JS_HasProperty(objs, o, a) <=> FirstWith(A, o, a) # {}

\* The keys of an object are its own names, each once: the array indices in ascending
\* order, also when the sort is left out, and then the other names.
KeysFollowRules ==
  \A o \in DOMAIN objs : LET keys == JS_GetOwnPropertyNames(objs[o]) IN
    /\ \A i, j \in DOMAIN keys : i < j =>
         IF IsArrayIndex(keys[j]) THEN keys[i] \in 0..keys[j] - 1 ELSE keys[i] # keys[j]
    /\ ToSet(keys) \cap Names = {a \in Names : View(objs[o]).p[a] # {}}

\* The prototype chain ends: JS_SetPrototypeInternal refuses a cycle.
ChainsEnd == \A o \in DOMAIN objs : objs[Last(Chain(objs, o))].proto = Null

\* What cannot change stays: a property that is not configurable keeps its kind and
\* flags, and its value when it is not writable; an object that is not extensible gets
\* no new property, keeps its prototype, and stays so.
FrozenStays ==
  [][\A o \in DOMAIN objs :
       /\ ~objs[o].ext =>
            /\ ~objs'[o].ext /\ objs'[o].proto = objs[o].proto
            /\ \A a \in Names : View(objs[o]).p[a] = {} => View(objs'[o]).p[a] = {}
       /\ \A a \in Names : \A p \in View(objs[o]).p[a] : ~p.c =>
            \E q \in View(objs'[o]).p[a] :
              /\ q.kind = p.kind /\ ~q.c /\ q.e = p.e /\ q.get = p.get /\ q.set = p.set
              /\ (q.w => p.w) /\ (p.kind = "data" /\ ~p.w => q.val = p.val)]_ovars
===============================================================================
