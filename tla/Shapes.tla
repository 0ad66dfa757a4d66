--------------------------------- MODULE Shapes ---------------------------------
(***************************************************************************)
(* The hidden classes of QuickJS.  A JSShape holds the prototype, names    *)
(* and flags of the properties of every object that points to it; objects  *)
(* hold the values.  Shapes reached by adding the same properties in the   *)
(* same order are found through the runtime's hash table and shared.  Any  *)
(* allocation may fail: "mem" is the number of those that will succeed.    *)
(* A state of the heap is a record H; the functions of the code are        *)
(* operators from H to H.                                                  *)
(***************************************************************************)
EXTENDS Integers, Sequences, FiniteSets, SequencesExt, FiniteSetsExt

CONSTANTS
  Objs, Atoms, Protos, \* objects; property names and prototypes, numbers above 0
  AtomNull,            \* JS_ATOM_NULL, and a NULL prototype: 0
  Flags,               \* property flags; odd ones are configurable
  HashWidth, HashMul,  \* width and multiplier of the shape hash (32, 0x9e370001)
  InitBits,            \* initial shape_hash_bits (4)
  InitSize, InitHash,  \* JS_PROP_INITIAL_SIZE, JS_PROP_INITIAL_HASH_SIZE
  CompactMin,          \* deleted properties before compaction (8)
  MaxShapes, MaxProps, MaxAllocs, MaxOps  \* bounds

VARIABLES heap, failed, ops
shvars == <<heap, failed, ops>>

ShapeIds == 1..MaxShapes
NoObj == [shape |-> 0, vals |-> <<>>, cap |-> 0]
NoShape == [ref |-> 0]
Configurable(flags) == flags % 2 = 1

\* Values tell the slots of every object and name apart.
Val(o, a) == <<o, a>>

shape_hash(h, val) == ((h + val) * HashMul) % 2^HashWidth
get_shape_hash(h, bits) == h \div 2^(HashWidth - bits)
shape_initial_hash(proto) == shape_hash(shape_hash(1, proto), 0)

Bucket(H, sh) == get_shape_hash(H.sh[sh].hash, H.bits)

init_shape_hash ==
  [sh |-> [s \in ShapeIds |-> NoShape], bits |-> InitBits, count |-> 0,
   tab |-> [b \in 0..2^InitBits - 1 |-> <<>>],
   obj |-> [o \in Objs |-> NoObj], mem |-> 0, ok |-> TRUE, assert |-> TRUE]

Alloc(H) == [H EXCEPT !.mem = IF @ > 0 THEN @ - 1 ELSE 0, !.ok = H.mem > 0]
Assert1(H, cond) == [H EXCEPT !.assert = @ /\ cond]

\* Buckets are walked from the first; every shape moves to the head of its new list.
resize_shape_hash(H, bits) ==
  LET A == Alloc(H)
      order == FoldLeft(LAMBDA q, b : q \o H.tab[b], <<>>, [b \in 1..2^H.bits |-> b - 1])
      In(b) == SelectSeq(order, LAMBDA s : get_shape_hash(H.sh[s].hash, bits) = b)
  IN IF ~A.ok THEN A
     ELSE [A EXCEPT !.bits = bits, !.tab = [b \in 0..2^bits - 1 |-> Reverse(In(b))]]

js_shape_hash_link(H, s) ==
  [H EXCEPT !.tab[Bucket(H, s)] = <<s>> \o @, !.count = @ + 1]

\* The walk of the code ends only at the shape: it must be there.
js_shape_hash_unlink(H, s) ==
  LET A == Assert1(H, Contains(H.tab[Bucket(H, s)], s))
  IN [A EXCEPT !.tab[Bucket(H, s)] = RemoveFirst(@, s), !.count = @ - 1]

FreeId(H) == Min({s \in ShapeIds : H.sh[s].ref = 0})

js_new_shape(H, proto) ==
  LET R == IF 2 * (H.count + 1) > 2^H.bits THEN resize_shape_hash(H, H.bits + 1) ELSE H
      A == Alloc(R)
      s == FreeId(H)
      new == [ref |-> 1, proto |-> proto, hashed |-> TRUE, hash |-> shape_initial_hash(proto),
              props |-> <<>>, size |-> InitSize, deleted |-> 0,
              chain |-> [h \in 0..InitHash - 1 |-> <<>>]]
  IN IF ~A.ok THEN <<A, 0>> ELSE <<js_shape_hash_link([A EXCEPT !.sh[s] = new], s), s>>

js_clone_shape(H, s) ==
  LET A == Alloc(H)
      t == FreeId(H)
  IN IF ~A.ok THEN <<A, 0>>
     ELSE <<[A EXCEPT !.sh[t] = [H.sh[s] EXCEPT !.ref = 1, !.hashed = FALSE]], t>>

js_dup_shape(H, s) == [H EXCEPT !.sh[s].ref = @ + 1]

\* Mutant of js_free_shape: a freed shape stays in the table.
js_free_shapeLinked(H, s) ==
  IF H.sh[s].ref > 1 THEN [H EXCEPT !.sh[s].ref = @ - 1] ELSE [H EXCEPT !.sh[s] = NoShape]

js_free_shape(H, s) ==
  IF H.sh[s].ref > 1 THEN [H EXCEPT !.sh[s].ref = @ - 1]
  ELSE LET U == IF H.sh[s].hashed THEN js_shape_hash_unlink(H, s) ELSE H
       IN [U EXCEPT !.sh[s] = NoShape]

\* The lists of a table of hsize entries, later properties first.
Chains(props, hsize) ==
  [h \in 0..hsize - 1 |->
     Reverse(SetToSortSeq({i \in DOMAIN props : props[i].atom # AtomNull
                                                /\ props[i].atom % hsize = h}, <))]

HashSize(H, s) == Cardinality(DOMAIN H.sh[s].chain)

resize_properties(H, o, s, count) ==
  LET new == Max({count, (H.sh[s].size * 3) \div 2})
      pow == CHOOSE h \in {HashSize(H, s) * 2^k : k \in 0..4} :
               h >= new /\ (h = HashSize(H, s) \/ h \div 2 < new)
      A == Alloc(H)
      B == Alloc([A EXCEPT !.obj[o].cap = new])
  IN IF ~A.ok THEN A
     ELSE IF ~B.ok THEN B
     ELSE [B EXCEPT !.sh[s].size = new,
                    !.sh[s].chain = IF pow # HashSize(H, s)
                                    THEN Chains(H.sh[s].props, pow) ELSE @]

compact_properties(H, o) ==
  LET s == H.obj[o].shape
      sh == H.sh[s]
      live == SelectSeq([i \in DOMAIN sh.props |-> i], LAMBDA i : sh.props[i].atom # AtomNull)
      new == Max({InitSize, Len(sh.props) - sh.deleted})
      sizes == {h \in {HashSize(H, s) \div 2^k : k \in 0..4} : h >= new} \cup {HashSize(H, s)}
      props == [j \in DOMAIN live |-> sh.props[live[j]]]
      A == Alloc(Assert1(H, ~sh.hashed /\ new <= sh.size))
      B == Alloc(Assert1(A, Len(live) = Len(sh.props) - sh.deleted))
      C == [B EXCEPT !.sh[s].props = props, !.sh[s].size = new, !.sh[s].deleted = 0,
                     !.sh[s].chain = Chains(props, Min(sizes)),
                     !.obj[o].vals = [j \in DOMAIN live |-> @[live[j]]]]
  IN IF ~A.ok THEN A
     ELSE IF B.ok THEN [C EXCEPT !.obj[o].cap = new] ELSE C

add_shape_property(H, o, atom, flags) ==
  LET s == H.obj[o].shape
      sh == H.sh[s]
      U == IF sh.hashed THEN js_shape_hash_unlink(H, s) ELSE H
      R == IF Len(sh.props) >= sh.size THEN resize_properties(U, o, s, Len(sh.props) + 1)
           ELSE [U EXCEPT !.ok = TRUE]
      hash == shape_hash(shape_hash(sh.hash, atom), flags)
      L == IF sh.hashed THEN js_shape_hash_link([R EXCEPT !.sh[s].hash = hash], s) ELSE R
      b == atom % HashSize(L, s)
  IN IF R.ok
     THEN [L EXCEPT !.sh[s].props = Append(@, [atom |-> atom, flags |-> flags]),
                    !.sh[s].chain[b] = <<Len(sh.props) + 1>> \o @]
     ELSE IF sh.hashed THEN js_shape_hash_link(R, s) ELSE R

FirstIn(H, b, Match(_)) ==
  LET q == SelectSeq(H.tab[b], Match) IN IF q = <<>> THEN 0 ELSE q[1]

find_hashed_shape_proto(H, proto) ==
  LET h == shape_initial_hash(proto)
      Match(s) == H.sh[s].hash = h /\ H.sh[s].proto = proto /\ H.sh[s].props = <<>>
  IN FirstIn(H, get_shape_hash(h, H.bits), Match)

find_hashed_shape_prop(H, s0, atom, flags) ==
  LET h == shape_hash(shape_hash(H.sh[s0].hash, atom), flags)
      Match(s) == /\ H.sh[s].hash = h /\ H.sh[s].proto = H.sh[s0].proto
                  /\ H.sh[s].props = Append(H.sh[s0].props, [atom |-> atom, flags |-> flags])
  IN FirstIn(H, get_shape_hash(h, H.bits), Match)

\* Two allocations: the object and its array of values.
JS_NewObjectProtoClass(H, o, proto) ==
  LET found == find_hashed_shape_proto(H, proto)
      N == IF found # 0 THEN <<[js_dup_shape(H, found) EXCEPT !.ok = TRUE], found>>
           ELSE js_new_shape(H, proto)
      A == Alloc(N[1])
      B == Alloc(A)
  IN IF ~N[1].ok THEN N[1]
     ELSE IF ~A.ok \/ ~B.ok THEN [js_free_shape(B, N[2]) EXCEPT !.ok = FALSE]
     ELSE [B EXCEPT !.obj[o] = [shape |-> N[2], vals |-> <<>>, cap |-> B.sh[N[2]].size]]

\* The caller stores the value in the slot that add_property returns.
Store(H, o, v) == [H EXCEPT !.obj[o].vals = Append(@, v)]
StoreIfOk(H, o, v) == IF H.ok THEN Store(H, o, v) ELSE H

\* A shape of the table that already has the property is shared.
ShareShape(H, o, new, v) ==
  LET s == H.obj[o].shape
      A == IF H.sh[new].size # H.sh[s].size THEN Alloc(H) ELSE [H EXCEPT !.ok = TRUE]
      B == [js_dup_shape(A, new) EXCEPT
              !.obj[o].shape = new,
              !.obj[o].cap = IF H.sh[new].size # H.sh[s].size THEN H.sh[new].size ELSE @]
  IN IF ~A.ok THEN A ELSE Store(js_free_shape(B, s), o, v)

\* A shape of the table that other objects use is cloned, and the clone is hashed.
UnshareShape(H, o) ==
  LET C == js_clone_shape(H, H.obj[o].shape)
      D == js_shape_hash_link([C[1] EXCEPT !.sh[C[2]].hashed = TRUE], C[2])
  IN IF ~C[1].ok THEN C[1]
     ELSE [js_free_shape(D, H.obj[o].shape) EXCEPT !.obj[o].shape = C[2]]

AddOwn(U, o, atom, flags, v) ==
  IF ~U.ok THEN U
  ELSE StoreIfOk(add_shape_property(Assert1(U, U.sh[U.obj[o].shape].ref = 1), o, atom, flags), o, v)

add_property(H, o, atom, flags, v) ==
  LET s == H.obj[o].shape
      new == IF H.sh[s].hashed THEN find_hashed_shape_prop(H, s, atom, flags) ELSE 0
      U == IF H.sh[s].hashed /\ H.sh[s].ref # 1 THEN UnshareShape(H, o)
           ELSE [H EXCEPT !.ok = TRUE]
  IN IF new # 0 THEN ShareShape(H, o, new, v) ELSE AddOwn(U, o, atom, flags, v)

\* Mutant of js_shape_prepare_update: a shape that other objects use is not cloned.
js_shape_prepare_updateShared(H, o) ==
  LET s == H.obj[o].shape
  IN IF ~H.sh[s].hashed THEN [H EXCEPT !.ok = TRUE]
     ELSE [js_shape_hash_unlink(H, s) EXCEPT !.sh[s].hashed = FALSE, !.ok = TRUE]

js_shape_prepare_update(H, o) ==
  LET s == H.obj[o].shape
      C == js_clone_shape(H, s)
  IN IF ~H.sh[s].hashed THEN [H EXCEPT !.ok = TRUE]
     ELSE IF H.sh[s].ref = 1
     THEN [js_shape_hash_unlink(H, s) EXCEPT !.sh[s].hashed = FALSE, !.ok = TRUE]
     ELSE IF ~C[1].ok THEN C[1]
     ELSE [js_free_shape(C[1], s) EXCEPT !.obj[o].shape = C[2]]

\* The index of a property, 0 when the list of its hash has no such name.
find_own_property(H, o, atom) ==
  LET sh == H.sh[H.obj[o].shape]
      q == SelectSeq(sh.chain[atom % Cardinality(DOMAIN sh.chain)],
                     LAMBDA i : sh.props[i].atom = atom)
  IN IF q = <<>> THEN 0 ELSE q[1]

TooManyDeleted(sh) == sh.deleted >= CompactMin /\ sh.deleted >= Len(sh.props) \div 2

CompactIfSparse1(H, o) ==
  IF TooManyDeleted(H.sh[H.obj[o].shape]) THEN compact_properties(H, o) ELSE H

DeleteAt(P, o, s, atom, i) ==
  IF ~P.ok THEN P
  ELSE CompactIfSparse1([P EXCEPT !.sh[s].chain[atom % HashSize(P, s)] = RemoveFirst(@, i),
                                  !.sh[s].deleted = @ + 1,
                                  !.sh[s].props[i] = [atom |-> AtomNull, flags |-> 0],
                                  !.obj[o].vals[i] = <<>>], o)

delete_property(H, o, atom) ==
  LET i == find_own_property(H, o, atom)
      P == js_shape_prepare_update(H, o)
  IN IF ~Configurable(H.sh[H.obj[o].shape].props[i].flags) THEN H
     ELSE DeleteAt(P, o, P.obj[o].shape, atom, i)

js_update_property_flags(H, o, atom, flags) ==
  LET i == find_own_property(H, o, atom)
      P == js_shape_prepare_update(H, o)
  IN IF H.sh[H.obj[o].shape].props[i].flags = flags THEN H
     ELSE IF ~P.ok THEN P
     ELSE [P EXCEPT !.sh[P.obj[o].shape].props[i].flags = flags]

\* The prototype is stored in the shape, which is no longer in the table.
JS_SetPrototypeInternal(H, o, proto) ==
  LET P == js_shape_prepare_update(H, o)
  IN IF H.sh[H.obj[o].shape].proto = proto THEN H
     ELSE IF ~P.ok THEN P ELSE [P EXCEPT !.sh[P.obj[o].shape].proto = proto]

\* Room for the elements is made first, so that adding them cannot fail.
AddElements(R, o, elems) ==
  IF ~R.ok THEN R
  ELSE FoldLeft(LAMBDA G, a : Assert1(add_property(G, o, a, 1, Val(o, a)), G.ok), R, elems)
convert_fast_array_to_array(H, o, elems) ==
  LET P == js_shape_prepare_update(H, o)
      s == P.obj[o].shape
      count == Len(P.sh[s].props) + Len(elems)
  IN IF ~P.ok THEN P
     ELSE AddElements(IF count > P.sh[s].size THEN resize_properties(P, o, s, count) ELSE P,
                      o, elems)

free_object(H, o) == [js_free_shape(H, H.obj[o].shape) EXCEPT !.obj[o] = NoObj]

--------------------------------------------------------------------------------
Live(o) == heap.obj[o].shape # 0
PropsOf(H, o) == H.sh[H.obj[o].shape].props
Has(o, a) == find_own_property(heap, o, a) # 0

\* "ok" and "mem" belong to one call.
Call(T) == heap' = [T EXCEPT !.mem = 0, !.ok = TRUE] /\ failed' = ~T.assert

ShInit == heap = init_shape_hash /\ failed = FALSE /\ ops = 0

NewObject(H, o) ==
  /\ ~Live(o)
  /\ \E p \in Protos : Call(JS_NewObjectProtoClass(H, o, p))
AddProperty(H, o) ==
  /\ Live(o) /\ Len(PropsOf(H, o)) < MaxProps
  /\ \E a \in Atoms, f \in Flags : ~Has(o, a) /\ Call(add_property(H, o, a, f, Val(o, a)))
DeleteProperty(H, o) == Live(o) /\ \E a \in Atoms : Has(o, a) /\ Call(delete_property(H, o, a))
UpdateFlags(H, o) ==
  Live(o) /\ \E a \in Atoms, f \in Flags : Has(o, a) /\ Call(js_update_property_flags(H, o, a, f))
SetPrototype(H, o) == Live(o) /\ \E p \in Protos : Call(JS_SetPrototypeInternal(H, o, p))
ConvertArray(H, o) ==
  /\ Live(o) /\ PropsOf(H, o) = <<>>
  /\ Call(convert_fast_array_to_array(H, o, SetToSortSeq(Atoms, <)))
FreeObject(H, o) == Live(o) /\ Call(free_object(H, o))

ShNext ==
  /\ ~failed /\ ops < MaxOps /\ ops' = ops + 1
  /\ \E o \in Objs, mem \in 0..MaxAllocs : \E H \in {[heap EXCEPT !.mem = mem]} :
       \/ NewObject(H, o) \/ AddProperty(H, o) \/ DeleteProperty(H, o) \/ UpdateFlags(H, o)
       \/ SetPrototype(H, o) \/ ConvertArray(H, o) \/ FreeObject(H, o)

ShSpec == ShInit /\ [][ShNext]_shvars

--------------------------------------------------------------------------------
Used == {s \in ShapeIds : heap.sh[s].ref > 0}
Users(s) == {o \in Objs : heap.obj[o].shape = s}
Sum(s) == FoldLeft(LAMBDA h, p : shape_hash(shape_hash(h, p.atom), p.flags),
                   shape_initial_hash(heap.sh[s].proto), heap.sh[s].props)

\* Type correctness, and the layout of a shape: the values of an object fill the slots
\* of its shape within the array that was allocated, and the lists of the shape's hash
\* hold each property that is not deleted once, under its name.
ShTypeOK ==
  /\ failed \in BOOLEAN /\ ops \in 0..MaxOps
  /\ \A o \in Objs : Live(o) =>
       LET sh == heap.sh[heap.obj[o].shape] IN
       /\ Len(heap.obj[o].vals) = Len(sh.props)
       /\ Len(sh.props) <= sh.size /\ sh.size <= heap.obj[o].cap
       /\ sh.deleted = Cardinality({i \in DOMAIN sh.props : sh.props[i].atom = AtomNull})
       /\ \A a \in Atoms : \A i \in DOMAIN sh.props :
            sh.props[i].atom = a <=> find_own_property(heap, o, a) = i

\* The reference count of a shape is the number of objects that point to it, so a shape
\* lives exactly as long as one of them (js_dup_shape, js_free_shape), also when an
\* allocation fails half way.
ShapeRefsExact == \A s \in ShapeIds : heap.sh[s].ref = Cardinality(Users(s))

\* The hash table of the runtime holds each hashed shape once and no other one, in the
\* list of its hash, and the hash is the one of the prototype and the properties the
\* shape has now.  A shape that is looked up is therefore the one that is wanted, and
\* a shape outside the table has one user, who may change it in place.
ShapeTableExact ==
  /\ heap.count = Cardinality({s \in Used : heap.sh[s].hashed})
  /\ \A s \in Used :
       /\ heap.sh[s].hashed => heap.sh[s].hash = Sum(s)
       /\ ~heap.sh[s].hashed => heap.sh[s].ref = 1
       /\ \A b \in DOMAIN heap.tab :
            Cardinality({i \in DOMAIN heap.tab[b] : heap.tab[b][i] = s})
              = IF heap.sh[s].hashed /\ b = Bucket(heap, s) THEN 1 ELSE 0
  /\ \A b \in DOMAIN heap.tab : ToSet(heap.tab[b]) \subseteq Used

\* The assertions of add_property and compact_properties hold, a shape that is unlinked
\* is in the list of its hash, and no addition after the reservation of
\* convert_fast_array_to_array fails.
ShapeAssertsHold == ~failed

\* Objects that share shapes behave like objects that have properties of their own: an
\* operation changes the object it is called on, by one property, and no other one.
OwnProps(o) ==
  LET sh == heap.sh[heap.obj[o].shape]
      live == SelectSeq([i \in DOMAIN sh.props |-> i], LAMBDA i : sh.props[i].atom # AtomNull)
  IN [j \in DOMAIN live |-> [atom |-> sh.props[live[j]].atom, flags |-> sh.props[live[j]].flags,
                             val |-> heap.obj[o].vals[live[j]]]]
Abstract == INSTANCE PropertyStore WITH
  store <- [o \in Objs |-> IF Live(o)
                           THEN [proto |-> heap.sh[heap.obj[o].shape].proto,
                                 props |-> OwnProps(o), live |-> TRUE]
                           ELSE [proto |-> AtomNull, props |-> <<>>, live |-> FALSE]]
ImplementsStore == Abstract!StoreSpec

\* Hidden classes are exact: counts, hash table and the assertions of the code.
ShapesExact == ShapeRefsExact /\ ShapeTableExact /\ ShapeAssertsHold
================================================================================
