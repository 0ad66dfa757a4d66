----------------------------- MODULE Collections -----------------------------
(***************************************************************************)
(* Map, WeakMap and their iterators in quickjs.c: the records, the list    *)
(* that keeps them in order, the hash table that finds them, the chain of  *)
(* weak references of every object, and the records that are kept as       *)
(* zombies while an iterator or forEach stands on them.                    *)
(*                                                                         *)
(* One Map and one WeakMap stand for all: a Set is a Map whose values are  *)
(* undefined.  Scripts are a nondeterministic actor which may do anything  *)
(* to the collections between two calls of next() and inside a callback    *)
(* of forEach.  Reference counts of objects are replaced by the set of     *)
(* references that exist: an object is freed by the operation that takes   *)
(* its last reference away, and its finalizer runs at once.                *)
(***************************************************************************)
EXTENDS Naturals, Sequences, FiniteSets, SequencesExt, Bitwise

CONSTANTS
  NumberKeys,    \* the numbers used as keys: [tag, num]
  KeyObjects,    \* the plain objects, used as keys and as values
  Iterators,  \* the iterators that scripts create over the Map
  Storable,     \* the objects and iterators that scripts store as values
  PlainValue,      \* a value that is not an object
  JSUndefined,  \* JS_UNDEFINED
  Map, Weak,  \* the two collections
  HashOf,     \* map_hash_key of every key
  FirstThreshold, \* how many records make the table grow first (4)
  Slacks,     \* by how many buckets the allocator may round an array up
  ScriptKeys, \* the keys that scripts pass
  FirstKeys,  \* the keys of the array that the Map is constructed from
  MaxRecords, \* scripts add no more records than this
  MaxFrames   \* depth of nested calls of forEach

Maps == {Map, Weak}
Keys == NumberKeys \cup KeyObjects
Refs == KeyObjects \cup Iterators  \* the values that are objects
Values == {PlainValue} \cup Refs

VARIABLES
  rec,     \* every JSMapRecord ever allocated, in order of creation
  state,   \* JSMapState of the two collections
  weakref, \* first_weak_ref of every object: the chain of records
  it,      \* JSMapIteratorData
  eachFrames,  \* the calls of js_map_forEach in progress
  alive,   \* objects that have not been freed
  held,    \* what script code has a reference to
  failed   \* what went wrong in the engine; nothing is modelled after that

mapVars == <<rec, state, weakref, it, eachFrames, alive, held, failed>>

\* 'freed' is true after js_free_rt of the record.
Record == [map : Maps, key : Keys \cup {JSUndefined}, value : Values \cup {JSUndefined},
           ref_count : Nat, empty : BOOLEAN, freed : BOOLEAN]

JSMapState ==
  {s \in [records : Seq(1..MaxRecords), record_count : Nat,
          hash_table : Seq(Seq(1..MaxRecords)), threshold : Nat] :
     Len(s.hash_table) > 0}

NewState == [records |-> <<>>, record_count |-> 0, hash_table |-> <<<<>>>>,
             threshold |-> FirstThreshold]
NoRecord == 0
IterData == [obj : {"new", Map, JSUndefined}, cur_record : 0..MaxRecords]
ForEachFrame == [mr : 1..MaxRecords, key : Keys, value : Values]

TypeOK ==
  /\ rec \in Seq(Record) /\ Len(rec) <= MaxRecords
  /\ \A m \in Maps : state[m] \in JSMapState
  /\ weakref \in [KeyObjects -> Seq(1..MaxRecords)]
  /\ it \in [Iterators -> IterData]
  /\ eachFrames \in Seq(ForEachFrame) /\ Len(eachFrames) <= MaxFrames
  /\ alive \subseteq Refs \cup Maps
  /\ held \subseteq alive
  /\ failed \subseteq {"assert", "freed", "clear"}

MapsNow == [rec |-> rec, state |-> state, weakref |-> weakref, it |-> it,
        frames |-> eachFrames, alive |-> alive, held |-> held, failed |-> failed]

Become(S) ==
  \E T \in {S} :
    /\ rec' = T.rec /\ state' = T.state /\ weakref' = T.weakref /\ it' = T.it
    /\ eachFrames' = T.frames /\ alive' = T.alive /\ held' = T.held /\ failed' = T.failed

-----------------------------------------------------------------------------
(* Keys and the hash table.                                                *)

\* -0.0 and a +0.0 held as a float become the integer 0.
map_normalize_key(k) ==
  IF k \in NumberKeys /\ k.tag = "float64" /\ k.num = 0
  THEN [tag |-> "int", num |-> 0] ELSE k

js_same_value_zero(a, b) ==
  IF a \in NumberKeys /\ b \in NumberKeys THEN a.num = b.num ELSE a = b

\* The tag takes part: an integer and a float64 of the same value differ.
map_hash_key(k) == HashOf[k]

\* The mask is the size less one, also when the size is no power of two.
Bucket(table, k) == 1 + (map_hash_key(k) & (Len(table) - 1))

map_find_record(S, m, k) ==
  LET chain == S.state[m].hash_table[Bucket(S.state[m].hash_table, k)]
      hits == {i \in 1..Len(chain) : js_same_value_zero(S.rec[chain[i]].key, k)}
  IN  IF hits = {} THEN NoRecord ELSE chain[CHOOSE i \in hits : \A j \in hits : i <= j]

InBucket(S, table, r) ==
  [table EXCEPT ![Bucket(table, S.rec[r].key)] = Append(@, r)]

\* Mutant of map_hash_resize: the records stay in the buckets they were in.
map_hash_resizeInPlace(S, m, slack) ==
  LET s == S.state[m]
      size == (IF Len(s.hash_table) = 1 THEN 4 ELSE 2 * Len(s.hash_table)) + slack
  IN  [S EXCEPT !.state[m].hash_table =
                   [b \in 1..size |-> IF b <= Len(@) THEN @[b] ELSE <<>>],
                !.state[m].threshold = 2 * size]

\* The records that are not zombies enter the new table in the order of the
\* list.  'slack' is what js_realloc2 found the allocator to have added.
map_hash_resize(S, m, slack) ==
  LET s == S.state[m]
      size == (IF Len(s.hash_table) = 1 THEN 4 ELSE 2 * Len(s.hash_table)) + slack
      new == FoldLeft(LAMBDA t, r : IF S.rec[r].empty THEN t ELSE InBucket(S, t, r),
                      [b \in 1..size |-> <<>>], s.records)
  IN  [S EXCEPT !.state[m].hash_table = new, !.state[m].threshold = 2 * size]

\* js_map_set stores the value in the record that this returns.
map_add_record(S, m, k, v, slack) ==
  LET r == Len(S.rec) + 1
      S1 == [S EXCEPT !.rec = Append(@, [map |-> m, key |-> k, value |-> v,
                                         ref_count |-> 1, empty |-> FALSE,
                                         freed |-> FALSE]),
                      !.weakref = IF m = Weak THEN [@ EXCEPT ![k] = <<r>> \o @] ELSE @,
                      !.state[m].records = Append(@, r),
                      !.state[m].record_count = @ + 1]
      S2 == [S1 EXCEPT !.state[m].hash_table = InBucket(S1, @, r)]
  IN  IF S2.state[m].record_count >= S2.state[m].threshold
      THEN map_hash_resize(S2, m, slack) ELSE S2

Unlink(S, r) ==  \* list_del of the link in the list of records
  [S EXCEPT !.state[S.rec[r].map].records = SelectSeq(@, LAMBDA x : x # r)]

Unhash(S, r) ==  \* list_del of the link in the hash table
  [S EXCEPT !.state[S.rec[r].map].hash_table =
               [b \in DOMAIN @ |-> SelectSeq(@[b], LAMBDA x : x # r)]]

FailIf(S, bad, what) == [S EXCEPT !.failed = IF bad THEN @ \cup {what} ELSE @]

FreeRecord(S, r) ==  \* js_free_rt
  [FailIf(S, S.rec[r].freed, "freed")
     EXCEPT !.rec[r] = [@ EXCEPT !.freed = TRUE, !.empty = TRUE, !.ref_count = 0,
                                 !.key = JSUndefined, !.value = JSUndefined]]

delete_weak_ref(S, r) ==
  [FailIf(S, ~Contains(S.weakref[S.rec[r].key], r), "assert")
     EXCEPT !.weakref[S.rec[r].key] = SelectSeq(@, LAMBDA x : x # r)]

map_decref_record(S, r) ==
  LET S1 == [FailIf(S, S.rec[r].freed, "freed") EXCEPT !.rec[r].ref_count = @ - 1]
  IN  IF S1.rec[r].ref_count = 0
      THEN FreeRecord(Unlink(FailIf(S1, ~S1.rec[r].empty, "assert"), r), r)
      ELSE S1

-----------------------------------------------------------------------------
(* Freeing objects.                                                        *)

Allocated(S) == {r \in 1..Len(S.rec) : ~S.rec[r].freed}

Referenced(S, x) ==
  \/ x \in S.held
  \/ \E r \in Allocated(S) : \/ S.rec[r].value = x
                             \/ S.rec[r].map = Map /\ S.rec[r].key = x
  \/ \E f \in 1..Len(S.frames) : x \in {S.frames[f].key, S.frames[f].value, Map}
  \/ x = Map /\ \E i \in Iterators \cap S.alive : S.it[i].obj = Map

\* What the finalizer of x, or reset_weak_ref for it, releases.
Children(S, x) ==
  IF x \in Maps
  THEN {S.rec[r].value : r \in {r \in Allocated(S) : S.rec[r].map = x}}
       \cup {S.rec[r].key : r \in {r \in Allocated(S) : S.rec[r].map = x /\ x = Map}}
  ELSE IF x \in Iterators THEN {S.it[x].obj}
  ELSE {S.rec[r].value : r \in Range(S.weakref[x])}

\* The object's entries leave their weak collection.  Note that record_count is
\* not adjusted.
reset_weak_ref(S, x) ==
  LET drop(T, r) == FreeRecord(Unlink(Unhash(FailIf(T, T.rec[r].empty, "assert"), r), r), r)
  IN  [FoldLeft(drop, S, S.weakref[x]) EXCEPT !.weakref[x] = <<>>]

js_map_iterator_finalizer(S, i) ==
  IF S.it[i].obj \in S.alive /\ S.it[i].cur_record # NoRecord
  THEN map_decref_record(S, S.it[i].cur_record) ELSE S

js_map_finalizer(S, m) ==
  LET drop(T, r) ==
        FreeRecord(IF m = Weak /\ ~T.rec[r].empty THEN delete_weak_ref(T, r) ELSE T, r)
  IN  [FoldLeft(drop, S, S.state[m].records) EXCEPT !.state[m] = NewState]

free_object(S, x) ==
  LET S1 == [S EXCEPT !.alive = @ \ {x}]
  IN  IF x \in Maps THEN js_map_finalizer(S1, x)
      ELSE IF x \in Iterators THEN js_map_iterator_finalizer(S1, x)
      ELSE reset_weak_ref(S1, x)

\* JS_FreeValue of the values in D, and of what that frees in turn.
RECURSIVE Release(_, _)
Release(S, D) ==
  LET dead == {x \in D \cap S.alive : ~Referenced(S, x)}
  IN  IF dead = {} THEN S
      ELSE LET x == CHOOSE x \in dead : TRUE
           IN  Release(free_object(S, x), (D \ {x}) \cup Children(S, x))

-----------------------------------------------------------------------------
(* The operations.                                                         *)

map_delete_record(S, r) ==
  LET mr == S.rec[r]
      S1 == Unhash(IF mr.map = Weak THEN delete_weak_ref(S, r) ELSE S, r)
      S2 == Release([S1 EXCEPT !.rec[r].key = JSUndefined, !.rec[r].value = JSUndefined],
                    {mr.key, mr.value})
      S3 == [FailIf(S2, S2.rec[r].freed, "freed")
               EXCEPT !.rec[r].ref_count = @ - 1, !.state[mr.map].record_count = @ - 1]
  IN  IF mr.empty THEN S
      ELSE IF S3.rec[r].ref_count = 0 THEN FreeRecord(Unlink(S3, r), r)
      ELSE [S3 EXCEPT !.rec[r].empty = TRUE]

Passable == {PlainValue} \cup (held \cap Storable)  \* what a script passes as a value

\* An entry that has the value already stays as it is.
js_map_set(m, key, v, slack) ==
  /\ m \in held
  /\ slack > 0 => state[m].record_count + 1 >= state[m].threshold
  /\ \E k \in {map_normalize_key(key)} :
       /\ k \in NumberKeys \cup held
       /\ m = Weak => k \in KeyObjects
       /\ \E r \in {map_find_record(MapsNow, m, k)} :
            \/ /\ r # NoRecord /\ rec[r].value # v
               /\ slack = 0
               /\ \E S1 \in {Release([MapsNow EXCEPT !.rec[r].value = JSUndefined],
                                   {rec[r].value})} :
                    Become([FailIf(S1, S1.rec[r].freed, "freed") EXCEPT !.rec[r].value = v])
            \/ /\ r = NoRecord
               /\ Len(rec) < MaxRecords
               /\ Become(map_add_record(MapsNow, m, k, v, slack))

\* Only the reference that a script gets to an object matters here.
js_map_get(m, key) ==
  /\ m \in held
  /\ \E r \in {map_find_record(MapsNow, m, map_normalize_key(key))} :
       /\ r # NoRecord /\ rec[r].value \in Refs \ held
       /\ Become([MapsNow EXCEPT !.held = @ \cup {rec[r].value}])

js_map_delete(m, key) ==
  /\ m \in held
  /\ \E r \in {map_find_record(MapsNow, m, map_normalize_key(key))} :
       /\ r # NoRecord
       /\ Become(map_delete_record(MapsNow, r))

\* The link that follows r in the list; NoRecord for the list head.
NextOf(S, r) ==
  LET l == S.state[S.rec[r].map].records
      i == CHOOSE i \in 1..Len(l) : l[i] = r
  IN  IF i < Len(l) THEN l[i + 1] ELSE NoRecord

\* list_for_each_safe: the next link is read before the record is deleted.
RECURSIVE ClearFrom(_, _)
ClearFrom(S, r) ==
  LET next == NextOf(S, r)
      S1 == map_delete_record(S, r)
  IN  IF r = NoRecord THEN S
      ELSE IF next # NoRecord /\ S1.rec[next].freed THEN FailIf(S1, TRUE, "clear")
      ELSE ClearFrom(S1, next)

FirstOf(S) == IF S.state[Map].records = <<>> THEN NoRecord ELSE Head(S.state[Map].records)

js_map_clear ==
  /\ Map \in held
  /\ Become(ClearFrom(MapsNow, FirstOf(MapsNow)))

\* The first record from r on that is not a zombie.
RECURSIVE SkipEmpty(_, _)
SkipEmpty(S, r) ==
  IF r = NoRecord \/ ~S.rec[r].empty THEN r ELSE SkipEmpty(S, NextOf(S, r))

\* The loop of js_map_forEach up to the next call of the callback, which gets its
\* own references to the key and the value; at the end the caller's reference to
\* the Map goes.
ForEachFrom(S, el) ==
  LET r == SkipEmpty(S, el)
  IN  IF r = NoRecord THEN Release(S, {Map})
      ELSE [S EXCEPT !.rec[r].ref_count = @ + 1,
                     !.frames = Append(@, [mr |-> r, key |-> S.rec[r].key,
                                           value |-> S.rec[r].value])]

js_map_forEach ==
  /\ Map \in held
  /\ Len(eachFrames) < MaxFrames
  /\ Become(ForEachFrom(MapsNow, FirstOf(MapsNow)))

\* The callback returns: the arguments are freed while the record is still
\* locked, then the loop goes on with the next record, or stops if it threw.
ForEachReturn(throws) ==
  LET f == Last(eachFrames)
      S1 == Release([MapsNow EXCEPT !.frames[Len(eachFrames)].key = JSUndefined,
                                !.frames[Len(eachFrames)].value = JSUndefined],
                    {f.key, f.value})
      S2 == [S1 EXCEPT !.frames = Front(@)]
      el == NextOf(S2, f.mr)
      S3 == map_decref_record(S2, f.mr)
  IN  /\ eachFrames # <<>>
      /\ IF S1.rec[f.mr].freed THEN Become(FailIf(S1, TRUE, "freed"))
         ELSE IF throws THEN Become(Release(S3, {Map}))
         ELSE Become(ForEachFrom(S3, el))

js_create_map_iterator(i) ==
  /\ Map \in held
  /\ it[i].obj = "new"
  /\ Become([MapsNow EXCEPT !.it[i] = [obj |-> Map, cur_record |-> NoRecord],
                        !.alive = @ \cup {i}, !.held = @ \cup {i}])

\* Mutant of IteratorStep: an iterator that ran out keeps the Map.
IteratorStepAgain(S, i, el) ==
  LET r == SkipEmpty(S, el)
  IN  IF r = NoRecord THEN [S EXCEPT !.it[i].cur_record = NoRecord]
      ELSE [S EXCEPT !.rec[r].ref_count = @ + 1, !.it[i].cur_record = r,
                     !.held = @ \cup ({S.rec[r].key, S.rec[r].value} \cap Refs)]

\* The script gets references to the key and the value.
IteratorStep(S, i, el) ==
  LET r == SkipEmpty(S, el)
  IN  IF r = NoRecord
      THEN Release([S EXCEPT !.it[i] = [obj |-> JSUndefined, cur_record |-> NoRecord]], {Map})
      ELSE [S EXCEPT !.rec[r].ref_count = @ + 1, !.it[i].cur_record = r,
                     !.held = @ \cup ({S.rec[r].key, S.rec[r].value} \cap Refs)]

js_map_iterator_next(i) ==
  LET mr == it[i].cur_record
  IN  /\ i \in held
      /\ it[i].obj = Map
      /\ IF mr = NoRecord THEN Become(IteratorStep(MapsNow, i, FirstOf(MapsNow)))
         ELSE IF rec[mr].freed THEN Become(FailIf(MapsNow, TRUE, "freed"))
         ELSE Become(IteratorStep(map_decref_record(MapsNow, mr), i, NextOf(MapsNow, mr)))

Drop(x) ==  \* a script lets go of an object
  /\ x \in held
  /\ Become(Release([MapsNow EXCEPT !.held = @ \ {x}], {x}))

-----------------------------------------------------------------------------
(* JS_RunGC: the objects that no root reaches are freed, in the order in   *)
(* which the collector finds them.  A value that only a record of a dead   *)
(* key referred to stays until the next collection.                        *)

js_map_mark(m) ==
  LET own == Range(state[m].records)
  IN  {rec[r].value : r \in own} \cup (IF m = Weak THEN {} ELSE {rec[r].key : r \in own})

js_map_iterator_mark(i) == {it[i].obj}

ReachedFrom(X) ==
  X \cup (alive \cap (UNION {js_map_mark(m) : m \in X \cap Maps}
                     \cup UNION {js_map_iterator_mark(i) : i \in X \cap Iterators}))

Roots == held \cup {x \in alive : \E f \in 1..Len(eachFrames) :
                                    x \in {eachFrames[f].key, eachFrames[f].value, Map}}

Garbage == alive \ ReachedFrom(ReachedFrom(ReachedFrom(Roots)))

JS_RunGC ==
  /\ Garbage # {}
  /\ \E order \in SetToSeqs(Garbage) : Become(FoldLeft(free_object, MapsNow, order))

Constructed ==
  [rec |-> <<>>,
   state |-> [m \in Maps |-> NewState],
   weakref |-> [o \in KeyObjects |-> <<>>],
   it |-> [i \in Iterators |-> [obj |-> "new", cur_record |-> NoRecord]],
   frames |-> <<>>, alive |-> KeyObjects \cup Maps, held |-> KeyObjects \cup Maps,
   failed |-> {}]

\* The Map is made from an array of entries with different keys, the WeakMap from
\* nothing.  The adder is the built-in set: its lookup, its call and the closing of
\* the iterator after an error are left out.
js_map_constructor ==
  FoldLeft(LAMBDA S, k : map_add_record(S, Map, map_normalize_key(k), PlainValue, 0),
           Constructed, FirstKeys)

Init ==
  LET S == js_map_constructor
  IN  /\ rec = S.rec /\ state = S.state /\ weakref = S.weakref /\ it = S.it
      /\ eachFrames = S.frames /\ alive = S.alive /\ held = S.held /\ failed = S.failed

Next ==
  /\ failed = {}
  /\ \/ \E m \in Maps, k \in ScriptKeys, v \in Passable, slack \in Slacks :
           js_map_set(m, k, v, slack)
     \/ \E m \in Maps, k \in ScriptKeys : js_map_get(m, k) \/ js_map_delete(m, k)
     \/ js_map_clear
     \/ js_map_forEach
     \/ \E throws \in BOOLEAN : ForEachReturn(throws)
     \/ \E i \in Iterators : js_create_map_iterator(i) \/ js_map_iterator_next(i)
     \/ \E x \in held : Drop(x)
     \/ JS_RunGC

Spec == Init /\ [][Next]_mapVars

-----------------------------------------------------------------------------
(* Properties.                                                             *)

LiveRecords(m) == {r \in Range(state[m].records) : ~rec[r].empty}

\* No list, lock or iterator leads to a record that was freed and no assertion of
\* the code fails, whatever scripts delete under a walk and whatever finalizers
\* run meanwhile.  The exception is js_map_clear: its list_for_each_safe remembers
\* the next record, and deleting an entry can free the iterator that alone kept
\* that record.
NoFreedRecordUsed == failed \subseteq {"clear"}

\* The same number as an integer and as a float64.
Respelled(a, b) == a # b /\ js_same_value_zero(a, b)

\* The hash table and the list agree: map_find_record finds exactly the records
\* that are on the list and no zombies, also when the allocator made the size of
\* the table something else than a power of two; no key has two records; and the
\* size a script reads is exact (a WeakMap overcounts the entries of dead keys).
\* map_hash_key puts a number that is once an integer and once a float64 (1 and
\* 0.5 + 0.5) in different buckets, although js_same_value_zero equates them: one
\* spelling may miss the record of the other, and then both get one.  That cannot
\* happen before the table has grown.
FindsEveryRecord ==
  \A m \in Maps \cap alive : \A live \in {LiveRecords(m)} :
    /\ \A r \in live : \E q \in {map_find_record(MapsNow, m, rec[r].key)} :
         q = r \/ (q \in live /\ Respelled(rec[r].key, rec[q].key))
    /\ \A r, q \in live :
         js_same_value_zero(rec[r].key, rec[q].key) => r = q \/ Respelled(rec[r].key, rec[q].key)
    /\ \A k \in Keys : \E r \in {map_find_record(MapsNow, m, map_normalize_key(k))} :
         /\ r # NoRecord => r \in live /\ js_same_value_zero(rec[r].key, k)
         /\ Len(state[m].hash_table) = 1 /\ r = NoRecord =>
              \A q \in live : ~js_same_value_zero(rec[q].key, k)
    /\ m = Map => state[m].record_count = Cardinality(live)
    /\ state[m].record_count >= Cardinality(live)

\* Who stands on record r of the Map.
Walkers(r) ==
  Cardinality({i \in Iterators \cap alive : it[i].obj = Map /\ it[i].cur_record = r})
  + Cardinality({f \in 1..Len(eachFrames) : eachFrames[f].mr = r})

\* The count of a record is one for its entry and one for every iterator and
\* forEach that stands on it: a zombie goes with its last walk, neither earlier
\* nor later, and every record that is not freed is on the list of a live map.
LocksExact ==
  failed = {} =>
    \A r \in Allocated(MapsNow) :
      /\ rec[r].map \in alive
      /\ r \in Range(state[rec[r].map].records)
      /\ rec[r].ref_count = Walkers(r) + (IF rec[r].empty THEN 0 ELSE 1)
      /\ rec[r].ref_count > 0

\* A weak collection has entries of live keys only, and the chain of an object
\* is made of exactly the entries it is the key of.
WeakEntriesExact ==
  failed = {} =>
    /\ \A o \in KeyObjects :
         Range(weakref[o]) = {r \in Allocated(MapsNow) : rec[r].map = Weak /\ rec[r].key = o}
    /\ Weak \in alive => \A r \in LiveRecords(Weak) : rec[r].key \in alive

\* Entries never refer to a freed object, and what a script or a record still
\* refers to is never freed, by reference counts or by the collector.
NoDanglingEntry ==
  failed = {} =>
    /\ \A r \in Allocated(MapsNow) : {rec[r].key, rec[r].value} \cap Refs \subseteq alive
    /\ \A f \in 1..Len(eachFrames) : {eachFrames[f].key, eachFrames[f].value} \cap Refs \subseteq alive
    /\ \A i \in Iterators \cap alive : it[i].obj = Map => Map \in alive

\* What scripts see of the Map: its entries in order and where each walk is.  An
\* iterator that was freed keeps its last place.
OM == INSTANCE OrderedMap WITH
  Numbers <- 1..MaxRecords, Calls <- 1..MaxFrames,
  entries <- {[num |-> r, key |-> rec[r].key, value |-> rec[r].value] : r \in LiveRecords(Map)},
  walk <- [w \in Iterators \cup 1..MaxFrames |->
             IF w \in Iterators
             THEN CASE it[w].obj = "new" -> [state |-> "unused", at |-> 0]
                    [] it[w].obj = Map -> [state |-> "active", at |-> it[w].cur_record]
                    [] OTHER -> [state |-> "done", at |-> 0]
             ELSE IF w <= Len(eachFrames) THEN [state |-> "active", at |-> eachFrames[w].mr]
             ELSE [state |-> "done", at |-> 0]]

\* The records, the hash table and the locks implement the ordered map of module
\* OrderedMap: every walk goes on in insertion order after the last entry it saw,
\* although that entry, its neighbours or all entries were deleted meanwhile.
WalksInOrder ==
  [][failed' # {} \/ Map \notin alive' \/ UNCHANGED OM!vars \/ OM!Next]_mapVars

\* The records of js_map_state are exact: nothing freed is used, every entry is
\* found, and locks, weak chains and references are the ones that exist.
RecordsExact ==
  NoFreedRecordUsed /\ FindsEveryRecord /\ LocksExact /\ WeakEntriesExact /\ NoDanglingEntry
=============================================================================
