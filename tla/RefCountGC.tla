------------------------------ MODULE RefCountGC ------------------------------
(***************************************************************************)
(* Reference counting and the cycle collector of the QuickJS engine        *)
(* (free_object, free_zero_refcount, gc_decref, gc_scan, gc_free_cycles).  *)
(*                                                                         *)
(* The heap is a graph of reference-counted objects.  Script code and the  *)
(* wrapper hold references from outside.  Freeing a value and collecting   *)
(* run one loop iteration per step, so that the properties are about the   *)
(* states between iterations too; nothing else runs meanwhile.             *)
(***************************************************************************)
EXTENDS Naturals, Sequences, FiniteSets, SequencesExt

CONSTANTS
  Values,    \* GC objects that are JS values: JSObject, JSFunctionBytecode
  Auxes,     \* the others: JSVarRef, JSShape, JSAsyncFunctionData, JSContext
  NoObject,  \* the end of a list
  MaxEdges,  \* bound on the references between objects
  MaxHeld    \* bound on the references from outside

Objects == Values \cup Auxes
ASSUME ObjectsAssumption == Values \cap Auxes = {} /\ NoObject \notin Objects
ASSUME HeapBoundsAssumption == MaxEdges \in Nat /\ MaxHeld \in Nat

VARIABLES
  heap,      \* the objects and the lists they are on
  held,      \* references from outside the heap to each object
  to_free,   \* references the running call of JS_FreeValue has still to drop
  gc_phase,  \* rt->gc_phase
  pc,        \* the loop that is running, "idle" when none is
  el         \* its list cursor

vars == <<heap, held, to_free, gc_phase, pc, el>>

(***************************************************************************)
(* Each object is on one list at most.  A freed object that other members  *)
(* of its cycle still point to is a "zombie": emptied, but allocated.      *)
(***************************************************************************)
Heap == [ref_count : [Objects -> Nat], mark : [Objects -> 0..1],
         kids : [Objects -> Seq(Objects)],
         status : [Objects -> {"free", "live", "zombie"}],
         gc_obj_list : Seq(Objects), tmp_obj_list : Seq(Objects),
         gc_zero_ref_count_list : Seq(Objects)]

TypeOK == /\ heap \in Heap
          /\ held \in [Objects -> Nat]
          /\ to_free \in Seq(Objects)
          /\ gc_phase \in {"NONE", "DECREF", "REMOVE_CYCLES"}
          /\ pc \in {"idle", "free", "decref", "scan", "cycles"}
          /\ el \in Objects \cup {NoObject}

IsLive(o) == heap.status[o] = "live"

-----------------------------------------------------------------------------
(* List and count primitives, as functions of the heap H.                  *)

list_del(H, o) ==
  [H EXCEPT !.gc_obj_list = Remove(@, o), !.tmp_obj_list = Remove(@, o),
            !.gc_zero_ref_count_list = Remove(@, o)]

\* The object after o on the list s, or the end of the list.
NextOn(s, o) ==
  IF o = NoObject \/ ~Contains(s, o) \/ o = Last(s) THEN NoObject
  ELSE s[1 + CHOOSE i \in DOMAIN s : s[i] = o]
FirstOn(s) == IF s = <<>> THEN NoObject ELSE Head(s)

\* The references that the mark functions visit; finalizers drop the same ones.
mark_children(H, p) == H.kids[p]

\* JS_FreeValueRT: drop one reference to a value.
FreeValue(H, phase, v) ==
  LET D == [H EXCEPT !.ref_count[v] = @ - 1]
  IN  IF D.ref_count[v] <= 0 /\ phase # "REMOVE_CYCLES"
      THEN [list_del(D, v) EXCEPT !.gc_zero_ref_count_list = <<v>> \o @]
      ELSE D

DisposeStaysLinked(H, o) == [H EXCEPT !.status[o] = "free", !.kids[o] = <<>>]

\* The memory of o is given back.
Dispose(H, o) == [list_del(H, o) EXCEPT !.status[o] = "free", !.kids[o] = <<>>]

\* free_var_ref, js_free_shape, js_async_function_free, JS_FreeContext inside
\* free_object: what the object refers to is dropped at once.
FreeAux(H, phase, a) ==
  LET D == [H EXCEPT !.ref_count[a] = @ - 1]
      Drop(G, v) == FreeValue(G, phase, v)
  IN  IF D.ref_count[a] > 0 THEN D
      ELSE Dispose(FoldLeft(Drop, D, D.kids[a]), a)

FreeReference(H, phase, o) ==
  IF o \in Values THEN FreeValue(H, phase, o) ELSE FreeAux(H, phase, o)

free_object_forgets_zombie(H, phase, p) ==
  LET Drop(G, o) == FreeReference(G, phase, o)
  IN  Dispose(FoldLeft(Drop, H, H.kids[p]), p)

\* free_object, free_function_bytecode: the fields first, then the memory.
free_object(H, phase, p) ==
  LET Drop(G, o) == FreeReference(G, phase, o)
      F == FoldLeft(Drop, H, H.kids[p])
  IN  IF phase = "REMOVE_CYCLES" /\ F.ref_count[p] # 0
      THEN [list_del(F, p) EXCEPT
              !.gc_zero_ref_count_list = Append(@, p),
              !.status[p] = "zombie", !.kids[p] = <<>>]
      ELSE Dispose(F, p)

-----------------------------------------------------------------------------
(* The code that uses the heap, while nothing is being freed.              *)

Init == /\ heap = [ref_count |-> [o \in Objects |-> 0],
                   mark |-> [o \in Objects |-> 0],
                   kids |-> [o \in Objects |-> <<>>],
                   status |-> [o \in Objects |-> "free"],
                   gc_obj_list |-> <<>>, tmp_obj_list |-> <<>>,
                   gc_zero_ref_count_list |-> <<>>]
        /\ held = [o \in Objects |-> 0]
        /\ to_free = <<>>
        /\ gc_phase = "NONE" /\ pc = "idle" /\ el = NoObject

Edges == FoldLeft(LAMBDA n, o : n + Len(heap.kids[o]), 0, SetToSeq(Objects))
Mutates == pc = "idle" /\ UNCHANGED <<gc_phase, el>>

\* JS_NewObjectFromShape and the like: add_gc_object, one reference to the caller.
NewObject(o) ==
  /\ Mutates /\ heap.status[o] = "free"
  /\ heap' = [heap EXCEPT !.status[o] = "live", !.ref_count[o] = 1, !.mark[o] = 0,
                          !.gc_obj_list = Append(@, o)]
  /\ held' = [held EXCEPT ![o] = 1]
  /\ UNCHANGED <<to_free, pc>>

\* JS_DupValue, or reading a property of a held object.
DupValue(o) ==
  /\ Mutates /\ held[o] < MaxHeld
  /\ held[o] > 0 \/ \E p \in Objects : held[p] > 0 /\ Contains(heap.kids[p], o)
  /\ heap' = [heap EXCEPT !.ref_count[o] = @ + 1]
  /\ held' = [held EXCEPT ![o] = @ + 1]
  /\ UNCHANGED <<to_free, pc>>

\* JS_SetProperty and the like: the reference to c moves into o.
SetProperty(o, c) ==
  /\ Mutates /\ held[o] > 0 /\ held[c] > 0 /\ Edges < MaxEdges
  /\ o \in Auxes => c \in Values
  /\ heap' = [heap EXCEPT !.kids[o] = Append(@, c)]
  /\ held' = [held EXCEPT ![c] = @ - 1]
  /\ UNCHANGED <<to_free, pc>>

\* delete_property, set_value: the object's reference is dropped.
DeleteProperty(o, i) ==
  /\ Mutates /\ held[o] > 0 /\ i \in DOMAIN heap.kids[o]
  /\ to_free' = <<heap.kids[o][i]>>
  /\ heap' = [heap EXCEPT !.kids[o] = RemoveAt(@, i)]
  /\ pc' = "free"
  /\ UNCHANGED held

\* free_value of the wrapper, JS_FreeValue, JS_FreeContext.
FreeHeld(o) ==
  /\ Mutates /\ held[o] > 0
  /\ held' = [held EXCEPT ![o] = @ - 1]
  /\ to_free' = <<o>>
  /\ pc' = "free"
  /\ UNCHANGED heap

-----------------------------------------------------------------------------
(* Freeing: JS_FreeValue of the references in to_free, one after the other *)

Idle == heap'.gc_zero_ref_count_list = <<>> /\ to_free' = <<>>
KeepsFreeing == pc' = IF Idle THEN "idle" ELSE "free"

\* One reference is dropped while free_zero_refcount is not running.  An aux
\* object that dies drops its own references first; it is out of reach by then.
DropReference ==
  /\ pc = "free" /\ heap.gc_zero_ref_count_list = <<>> /\ to_free # <<>>
  /\ LET o == Head(to_free)
         D == [heap EXCEPT !.ref_count[o] = @ - 1]
     IN  IF o \in Values
         THEN /\ heap' = FreeValue(heap, "NONE", o)
              /\ to_free' = Tail(to_free)
         ELSE IF D.ref_count[o] > 0
              THEN heap' = D /\ to_free' = Tail(to_free)
              ELSE heap' = Dispose(D, o) /\ to_free' = D.kids[o] \o Tail(to_free)
  /\ gc_phase' = IF heap'.gc_zero_ref_count_list = <<>> THEN "NONE" ELSE "DECREF"
  /\ KeepsFreeing
  /\ UNCHANGED <<held, el>>

\* One iteration of free_zero_refcount.
free_zero_refcount ==
  /\ pc = "free" /\ heap.gc_zero_ref_count_list # <<>>
  /\ heap' = free_object(heap, "DECREF", Head(heap.gc_zero_ref_count_list))
  /\ gc_phase' = IF heap'.gc_zero_ref_count_list = <<>> THEN "NONE" ELSE "DECREF"
  /\ UNCHANGED to_free
  /\ KeepsFreeing
  /\ UNCHANGED <<held, el>>

-----------------------------------------------------------------------------
(* Collecting: JS_RunGC, which an allocation may trigger at any time.      *)

gc_decref_child_stays(H, c) == [H EXCEPT !.ref_count[c] = @ - 1]

gc_decref_child(H, c) ==
  LET D == [H EXCEPT !.ref_count[c] = @ - 1]
  IN  IF D.ref_count[c] = 0 /\ D.mark[c] = 1
      THEN [list_del(D, c) EXCEPT !.tmp_obj_list = Append(@, c)] ELSE D

gc_scan_incref_child_stays(H, c) ==
  [H EXCEPT !.ref_count[c] = @ + 1]

gc_scan_incref_child(H, c) ==
  LET I == [H EXCEPT !.ref_count[c] = @ + 1]
  IN  IF I.ref_count[c] = 1
      THEN [list_del(I, c) EXCEPT !.gc_obj_list = Append(@, c), !.mark[c] = 0]
      ELSE I

gc_scan_incref_child2_forgets(H, c) == H

gc_scan_incref_child2(H, c) == [H EXCEPT !.ref_count[c] = @ + 1]

RunGC ==
  /\ pc = "idle" /\ heap.gc_obj_list # <<>>
  /\ pc' = "decref" /\ el' = FirstOn(heap.gc_obj_list)
  /\ UNCHANGED <<heap, held, to_free, gc_phase>>

\* gc_decref: list_for_each_safe reads the next element before the body runs.
gc_decref ==
  /\ pc = "decref"
  /\ LET D == FoldLeft(gc_decref_child, heap, mark_children(heap, el))
         M == [D EXCEPT !.mark[el] = 1]
         el1 == NextOn(heap.gc_obj_list, el)
     IN  /\ heap' = IF M.ref_count[el] # 0 THEN M
                    ELSE [list_del(M, el) EXCEPT !.tmp_obj_list = Append(@, el)]
         /\ IF el1 # NoObject THEN pc' = "decref" /\ el' = el1
            ELSE pc' = "scan" /\ el' = FirstOn(heap'.gc_obj_list)
  /\ UNCHANGED <<held, to_free, gc_phase>>

\* gc_scan, first loop: list_for_each sees what the body appends.
gc_scan ==
  /\ pc = "scan" /\ el # NoObject
  /\ heap' = FoldLeft(gc_scan_incref_child, [heap EXCEPT !.mark[el] = 0],
                      mark_children(heap, el))
  /\ el' = NextOn(heap'.gc_obj_list, el)
  /\ UNCHANGED <<held, to_free, gc_phase, pc>>

\* gc_scan, second loop: the counts of what is to be deleted are restored.
gc_scan_restore ==
  /\ pc = "scan" /\ el = NoObject
  /\ LET Restore(G, p) == FoldLeft(gc_scan_incref_child2, G, mark_children(G, p))
     IN  heap' = FoldLeft(Restore, heap, heap.tmp_obj_list)
  /\ gc_phase' = "REMOVE_CYCLES" /\ pc' = "cycles"
  /\ UNCHANGED <<held, to_free, el>>

\* gc_free_cycles: aux objects are left to the values that refer to them.
gc_free_cycles ==
  /\ pc = "cycles" /\ heap.tmp_obj_list # <<>>
  /\ LET p == Head(heap.tmp_obj_list)
     IN  heap' = IF p \in Values THEN free_object(heap, "REMOVE_CYCLES", p)
                 ELSE [list_del(heap, p) EXCEPT
                         !.gc_zero_ref_count_list = Append(@, p)]
  /\ UNCHANGED <<held, to_free, gc_phase, pc, el>>

\* The end of gc_free_cycles: the memory of the zombies is given back.
gc_release ==
  /\ pc = "cycles" /\ heap.tmp_obj_list = <<>>
  /\ heap' = FoldLeft(Dispose, heap, heap.gc_zero_ref_count_list)
  /\ gc_phase' = "NONE" /\ pc' = "idle"
  /\ UNCHANGED <<held, to_free, el>>

Free == DropReference \/ free_zero_refcount
Collector == \/ gc_decref \/ gc_scan \/ gc_scan_restore
             \/ gc_free_cycles \/ gc_release

Next == \/ \E o \in Objects : NewObject(o) \/ DupValue(o) \/ FreeHeld(o)
        \/ \E o, c \in Objects : SetProperty(o, c)
        \/ \E o \in Objects : \E i \in 1..MaxEdges : DeleteProperty(o, i)
        \/ RunGC \/ Free \/ Collector

Spec == Init /\ [][Next]_vars

-----------------------------------------------------------------------------
(* What the collector must get right.                                      *)

\* How many references from the objects of S go to o.
From(S, o) == Cardinality({<<p, i>> \in S \X (1..MaxEdges) :
                             i \in DOMAIN heap.kids[p] /\ heap.kids[p][i] = o})
InToFree(o) == Cardinality({i \in DOMAIN to_free : to_free[i] = o})

\* The objects whose references the counts include in the running loop.
Counted ==
  CASE pc = "decref" -> {o \in Objects : heap.mark[o] = 0}
    [] pc = "scan" -> LET s == heap.gc_obj_list
                      IN  {s[i] : i \in {j \in DOMAIN s : \A k \in 1..j : s[k] # el}}
    [] OTHER -> Objects

\* Reference counts are exact: outside the collector a count is the number of
\* references to the object, and inside it leaves out exactly the references of
\* the objects that gc_decref has passed and gc_scan has not yet restored.
CountsExact ==
  \A o \in Objects :
    heap.status[o] # "free" =>
      heap.ref_count[o] = held[o] + InToFree(o) + From(Counted, o)

\* The assertions of gc_decref, gc_decref_child, gc_scan, free_zero_refcount and
\* gc_free_cycles hold whenever the code evaluates them.
AssertionsHold ==
  /\ pc = "decref" => /\ heap.mark[el] = 0
                      /\ \A c \in Objects : heap.ref_count[c] >= From({el}, c)
  /\ pc = "scan" /\ el # NoObject => heap.ref_count[el] > 0
  /\ pc = "free" /\ heap.gc_zero_ref_count_list # <<>>
       => heap.ref_count[Head(heap.gc_zero_ref_count_list)] = 0
  /\ pc = "cycles" /\ heap.tmp_obj_list = <<>>
       => ToSet(heap.gc_zero_ref_count_list) \subseteq Values

\* No reference dangles, not even while a cycle is taken apart: whatever an
\* object that is still to be freed, a pending JS_FreeValue or an outside holder
\* refers to has not been given back to the allocator.
NoDangling ==
  /\ \A o \in Objects : IsLive(o) =>
       \A k \in ToSet(heap.kids[o]) : heap.status[k] # "free"
  /\ \A o \in Objects : held[o] > 0 \/ Contains(to_free, o) => IsLive(o)
  /\ \A o \in ToSet(heap.gc_obj_list) \cup ToSet(heap.tmp_obj_list) : IsLive(o)

\* Counts, assertions and references are right together.
HeapSafe == AssertionsHold /\ NoDangling

H == INSTANCE ManagedHeap WITH live <- {o \in Objects : IsLive(o)},
                               kids <- heap.kids

\* Reference counting and cycle collection implement the abstract heap: what
\* can be reached from outside is never freed nor changed.
HeapRefinement == H!Spec

\* When JS_RunGC returns, every object left can be reached from outside.
AllReachable == \A o \in Objects : IsLive(o) => o \in H!Reachable
CollectionIsComplete == [][gc_release => AllReachable']_vars

\* How many iterations the running loop has left at most: the elements of the
\* list from the cursor on, those gc_scan may still append, and, when values are
\* freed, the references and objects that can still go.
Rest(s, o) == IF o = NoObject THEN 0
              ELSE 1 + Len(s) - CHOOSE i \in DOMAIN s : s[i] = o
Rank ==
  CASE pc = "idle" -> <<0, 0>>
    [] pc = "free" -> <<1, Edges + Len(to_free) + Cardinality({o \in Objects : IsLive(o)})>>
    [] pc = "cycles" -> <<2, Len(heap.tmp_obj_list)>>
    [] pc = "scan" -> <<3, 2 * Len(heap.tmp_obj_list) + Rest(heap.gc_obj_list, el)>>
    [] pc = "decref" -> <<4, Rest(heap.gc_obj_list, el)>>

\* Freeing a value and collecting cycles end: each iteration of their loops
\* leaves the loop for the next one or comes closer to its end, although
\* gc_decref takes elements off the list it walks, gc_scan appends to it, and
\* free_zero_refcount pushes onto the list it empties.
FreeingEnds ==
  [][pc # "idle" => \/ Rank'[1] < Rank[1]
                    \/ Rank'[1] = Rank[1] /\ Rank'[2] < Rank[2]]_vars

\* The values differ only in name.
ValueSymmetry == Permutations(Values)
=============================================================================
