------------------------------ MODULE OrderedMap ------------------------------
(***************************************************************************)
(* What a JavaScript Map promises to the scripts that use it, whatever     *)
(* they do while they walk over it: entries are visited in the order in    *)
(* which they were added; a walk (an iterator or the forEach in progress)  *)
(* goes on after the last entry it saw, sees the entries added behind that *)
(* one and never one that was deleted; a finished iterator stays finished. *)
(***************************************************************************)
EXTENDS Naturals, FiniteSets

CONSTANTS
  Keys, Values,
  Numbers,    \* what entries are numbered with, in the order they are added
  Iterators,  \* the iterators a script creates
  Calls       \* the calls of forEach in progress, by their depth

Walks == Iterators \cup Calls

VARIABLES
  entries,  \* the entries, each with the number it got when it was added
  walk      \* where each walk is: after the entry with this number

vars == <<entries, walk>>

Entry == [num : Numbers, key : Keys, value : Values]
Position == [state : {"unused", "active", "done"}, at : Numbers \cup {0}]

Unused == [state |-> "unused", at |-> 0]
Done   == [state |-> "done", at |-> 0]
At(n)  == [state |-> "active", at |-> n]

Init ==
  /\ entries = {}
  /\ walk = [w \in Walks |-> IF w \in Iterators THEN Unused ELSE Done]

Find(k) == {e \in entries : e.key = k}
Behind(n) == {e \in entries : e.num > n}
First(E) == CHOOSE e \in E : \A f \in E : e.num <= f.num

\* A new entry is behind all entries and all walks.
Set(k, v) ==
  IF Find(k) = {}
  THEN \E n \in Numbers :
         /\ \A e \in entries : n > e.num
         /\ \A w \in Walks : n > walk[w].at
         /\ entries' = entries \cup {[num |-> n, key |-> k, value |-> v]}
  ELSE entries' = (entries \ Find(k)) \cup {[e EXCEPT !.value = v] : e \in Find(k)}

Delete(k) == entries' = entries \ Find(k)
Clear     == entries' = {}

Start(i) == walk[i] = Unused /\ walk' = [walk EXCEPT ![i] = At(0)]

After(n) == IF Behind(n) = {} THEN Done ELSE At(First(Behind(n)).num)

Advance(w) == walk[w].state = "active" /\ walk' = [walk EXCEPT ![w] = After(walk[w].at)]

\* forEach looks for its first entry at once, and ends early if the callback throws.
Call(c)    == walk[c] = Done /\ walk' = [walk EXCEPT ![c] = After(0)]
Abandon(c) == walk[c].state = "active" /\ walk' = [walk EXCEPT ![c] = Done]

Next ==
  \/ /\ UNCHANGED walk
     /\ \/ Clear
        \/ \E e \in entries : Delete(e.key)
        \/ \E e \in entries' : Set(e.key, e.value)
  \/ /\ UNCHANGED entries
     /\ \/ \E i \in Iterators : Start(i)
        \/ \E w \in Walks : Advance(w)
        \/ \E c \in Calls : Call(c) \/ Abandon(c)

Spec == Init /\ [][Next]_vars
=============================================================================
