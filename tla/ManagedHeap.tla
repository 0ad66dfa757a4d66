----------------------------- MODULE ManagedHeap -----------------------------
(***************************************************************************)
(* What the memory management of the engine promises: objects that can be  *)
(* reached from a reference outside the heap stay as they are, and only    *)
(* objects that cannot be reached are ever taken away.  Nothing is said    *)
(* about how unreachable objects are found, nor when.                      *)
(***************************************************************************)
EXTENDS Naturals, Sequences

CONSTANT Objects

VARIABLES
  live,   \* the objects that exist
  kids,   \* the references each object has to others
  held    \* how many references from outside the heap each object has

vars == <<live, kids, held>>

Elements(s) == {s[i] : i \in DOMAIN s}

Roots == {o \in Objects : held[o] > 0}
Closed(S) == \A o \in S : Elements(kids[o]) \subseteq S
Reachable == LET around == {S \in SUBSET Objects : Roots \subseteq S /\ Closed(S)}
             IN  {o \in Objects : \A S \in around : o \in S}

Init == /\ live = {}
        /\ kids = [o \in Objects |-> <<>>]
        /\ held = [o \in Objects |-> 0]

Create(o) == /\ o \notin live
             /\ live' = live \cup {o}
             /\ held' = [held EXCEPT ![o] = 1]
             /\ kids' = [kids EXCEPT ![o] = <<>>]

\* The holder of a reference copies it, gives it up, or reads another from it.
Hold(o) == /\ held' = [held EXCEPT ![o] = @ + 1]
           /\ UNCHANGED <<live, kids>>
           /\ o \in Reachable
Release(o) == /\ held[o] > 0
              /\ held' = [held EXCEPT ![o] = @ - 1]
              /\ UNCHANGED <<live, kids>>

\* A reference moves from the holder into an object it can reach.
Link(o, c) == /\ held[o] > 0 /\ held[c] > 0
              /\ kids' = [kids EXCEPT ![o] = Append(@, c)]
              /\ held' = [held EXCEPT ![c] = @ - 1]
              /\ UNCHANGED live
Cut(o, i) == /\ held[o] > 0 /\ i \in DOMAIN kids[o]
             /\ kids' = [kids EXCEPT ![o] = SubSeq(@, 1, i - 1) \o
                                            SubSeq(@, i + 1, Len(@))]
             /\ UNCHANGED <<live, held>>

\* Any set of unreachable objects disappears, with the references they had.
Collect(S) == /\ live' = live \ S
              /\ kids' = [o \in Objects |-> IF o \in S THEN <<>> ELSE kids[o]]
              /\ UNCHANGED held
              /\ S # {} /\ S \subseteq live \ Reachable

Next == \/ \E o \in Objects : Create(o) \/ Hold(o) \/ Release(o)
        \/ \E o, c \in Objects : Link(o, c)
        \/ \E o \in Objects : \E i \in DOMAIN kids[o] : Cut(o, i)
        \/ \E S \in SUBSET live : Collect(S)

Spec == Init /\ [][Next]_vars
=============================================================================
