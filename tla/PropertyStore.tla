----------------------------- MODULE PropertyStore -----------------------------
(***************************************************************************)
(* What the objects promise of their own properties: each object has a     *)
(* prototype and its properties in the order they were added.  No          *)
(* operation on one object is seen through another one.                    *)
(***************************************************************************)
EXTENDS Naturals, Sequences, SequencesExt

CONSTANTS Objs, Atoms, Protos, AtomNull
VARIABLE store

Absent == [proto |-> AtomNull, props |-> <<>>, live |-> FALSE]
Named(o, a) == {i \in DOMAIN store[o].props : store[o].props[i].atom = a}
With(o, props) == store' = [store EXCEPT ![o].props = props]

StoreInit == store = [o \in Objs |-> Absent]

Create(o) ==
  /\ ~store[o].live
  /\ \E p \in Protos : store' = [store EXCEPT ![o] = [Absent EXCEPT !.proto = p, !.live = TRUE]]

Destroy(o) == store[o].live /\ store' = [store EXCEPT ![o] = Absent]

\* One property, or the elements of an array when it becomes an ordinary object.
Append1(o) ==
  /\ store[o].live
  /\ \E props \in {store'[o].props} :
       /\ IsStrictPrefix(store[o].props, props)
       /\ \A i, j \in DOMAIN props : props[i].atom = props[j].atom => i = j
       /\ With(o, props)

RemoveOne(o) ==
  \E a \in Atoms : \E i \in Named(o, a) : With(o, RemoveAt(store[o].props, i))

Reflag(o) ==
  \E a \in Atoms : \E i \in Named(o, a) :
    With(o, [store[o].props EXCEPT ![i].flags = store'[o].props[i].flags])

Reparent(o) ==
  store[o].live /\ \E p \in Protos : store' = [store EXCEPT ![o].proto = p]

StoreNext ==
  \E o \in Objs :
    Create(o) \/ Destroy(o) \/ Append1(o) \/ RemoveOne(o) \/ Reflag(o) \/ Reparent(o)

StoreSpec == StoreInit /\ [][StoreNext]_store
================================================================================
