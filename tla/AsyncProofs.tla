------------------------------ MODULE AsyncProofs ------------------------------
(***************************************************************************)
(* Proofs about Combinators and Generators: the counter of Promise.all,    *)
(* allSettled and any, and the protocols of generators and async           *)
(* generators, for any bounds.                                             *)
(***************************************************************************)
EXTENDS Generators, Combinators, SequenceTheorems, FiniteSetTheorems, TLAPS

-----------------------------------------------------------------------------
(* Combinators: the inductive invariant                                    *)

CombTypes ==
  /\ cmode \in Mode
  /\ pc \in {"next", "then", "close", "returned"}
  /\ index \in Nat /\ index <= MaxItems
  /\ remaining \in Int
  /\ calledF \in SUBSET Items /\ calledR \in SUBSET Items
  /\ values \in [Items -> {Unset, "value", "reason"}]
  /\ outcome \in Outcome
  /\ misused \in BOOLEAN /\ lost \in BOOLEAN

\* The items that have put their value in its place.
Done == {i \in Created : values[i] # Unset}

\* What an item has done, in the modes that count.
ItemsKnown ==
  /\ \A i \in Items : i >= index => values[i] = Unset /\ ~Called(i)
  /\ \A i \in Items : values[i] # Unset => i \in Counted
  /\ ~lost => \A i \in Counted : values[i] # Unset
  /\ \A i \in Items : values[i] = "value" => i \in calledF
  /\ \A i \in Items : values[i] = "reason" => i \in calledR
  /\ cmode = "allSettled" /\ ~misused => calledF \cap calledR = {}
  /\ cmode # "allSettled" => ~misused

\* own: whether the combinator itself is still counted.  The element functions
\* may be called more often than once per item, so that in general the count
\* is only bounded by the items that are left.
CountedWith(own) ==
  /\ own = 0 => pc = "returned"
  /\ own = 1 /\ pc = "returned" => outcome # "pending"
  /\ ~misused => remaining = Cardinality(Created \ Done) + own
  /\ ~lost => remaining <= Cardinality(Created \ Counted) + own

CombInv ==
  /\ CombTypes /\ ItemsKnown
  /\ cmode # "race" => \E own \in {0, 1} : CountedWith(own)
  /\ outcome = "pending" => cmode = "race" \/ remaining >= 1
  /\ outcome \in {"fulfilled", "rejected"} => cmode # "race"
  /\ outcome = AllDone /\ ~misused => remaining = 0
  /\ outcome = "pending" /\ cmode = "all" => calledR = {}
  /\ outcome = "pending" /\ cmode = "any" => calledF = {}
  /\ outcome = "pending" /\ cmode = "race" => calledF = {} /\ calledR = {}

-----------------------------------------------------------------------------
(* Counting what is left                                                   *)

\* Taking one more element of a finite set away leaves one less.
LEMMA TakeAway ==
  ASSUME NEW C, IsFiniteSet(C), NEW D
  PROVE  /\ Cardinality(C \ D) \in Nat
         /\ Cardinality(C \ D) = 0 => C \subseteq D
         /\ \A i \in C \ D : Cardinality(C \ (D \cup {i})) = Cardinality(C \ D) - 1
<1>1. IsFiniteSet(C \ D)
  BY FS_Subset
<1>2. Cardinality(C \ D) \in Nat /\ (Cardinality(C \ D) = 0 => C \ D = {})
  BY <1>1, FS_CardinalityType, FS_EmptySet
<1>3. ASSUME NEW i \in C \ D
      PROVE  Cardinality(C \ (D \cup {i})) = Cardinality(C \ D) - 1
  <2>1. Cardinality((C \ D) \ {i}) = Cardinality(C \ D) - 1
    BY <1>1, FS_RemoveElement, Zenon
  <2>2. (C \ D) \ {i} = C \ (D \cup {i})
    OBVIOUS
  <2> QED
    BY <2>1, <2>2
<1> QED
  BY <1>2, <1>3, Zenon

\* The items that have got their functions are finitely many, and one more
\* when the loop goes round.
LEMMA CreatedItems ==
  ASSUME CombTypes
  PROVE  /\ IsFiniteSet(Created)
         /\ \A D : /\ index \notin D
                   => Cardinality((Created \cup {index}) \ D) = Cardinality(Created \ D) + 1
<1>1. IsFiniteSet(Items)
  BY ItemsAssumption, FS_Interval DEF Items
<1>2. Created \subseteq Items /\ index \notin Created
  BY DEF Created, CombTypes
<1>3. IsFiniteSet(Created)
  BY <1>1, <1>2, FS_Subset
<1>4. ASSUME NEW D, index \notin D
      PROVE  Cardinality((Created \cup {index}) \ D) = Cardinality(Created \ D) + 1
  <2>1. IsFiniteSet(Created \ D) /\ index \notin Created \ D
    BY <1>2, <1>3, FS_Subset
  <2>2. Cardinality((Created \ D) \cup {index}) = Cardinality(Created \ D) + 1
    BY <2>1, FS_AddElement
  <2>3. (Created \ D) \cup {index} = (Created \cup {index}) \ D
    BY <1>4
  <2> QED
    BY <2>2, <2>3
<1> QED
  BY <1>3, <1>4

-----------------------------------------------------------------------------
(* The steps of the combinators                                            *)

\* Nothing is created or counted when the combinator starts.
LEMMA CombInitInv == CombInit => CombInv
<1> SUFFICES ASSUME CombInit
             PROVE  CombInv
  OBVIOUS
<1>1. CombTypes
  <2>1. values \in [Items -> {Unset, "value", "reason"}]
    BY DEF CombInit
  <2>2. misused \in BOOLEAN /\ lost \in BOOLEAN /\ cmode \in Mode
    BY Zenon DEF CombInit
  <2> QED
    BY <2>1, <2>2, ItemsAssumption DEF CombInit, CombTypes, Outcome
<1>2. Created = {} /\ Counted = {} /\ Done = {}
  <2>1. Created = {}
    BY DEF CombInit, Created, Items
  <2> QED
    BY <2>1, Zenon DEF Counted, Done
<1>3. ItemsKnown
  <2>1. \A i \in Items : values[i] = Unset
    BY DEF CombInit
  <2>2. ~misused /\ ~lost /\ calledF = {} /\ calledR = {}
    BY Zenon DEF CombInit
  <2>3. Unset # "value" /\ Unset # "reason"
    BY DEF Unset
  <2> QED
    BY <1>2, <2>1, <2>2, <2>3 DEF ItemsKnown, Called
<1>4. CountedWith(1)
  <2>1. Cardinality(Created \ Done) = 0 /\ Cardinality(Created \ Counted) = 0
    BY <1>2, FS_EmptySet
  <2> QED
    BY <2>1 DEF CombInit, CountedWith
<1>5. AllDone # "pending" /\ outcome = "pending"
  BY DEF CombInit, AllDone
<1> QED
  BY <1>1, <1>3, <1>4, <1>5 DEF CombInv, CombInit

\* The loop counts an item before its 'then' can answer.
LEMMA NextItemInv == CombInv /\ NextItem => CombInv'
<1> SUFFICES ASSUME CombInv, NextItem
             PROVE  CombInv'
  OBVIOUS
<1> USE DEF NextItem
<1>1. CombTypes'
  BY ItemsAssumption DEF CombInv, CombTypes
<1>2. Created' = Created \cup {index}
  BY ItemsAssumption DEF CombInv, CombTypes, Created, Items
<1>3. index \in Items /\ values[index] = Unset /\ ~Called(index)
  BY ItemsAssumption DEF CombInv, CombTypes, ItemsKnown, Items
<1>4. Done' = Done
  BY <1>2, <1>3 DEF Done
<1>5. Counted' = Counted
  BY <1>2, <1>3, Zenon DEF Counted, Called, CombInv, CombTypes, Mode
<1>6. ItemsKnown'
  <2>1. \A i \in Items : i >= index' => i >= index
    BY DEF CombInv, CombTypes, Items
  <2> QED
    BY <1>5, <2>1 DEF CombInv, ItemsKnown, Called
<1>7. cmode # "race" => \E own \in {0, 1} : CountedWith(own)'
  <2> SUFFICES ASSUME cmode # "race"
               PROVE  \E own \in {0, 1} : CountedWith(own)'
    OBVIOUS
  <2>1. PICK own \in {0, 1} : CountedWith(own)
    BY DEF CombInv
  <2>2. index \notin Done /\ index \notin Counted
    <3>1. index \notin Created
      BY DEF Created, CombInv, CombTypes
    <3> QED
      BY <3>1, Zenon DEF Done, Counted
  <2>3. /\ Cardinality(Created' \ Done') = Cardinality(Created \ Done) + 1
        /\ Cardinality(Created' \ Counted') = Cardinality(Created \ Counted) + 1
    BY <1>2, <1>4, <1>5, <2>2, CreatedItems, Zenon DEF CombInv
  <2>4. /\ Cardinality(Created \ Done) \in Nat /\ Cardinality(Created \ Counted) \in Nat
        /\ remaining \in Int
    BY CreatedItems, TakeAway DEF CombInv, CombTypes
  <2>5. CountedWith(own)'
    BY <2>1, <2>3, <2>4 DEF CountedWith
  <2> QED
    BY <2>5
<1>8. outcome = AllDone => cmode # "race" /\ misused
  <2> SUFFICES ASSUME outcome = AllDone, ~misused
               PROVE  FALSE
    BY DEF CombInv, AllDone
  <2>1. cmode # "race" /\ remaining = 0
    BY DEF CombInv, AllDone
  <2>2. PICK own \in {0, 1} : CountedWith(own)
    BY <2>1 DEF CombInv
  <2>3. Cardinality(Created \ Done) \in Nat
    BY CreatedItems, TakeAway DEF CombInv
  <2> QED
    BY <2>1, <2>2, <2>3 DEF CountedWith
<1> QED
  BY <1>1, <1>6, <1>7, <1>8 DEF CombInv, AllDone, CombTypes

\* The other steps of the loop settle the promise with an exception, or take
\* the combinator itself off the count.
LEMMA LoopStepInv ==
  CombInv /\ (ThenReturned \/ CombLoopFails \/ Closed \/ CombLoopDone) => CombInv'
<1> SUFFICES ASSUME CombInv, ThenReturned \/ CombLoopFails \/ Closed \/ CombLoopDone
             PROVE  CombInv'
  OBVIOUS
<1> USE DEF ThenReturned, CombLoopFails, Closed, CombLoopDone, Settle, remainingElementsCount_add
<1>1. CombTypes'
  BY DEF CombInv, CombTypes, Outcome, AllDone
<1>2. Created' = Created /\ Done' = Done /\ Counted' = Counted
  BY Zenon, Zenon DEF Created, Done, Counted, Called
<1>3. ItemsKnown'
  BY <1>2 DEF CombInv, ItemsKnown, Called
<1>4. outcome # "pending" => outcome' = outcome
  OBVIOUS
<1>5. cmode # "race" => \E own \in {0, 1} : CountedWith(own)'
  <2> SUFFICES ASSUME cmode # "race"
               PROVE  \E own \in {0, 1} : CountedWith(own)'
    OBVIOUS
  <2>1. PICK own \in {0, 1} : CountedWith(own)
    BY DEF CombInv
  <2>2. /\ Cardinality(Created \ Done) \in Nat /\ Cardinality(Created \ Counted) \in Nat
        /\ remaining \in Int
    BY CreatedItems, TakeAway DEF CombInv, CombTypes
  <2>3. CASE CombLoopDone
    <3>1. own = 1
      BY <2>1, <2>3 DEF CountedWith
    <3>2. remaining' = remaining - 1 /\ pc' = "returned" /\ misused' = misused /\ lost' = lost
      BY <2>3, Zenon
    <3>3. CountedWith(0)'
      BY <1>2, <2>1, <2>2, <3>1, <3>2 DEF CountedWith
    <3> QED
      BY <3>3
  <2>4. CASE ThenReturned \/ CombLoopFails \/ Closed
    <3>1. CountedWith(own)'
      BY <1>2, <1>4, <2>1, <2>2, <2>4, Zenon DEF CountedWith
    <3> QED
      BY <3>1
  <2> QED
    BY <2>3, <2>4
<1>6. pc # "returned" /\ ~misused => outcome # AllDone
  <2> SUFFICES ASSUME pc # "returned", ~misused, outcome = AllDone
               PROVE  FALSE
    OBVIOUS
  <2>1. cmode # "race" /\ remaining = 0
    BY DEF CombInv, AllDone
  <2>2. PICK own \in {0, 1} : CountedWith(own)
    BY <2>1 DEF CombInv
  <2>3. Cardinality(Created \ Done) \in Nat
    BY CreatedItems, TakeAway, Zenon DEF CombInv
  <2> QED
    BY <2>1, <2>2, <2>3 DEF CountedWith
<1> QED
  BY <1>1, <1>3, <1>5, <1>6 DEF CombInv, AllDone, CombTypes

\* js_promise_all_resolve_element counts an item once, puts its value in place, and
\* settles the promise when it was the last one.
LEMMA FulfilElementInv ==
  ASSUME CombInv, NEW i \in Items, FulfilElement(i)
  PROVE  CombInv'
<1>0. /\ Created' = Created /\ i \in Created /\ i < index /\ CombTypes
      /\ cmode' = cmode /\ pc' = pc /\ index' = index /\ calledR' = calledR
      /\ calledF' = calledF \cup {i}
  BY DEF FulfilElement, Created, CombInv
<1>types. /\ calledF' \in SUBSET Items /\ calledR' \in SUBSET Items /\ index' \in Nat
          /\ index' <= MaxItems /\ cmode' \in Mode /\ cmode \in Mode
          /\ pc' \in {"next", "then", "close", "returned"}
          /\ remaining \in Int /\ outcome \in Outcome
          /\ values \in [Items -> {Unset, "value", "reason"}]
  BY <1>0 DEF CombTypes
<1>bool. /\ misused' \in BOOLEAN /\ misused \in BOOLEAN /\ lost \in BOOLEAN
         /\ misused' <=> misused \/ (cmode = "allSettled" /\ i \in calledR)
  BY <1>0, Zenon DEF FulfilElement, CombTypes
<1>fin. /\ IsFiniteSet(Created)
        /\ Cardinality(Created \ Done) \in Nat /\ Cardinality(Created \ Counted) \in Nat
        /\ Cardinality(Created \ Done) = 0 => Created \subseteq Done
        /\ \A j \in Created \ Done : Cardinality(Created \ (Done \cup {j})) = Cardinality(Created \ Done) - 1
        /\ \A j \in Created \ Counted :
             Cardinality(Created \ (Counted \cup {j})) = Cardinality(Created \ Counted) - 1
  BY <1>0, CreatedItems, TakeAway
<1>1. CASE cmode \in {"all", "allSettled"} /\ i \notin calledF
  <2>0. ElementDone(i, "value")
    BY <1>1, Zenon DEF FulfilElement
  <2>1. Counted' = Counted \cup {i}
    BY <1>0, <1>1, Zenon DEF Counted, Called
  <2>2. ~misused' => i \notin Counted /\ i \notin Done
    BY <1>0, <1>1, <1>bool, Zenon DEF Counted, Called, Done, CombInv, ItemsKnown
  <2>3. /\ \A j \in Items : j >= index => j # i
        /\ cmode # "allSettled" => ~misused'
    BY <1>0, <1>types, <1>bool DEF CombInv, ItemsKnown, Items
  <2>4. ~misused' => outcome # AllDone
    <3> SUFFICES ASSUME ~misused', outcome = AllDone
                 PROVE  FALSE
      OBVIOUS
    <3>1. cmode # "race" /\ remaining = 0
      BY <1>bool DEF CombInv, AllDone
    <3>2. PICK own \in {0, 1} : CountedWith(own)
      BY <3>1 DEF CombInv
    <3> QED
      BY <1>0, <1>bool, <1>fin, <2>2, <3>1, <3>2 DEF CountedWith
  <2>5. CASE values' = [values EXCEPT ![i] = "value"] /\ remainingElementsCount_add(-1) /\ UNCHANGED lost
    <3>1. /\ values' \in [Items -> {Unset, "value", "reason"}]
          /\ values'[i] = "value" /\ "value" # Unset /\ "value" # "reason"
          /\ \A j \in Items : j # i => values'[j] = values[j]
          /\ remaining' = remaining - 1
          /\ outcome' = IF remaining' = 0 /\ outcome = "pending" THEN AllDone ELSE outcome
          /\ lost' = lost /\ lost \in BOOLEAN
      BY <1>types, <2>5, <1>0 DEF remainingElementsCount_add, Settle, Unset, CombTypes
    <3>2. Done' = Done \cup {i}
      BY <1>0, <3>1 DEF Done, Created
    <3>3. CombTypes'
      BY <1>types, <1>bool, <3>1 DEF CombTypes, Outcome, AllDone
    <3>4. ItemsKnown'
      <4>1. \A j \in Items : j >= index' => values'[j] = Unset /\ ~Called(j)'
        BY <1>0, <2>3, <3>1, Zenon DEF CombInv, ItemsKnown, Called
      <4>2. \A j \in Items : values'[j] # Unset => j \in Counted'
        BY <2>1, <3>1 DEF CombInv, ItemsKnown
      <4>3. ~lost' => \A j \in Counted' : values'[j] # Unset
        <5>1. Counted \subseteq Items
          BY Zenon, Zenon DEF Counted, Created
        <5> QED
          BY <2>1, <3>1, <5>1 DEF CombInv, ItemsKnown
      <4>4. \A j \in Items : /\ values'[j] = "value" => j \in calledF'
                             /\ values'[j] = "reason" => j \in calledR'
        BY <1>0, <3>1 DEF CombInv, ItemsKnown
      <4>5. cmode' = "allSettled" /\ ~misused' => calledF' \cap calledR' = {}
        BY <1>0, <1>bool DEF CombInv, ItemsKnown
      <4> QED
        BY <1>0, <2>3, <4>1, <4>2, <4>3, <4>4, <4>5, Zenon DEF ItemsKnown
    <3>5. \E own \in {0, 1} : CountedWith(own)'
      <4>1. PICK own \in {0, 1} : CountedWith(own)
        BY <1>1 DEF CombInv
      <4>2. ~misused' => remaining' = Cardinality(Created' \ Done') + own
        <5> SUFFICES ASSUME ~misused'
                     PROVE  remaining' = Cardinality(Created' \ Done') + own
          OBVIOUS
        <5>1. Cardinality(Created' \ Done') = Cardinality(Created \ Done) - 1
          BY <1>0, <1>fin, <2>2, <3>2, Zenon
        <5>2. remaining = Cardinality(Created \ Done) + own
          BY <1>bool, <4>1 DEF CountedWith
        <5> QED
          BY <1>fin, <3>1, <5>1, <5>2
      <4>3. ~lost' => remaining' <= Cardinality(Created' \ Counted') + own
        <5> DEFINE n == Cardinality(Created \ Counted)
                   m == Cardinality(Created' \ Counted')
        <5> SUFFICES ASSUME ~lost'
                     PROVE  remaining' <= m + own
          OBVIOUS
        <5>1. i \in Counted => m = n
          <6> SUFFICES ASSUME i \in Counted
                       PROVE  Created' \ Counted' = Created \ Counted
            OBVIOUS
          <6> QED
            BY <1>0, <2>1
        <5>2. i \notin Counted => m = n - 1
          BY <1>0, <1>fin, <2>1, Zenon
        <5>3. remaining <= n + own /\ n \in Nat
          BY <1>fin, <3>1, <4>1 DEF CountedWith
        <5> HIDE DEF n, m
        <5> QED
          BY <1>types, <3>1, <5>1, <5>2, <5>3
      <4>4. outcome # "pending" => outcome' # "pending"
        BY <3>1
      <4> QED
        BY <1>0, <4>1, <4>2, <4>3, <4>4 DEF CountedWith
    <3>6. AllDone' = AllDone /\ AllDone \in {"fulfilled", "rejected"}
      BY <1>0 DEF AllDone
    <3>7. outcome' = "pending" => outcome = "pending" /\ remaining' >= 1
      BY <1>1, <1>types, <3>1, <3>6 DEF CombInv
    <3>8. outcome' = AllDone' /\ ~misused' => remaining' = 0
      BY <2>4, <3>1, <3>6
    <3> QED
      BY <1>0, <1>1, <3>3, <3>4, <3>5, <3>7, <3>8, Zenon DEF CombInv
  <2>6. CASE lost' = TRUE /\ UNCHANGED <<values, remaining, outcome>>
    <3>1. Done' = Done
      BY <1>0, <2>6 DEF Done
    <3>2. CombTypes'
      BY <1>types, <1>bool, <2>6 DEF CombTypes
    <3>3. lost'
      BY <2>6, Zenon
    <3>4. ItemsKnown'
      BY <1>0, <1>1, <1>bool, <2>1, <2>3, <2>6, <3>3, Zenon DEF CombInv, ItemsKnown, Called
    <3>5. \E own \in {0, 1} : CountedWith(own)'
      BY <1>0, <1>1, <1>bool, <2>6, <3>1, <3>3, Zenon DEF CombInv, CountedWith
    <3> QED
      BY <1>0, <1>1, <1>bool, <2>6, <3>2, <3>4, <3>5, Zenon DEF CombInv, AllDone
  <2> QED
    BY <2>0, <2>5, <2>6, Zenon DEF ElementDone
<1>2. CASE cmode \in {"all", "allSettled"} /\ i \in calledF
  <2>1. UNCHANGED <<values, remaining, outcome, lost, calledF>>
    BY <1>0, <1>2, Zenon DEF FulfilElement
  <2>2. Done' = Done /\ Counted' = Counted
    BY <1>0, <2>1, Zenon DEF Done, Counted, Called
  <2>3. CombTypes'
    BY <1>0, <1>types, <1>bool, <2>1 DEF CombTypes
  <2>4. ItemsKnown'
    BY <1>0, <1>bool, <2>1, <2>2 DEF CombInv, ItemsKnown, Called
  <2>5. \E own \in {0, 1} : CountedWith(own)'
    BY <1>0, <1>2, <1>bool, <2>1, <2>2 DEF CombInv, CountedWith
  <2> QED
    BY <1>0, <1>2, <1>bool, <2>1, <2>3, <2>4, <2>5 DEF CombInv, AllDone
<1>3. CASE cmode \in {"any", "race"}
  <2>1. /\ UNCHANGED <<values, remaining, lost>>
        /\ outcome' = IF outcome = "pending" THEN "first_fulfilled" ELSE outcome
    BY <1>3, Zenon DEF FulfilElement, Settle
  <2>2. Done' = Done /\ Counted' = Counted
    BY <1>0, <1>3, <2>1, Zenon DEF Done, Counted, Called
  <2>3. misused' <=> misused
    BY <1>bool, <1>3
  <2>4. CombTypes'
    BY <1>0, <1>types, <1>bool, <2>1, Zenon DEF CombTypes, Outcome
  <2>5. ItemsKnown'
    <3>1. \A j \in Items : j >= index => j # i
      BY <1>0, <1>types DEF Items
    <3> QED
      BY <1>0, <1>3, <2>1, <2>2, <2>3, <3>1, Zenon DEF CombInv, ItemsKnown, Called
  <2>6. cmode # "race" => \E own \in {0, 1} : CountedWith(own)'
    BY <1>0, <2>1, <2>2, <2>3 DEF CombInv, CountedWith
  <2> QED
    BY <1>0, <1>3, <1>bool, <2>1, <2>3, <2>4, <2>5, <2>6, Zenon DEF CombInv, AllDone
<1> QED
  BY <1>1, <1>2, <1>3, <1>types DEF Mode

\* js_promise_all_resolve_element counts an item once, puts its value in place, and
\* settles the promise when it was the last one,
\* for the function that takes the reasons.
LEMMA RejectElementInv ==
  ASSUME CombInv, NEW i \in Items, RejectElement(i)
  PROVE  CombInv'
<1>0. /\ Created' = Created /\ i \in Created /\ i < index /\ CombTypes
      /\ cmode' = cmode /\ pc' = pc /\ index' = index /\ calledF' = calledF
      /\ calledR' = calledR \cup {i}
  BY DEF RejectElement, Created, CombInv
<1>types. /\ calledR' \in SUBSET Items /\ calledF' \in SUBSET Items /\ index' \in Nat
          /\ index' <= MaxItems /\ cmode' \in Mode /\ cmode \in Mode
          /\ pc' \in {"next", "then", "close", "returned"}
          /\ remaining \in Int /\ outcome \in Outcome
          /\ values \in [Items -> {Unset, "value", "reason"}]
  BY <1>0 DEF CombTypes
<1>bool. /\ misused' \in BOOLEAN /\ misused \in BOOLEAN /\ lost \in BOOLEAN
         /\ misused' <=> misused \/ (cmode = "allSettled" /\ i \in calledF)
  BY <1>0, Zenon DEF RejectElement, CombTypes
<1>fin. /\ IsFiniteSet(Created)
        /\ Cardinality(Created \ Done) \in Nat /\ Cardinality(Created \ Counted) \in Nat
        /\ Cardinality(Created \ Done) = 0 => Created \subseteq Done
        /\ \A j \in Created \ Done : Cardinality(Created \ (Done \cup {j})) = Cardinality(Created \ Done) - 1
        /\ \A j \in Created \ Counted :
             Cardinality(Created \ (Counted \cup {j})) = Cardinality(Created \ Counted) - 1
  BY <1>0, CreatedItems, TakeAway
<1>1. CASE cmode \in {"any", "allSettled"} /\ i \notin calledR
  <2>0. ElementDone(i, "reason")
    BY <1>1, Zenon DEF RejectElement
  <2>1. Counted' = Counted \cup {i}
    BY <1>0, <1>1, Zenon DEF Counted, Called
  <2>2. ~misused' => i \notin Counted /\ i \notin Done
    BY <1>0, <1>1, <1>bool, Zenon DEF Counted, Called, Done, CombInv, ItemsKnown
  <2>3. /\ \A j \in Items : j >= index => j # i
        /\ cmode # "allSettled" => ~misused'
    BY <1>0, <1>types, <1>bool DEF CombInv, ItemsKnown, Items
  <2>4. ~misused' => outcome # AllDone
    <3> SUFFICES ASSUME ~misused', outcome = AllDone
                 PROVE  FALSE
      OBVIOUS
    <3>1. cmode # "race" /\ remaining = 0
      BY <1>bool DEF CombInv, AllDone
    <3>2. PICK own \in {0, 1} : CountedWith(own)
      BY <3>1 DEF CombInv
    <3> QED
      BY <1>0, <1>bool, <1>fin, <2>2, <3>1, <3>2 DEF CountedWith
  <2>5. CASE values' = [values EXCEPT ![i] = "reason"] /\ remainingElementsCount_add(-1) /\ UNCHANGED lost
    <3>1. /\ values' \in [Items -> {Unset, "value", "reason"}]
          /\ values'[i] = "reason" /\ "reason" # Unset /\ "value" # "reason"
          /\ \A j \in Items : j # i => values'[j] = values[j]
          /\ remaining' = remaining - 1
          /\ outcome' = IF remaining' = 0 /\ outcome = "pending" THEN AllDone ELSE outcome
          /\ lost' = lost /\ lost \in BOOLEAN
      BY <1>types, <2>5, <1>0 DEF remainingElementsCount_add, Settle, Unset, CombTypes
    <3>2. Done' = Done \cup {i}
      BY <1>0, <3>1 DEF Done, Created
    <3>3. CombTypes'
      BY <1>types, <1>bool, <3>1 DEF CombTypes, Outcome, AllDone
    <3>4. ItemsKnown'
      <4>1. \A j \in Items : j >= index' => values'[j] = Unset /\ ~Called(j)'
        BY <1>0, <2>3, <3>1 DEF CombInv, ItemsKnown, Called
      <4>2. \A j \in Items : values'[j] # Unset => j \in Counted'
        BY <2>1, <3>1 DEF CombInv, ItemsKnown
      <4>3. ~lost' => \A j \in Counted' : values'[j] # Unset
        <5>1. Counted \subseteq Items
          BY Zenon, Zenon DEF Counted, Created
        <5> QED
          BY <2>1, <3>1, <5>1 DEF CombInv, ItemsKnown
      <4>4. \A j \in Items : /\ values'[j] = "value" => j \in calledF'
                             /\ values'[j] = "reason" => j \in calledR'
        BY <1>0, <3>1 DEF CombInv, ItemsKnown
      <4>5. cmode' = "allSettled" /\ ~misused' => calledF' \cap calledR' = {}
        BY <1>0, <1>bool DEF CombInv, ItemsKnown
      <4> QED
        BY <1>0, <2>3, <4>1, <4>2, <4>3, <4>4, <4>5, Zenon DEF ItemsKnown
    <3>5. \E own \in {0, 1} : CountedWith(own)'
      <4>1. PICK own \in {0, 1} : CountedWith(own)
        BY <1>1 DEF CombInv
      <4>2. ~misused' => remaining' = Cardinality(Created' \ Done') + own
        <5> SUFFICES ASSUME ~misused'
                     PROVE  remaining' = Cardinality(Created' \ Done') + own
          OBVIOUS
        <5>1. Cardinality(Created' \ Done') = Cardinality(Created \ Done) - 1
          BY <1>0, <1>fin, <2>2, <3>2, Zenon
        <5>2. remaining = Cardinality(Created \ Done) + own
          BY <1>bool, <4>1 DEF CountedWith
        <5> QED
          BY <1>fin, <3>1, <5>1, <5>2
      <4>3. ~lost' => remaining' <= Cardinality(Created' \ Counted') + own
        <5> DEFINE n == Cardinality(Created \ Counted)
                   m == Cardinality(Created' \ Counted')
        <5> SUFFICES ASSUME ~lost'
                     PROVE  remaining' <= m + own
          OBVIOUS
        <5>1. i \in Counted => m = n
          <6> SUFFICES ASSUME i \in Counted
                       PROVE  Created' \ Counted' = Created \ Counted
            OBVIOUS
          <6> QED
            BY <1>0, <2>1
        <5>2. i \notin Counted => m = n - 1
          BY <1>0, <1>fin, <2>1, Zenon
        <5>3. remaining <= n + own /\ n \in Nat
          BY <1>fin, <3>1, <4>1 DEF CountedWith
        <5> HIDE DEF n, m
        <5> QED
          BY <1>types, <3>1, <5>1, <5>2, <5>3
      <4>4. outcome # "pending" => outcome' # "pending"
        BY <3>1
      <4> QED
        BY <1>0, <4>1, <4>2, <4>3, <4>4 DEF CountedWith
    <3>6. AllDone' = AllDone /\ AllDone \in {"fulfilled", "rejected"}
      BY <1>0 DEF AllDone
    <3>7. outcome' = "pending" => outcome = "pending" /\ remaining' >= 1
      BY <1>1, <1>types, <3>1, <3>6 DEF CombInv
    <3>8. outcome' = AllDone' /\ ~misused' => remaining' = 0
      BY <2>4, <3>1, <3>6
    <3> QED
      BY <1>0, <1>1, <3>3, <3>4, <3>5, <3>7, <3>8, Zenon DEF CombInv
  <2>6. CASE lost' = TRUE /\ UNCHANGED <<values, remaining, outcome>>
    <3>1. Done' = Done
      BY <1>0, <2>6, Zenon DEF Done
    <3>2. CombTypes'
      BY <1>types, <1>bool, <2>6 DEF CombTypes
    <3>3. lost'
      BY <2>6, Zenon
    <3>4. ItemsKnown'
      BY <1>0, <1>1, <1>bool, <2>1, <2>3, <2>6, <3>3, Zenon DEF CombInv, ItemsKnown, Called
    <3>5. \E own \in {0, 1} : CountedWith(own)'
      BY <1>0, <1>1, <1>bool, <2>6, <3>1, <3>3, Zenon DEF CombInv, CountedWith
    <3> QED
      BY <1>0, <1>1, <1>bool, <2>6, <3>2, <3>4, <3>5, Zenon DEF CombInv, AllDone
  <2> QED
    BY <2>0, <2>5, <2>6, Zenon DEF ElementDone
<1>2. CASE cmode \in {"any", "allSettled"} /\ i \in calledR
  <2>1. UNCHANGED <<values, remaining, outcome, lost, calledR>>
    BY <1>0, <1>2, Zenon DEF RejectElement
  <2>2. Done' = Done /\ Counted' = Counted
    BY <1>0, <2>1 DEF Done, Counted, Called
  <2>3. CombTypes'
    BY <1>0, <1>types, <1>bool, <2>1 DEF CombTypes
  <2>4. ItemsKnown'
    BY <1>0, <1>bool, <2>1, <2>2 DEF CombInv, ItemsKnown, Called
  <2>5. \E own \in {0, 1} : CountedWith(own)'
    BY <1>0, <1>2, <1>bool, <2>1, <2>2, Zenon DEF CombInv, CountedWith
  <2> QED
    BY <1>0, <1>2, <1>bool, <2>1, <2>3, <2>4, <2>5 DEF CombInv, AllDone
<1>3. CASE cmode \in {"all", "race"}
  <2>1. /\ UNCHANGED <<values, remaining, lost>>
        /\ outcome' = IF outcome = "pending" THEN "first_rejected" ELSE outcome
    BY <1>3, Zenon DEF RejectElement, Settle
  <2>2. Done' = Done /\ Counted' = Counted
    BY <1>0, <1>3, <2>1 DEF Done, Counted, Called
  <2>3. misused' <=> misused
    BY <1>bool, <1>3
  <2>4. CombTypes'
    BY <1>0, <1>types, <1>bool, <2>1 DEF CombTypes, Outcome
  <2>5. ItemsKnown'
    <3>1. \A j \in Items : j >= index => j # i
      BY <1>0, <1>types DEF Items
    <3> QED
      BY <1>0, <1>3, <2>1, <2>2, <2>3, <3>1 DEF CombInv, ItemsKnown, Called
  <2>6. cmode # "race" => \E own \in {0, 1} : CountedWith(own)'
    BY <1>0, <2>1, <2>2, <2>3 DEF CombInv, CountedWith
  <2> QED
    BY <1>0, <1>3, <1>bool, <2>1, <2>3, <2>4, <2>5, <2>6, Zenon DEF CombInv, AllDone
<1> QED
  BY <1>1, <1>2, <1>3, <1>types DEF Mode

\* The invariant holds in every state of a combinator.
LEMMA CombInductive == CombSpec => []CombInv
<1>1. CombInit => CombInv
  BY CombInitInv
<1>2. CombInv /\ [CombNext]_cvars => CombInv'
  <2> SUFFICES ASSUME CombInv, [CombNext]_cvars
               PROVE  CombInv'
    OBVIOUS
  <2>1. CASE js_promise_all \/ js_promise_race
    BY <2>1, NextItemInv, LoopStepInv DEF js_promise_all, js_promise_race, CombinatorStep
  <2>2. CASE \E i \in Items : FulfilElement(i) \/ RejectElement(i)
    BY <2>2, FulfilElementInv, RejectElementInv
  <2>3. CASE UNCHANGED cvars
    <3>1. Created' = Created /\ Done' = Done /\ Counted' = Counted /\ AllDone' = AllDone
      BY <2>3 DEF cvars, Created, Done, Counted, Called, AllDone
    <3>2. CombTypes' /\ ItemsKnown'
      BY <2>3, <3>1 DEF CombInv, cvars, CombTypes, ItemsKnown, Called
    <3>3. \A own : CountedWith(own) => CountedWith(own)'
      BY <2>3, <3>1 DEF cvars, CountedWith
    <3> QED
      BY <2>3, <3>1, <3>2, <3>3 DEF CombInv, cvars
  <2> QED
    BY <2>1, <2>2, <2>3 DEF CombNext
<1> QED
  BY <1>1, <1>2, PTL DEF CombSpec

\* The result promise of Promise.all, allSettled or any settles when every item
\* has put its own value in its place and not before, and the count that
\* decides it is exact, whenever and however often script calls the functions
\* of the items.
THEOREM CombinatorsCount == CombSpec => []CombinatorsExact
<1>1. CombInv => CombinatorsExact
  <2> SUFFICES ASSUME CombInv
               PROVE  CombinatorsExact
    OBVIOUS
  <2>0. CombTypes /\ ItemsKnown
    BY DEF CombInv
  <2>1. CountsRemaining
    <3> SUFFICES ASSUME ~misused, ~lost, cmode # "race"
                 PROVE  \E own \in {0, 1} :
                          /\ remaining = Cardinality(Created \ Counted) + own
                          /\ own = 0 => pc = "returned"
                          /\ own = 1 /\ pc = "returned" => outcome # "pending"
      BY DEF CountsRemaining
    <3>1. Done = Counted
      BY <2>0, Zenon DEF Done, Counted, ItemsKnown, Created
    <3> QED
      BY <3>1 DEF CombInv, CountedWith
  <2>2. SettlesWithAllValues
    <3> SUFFICES ASSUME outcome = AllDone, ~misused
                 PROVE  /\ pc = "returned"
                        /\ \A i \in Created :
                             /\ values[i] # Unset
                             /\ values[i] = "value" => i \in calledF
                             /\ values[i] = "reason" => i \in calledR
      BY DEF SettlesWithAllValues
    <3>1. cmode # "race" /\ remaining = 0
      BY DEF CombInv, AllDone
    <3>2. PICK own \in {0, 1} : CountedWith(own)
      BY <3>1 DEF CombInv
    <3>3. Cardinality(Created \ Done) \in Nat /\ remaining = Cardinality(Created \ Done) + own
      BY <2>0, <3>2, CreatedItems, TakeAway DEF CountedWith
    <3>4. own = 0 /\ Cardinality(Created \ Done) = 0
      BY <3>1, <3>3
    <3>5. Created \subseteq Done
      BY <2>0, <3>4, CreatedItems, TakeAway
    <3> QED
      BY <2>0, <3>2, <3>4, <3>5 DEF CountedWith, Done, ItemsKnown, Created
  <2>3. AnsweredMeansSettled
    <3> SUFFICES ASSUME pc = "returned", \A i \in Created : Called(i), ~lost, outcome = "pending"
                 PROVE  cmode = "race" /\ index = 0
      BY DEF AnsweredMeansSettled
    <3>1. CASE cmode = "race"
      <4>1. index > 0 => 0 \in Created
        BY <2>0, ItemsAssumption DEF CombTypes, Created, Items
      <4>2. Created = {}
        BY <3>1 DEF CombInv, Called
      <4> QED
        BY <2>0, <3>1, <4>1, <4>2 DEF CombTypes
    <3>2. CASE cmode # "race"
      <4>1. Created \subseteq Counted
        BY <2>0, <3>2, Zenon DEF CombInv, Counted, Called, CombTypes, Mode
      <4>2. Cardinality(Created \ Counted) = 0
        <5>1. Created \ Counted = {}
          BY <4>1
        <5> QED
          BY <5>1, FS_EmptySet
      <4>3. PICK own \in {0, 1} : CountedWith(own)
        BY <3>2 DEF CombInv
      <4>4. remaining \in Int /\ remaining >= 1
        BY <2>0, <3>2 DEF CombInv, CombTypes
      <4> QED
        BY <4>2, <4>3, <4>4 DEF CountedWith
    <3> QED
      BY <3>1, <3>2
  <2> QED
    BY <2>1, <2>2, <2>3 DEF CombinatorsExact
<1> QED
  BY <1>1, CombInductive, PTL

-----------------------------------------------------------------------------
(* Generators: the inductive invariant                                     *)

\* The body runs in the innermost call only; and as long as no delegate has
\* called the generator again there is one call at most, whose yield* is the
\* one on the stack.
GenInv ==
  /\ delegate \in Nat /\ calls \in Seq(Call)
  /\ reentered \in BOOLEAN /\ gfailed \in BOOLEAN
  /\ gstate = "executing" <=> Running
  /\ \A c \in 1..Len(calls) : calls[c].waits = "body" => c = Len(calls)
  /\ ~reentered =>
       /\ ~gfailed /\ Len(calls) <= 1
       /\ InDelegate => gstate = "yield_star" /\ delegate = Top.of

-----------------------------------------------------------------------------
(* Async generators: the inductive invariant                               *)

AGTypes ==
  /\ astate \in {"start", "yield", "yield_star", "executing", "awaiting_return", "completed"}
  /\ queue \in Seq([id : Nat, type : Type]) /\ made \in Nat
  /\ settled \in Seq([id : Nat, answer : Answer])
  /\ awaited \in {"none", "await", "return"}
  /\ frames \in Seq(Frame)
  /\ inner \in BOOLEAN /\ dropped \in BOOLEAN /\ afailed \in BOOLEAN

\* The body is the innermost frame, resumed by the loop below it.
BodyOnTop ==
  \A i \in 1..Len(frames) : frames[i] = "body" =>
    i = Len(frames) /\ i > 1 /\ frames[i - 1] = "loop" /\ astate = "executing"

\* What each state of the generator means for its requests.
StatesMean ==
  /\ astate = "executing" =>
       queue # <<>> /\ (InFrame("body") \/ InFrame("loop") \/ awaited = "await" \/ dropped)
  /\ astate = "awaiting_return" => awaited = "return" \/ dropped
  /\ astate \in {"start", "yield", "yield_star"} /\ queue # <<>> =>
       \E i \in 1..Len(frames) : frames[i] \in {"loop", "resolving"}

\* An answer that says the generator has ended is given by an ended one.
EndIsFinal ==
  \A i \in 1..Len(settled) :
    settled[i].answer # "yielded" => astate \in {"completed", "awaiting_return"}

\* Without a call from a 'then' getter the frames are those of one loop, and a
\* promise that is awaited belongs to the state.
OneLoop ==
  /\ frames \in {<<>>, <<"loop">>, <<"loop", "body">>, <<"resolving">>, <<"leaving">>}
  /\ awaited = "await" => astate = "executing" /\ frames = <<>>
  /\ awaited = "return" => /\ astate = "awaiting_return" /\ queue # <<>>
                           /\ frames \in {<<>>, <<"loop">>}

AGInv ==
  /\ AGTypes /\ AnsweredInOrder /\ BodyOnTop /\ EndIsFinal /\ NoValueAfterEnd
  /\ ~afailed => StatesMean
  /\ ~inner => ~afailed /\ OneLoop

-----------------------------------------------------------------------------
(* Stacks                                                                  *)

\* The frames that are left when the innermost ones have returned.
LEMMA Prefix ==
  ASSUME NEW S, NEW s \in Seq(S), NEW k \in Nat, k <= Len(s)
  PROVE  /\ SubSeq(s, 1, k) \in Seq(S) /\ Len(SubSeq(s, 1, k)) = k
         /\ \A i \in 1..k : SubSeq(s, 1, k)[i] = s[i]
<1>1. \A i \in 1..k : s[i] \in S
  BY ElementOfSeq, LenProperties
<1>2. /\ SubSeq(s, 1, k) \in Seq(S)
      /\ Len(SubSeq(s, 1, k)) = IF 1 <= k THEN k - 1 + 1 ELSE 0
      /\ \A i \in 1..(k - 1 + 1) : SubSeq(s, 1, k)[i] = s[1 + i - 1]
  BY <1>1, SubSeqProperties
<1> QED
  BY <1>2

\* A call is pushed.
LEMMA Pushed ==
  ASSUME NEW S, NEW s \in Seq(S), NEW e \in S
  PROVE  /\ Append(s, e) \in Seq(S) /\ Len(Append(s, e)) = Len(s) + 1
         /\ \A i \in 1..Len(s) : Append(s, e)[i] = s[i]
         /\ Append(s, e)[Len(s) + 1] = e /\ Append(s, e) # <<>>
BY LenProperties, AppendProperties

-----------------------------------------------------------------------------
(* Generators                                                              *)

\* GenInv holds of a generator that has just been created.
LEMMA GenInitInv == GenInit => GenInv
<1>1. GenInit => calls \in Seq(Call) /\ Len(calls) = 0 /\ ~Running /\ ~InDelegate
  BY EmptySeq DEF GenInit, Running, InDelegate
<1>2. GenInit => reentered \in BOOLEAN /\ gfailed \in BOOLEAN /\ ~gfailed
  BY Zenon DEF GenInit
<1>3. GenInit => gstate # "executing" /\ delegate \in Nat
  BY DEF GenInit
<1> QED
  BY <1>1, <1>2, <1>3 DEF GenInv

\* A call of next(), return() or throw() keeps it, from wherever it is made.
LEMMA GenCallInv ==
  ASSUME GenInv, NEW magic \in Magic, js_generator_next(magic)
  PROVE  GenInv'
<1>0. /\ delegate \in Nat /\ calls \in Seq(Call) /\ Len(calls) \in Nat
      /\ \A c \in 1..Len(calls) : calls[c] \in Call
  BY LenProperties, ElementOfSeq DEF GenInv
<1>1. reentered' \in BOOLEAN /\ gfailed' = gfailed /\ gfailed \in BOOLEAN
  <2>1. reentered' = (reentered \/ \E c \in 1..Len(calls) : calls[c].waits # "body")
    BY Zenon DEF js_generator_next
  <2>2. reentered' \in BOOLEAN
    BY <2>1, Zenon
  <2> QED
    BY <2>2 DEF GenInv, js_generator_next
<1>2. ASSUME ~reentered'
      PROVE  ~reentered /\ ~gfailed' /\ \A c \in 1..Len(calls) : calls[c].waits = "body"
  <2>1. reentered' <=> reentered \/ \E c \in 1..Len(calls) : calls[c].waits # "body"
    BY Zenon DEF js_generator_next
  <2> QED
    BY <1>1, <1>2, <2>1, Zenon DEF GenInv
<1>3. CASE UNCHANGED calls /\ (gstate' = "executing" <=> gstate = "executing")
           /\ delegate' \in Nat /\ (gstate = "executing" => delegate' = delegate)
  <2>1. ~reentered' => Len(calls') <= 1 /\ ~InDelegate'
    BY <1>0, <1>2, <1>3 DEF GenInv, InDelegate
  <2> QED
    BY <1>0, <1>1, <1>2, <1>3, <2>1, Zenon DEF GenInv, Running
<1>4. ASSUME NEW waits \in {"body", "method", "close"}, NEW of \in Nat, Push(waits, magic, of),
             gstate # "executing", delegate' \in Nat,
             gstate' = "executing" <=> waits = "body",
             waits # "body" => gstate' = "yield_star" /\ delegate' = of
      PROVE  GenInv'
  <2> DEFINE e == [waits |-> waits, magic |-> magic, of |-> of]
  <2>1. e \in Call /\ calls' = Append(calls, e) /\ e.waits = waits /\ e.of = of
    BY <1>4 DEF Push, Call
  <2> HIDE DEF e
  <2>2. /\ calls' \in Seq(Call) /\ Len(calls') = Len(calls) + 1 /\ calls' # <<>>
        /\ \A i \in 1..Len(calls) : calls'[i] = calls[i]
        /\ calls'[Len(calls')] = e
    BY <1>0, <2>1, Pushed
  <2>3. \A c \in 1..Len(calls) : calls[c].waits # "body"
    <3>1. ~Running
      BY <1>4 DEF GenInv
    <3> QED
      BY <1>0, <3>1 DEF GenInv, Running
  <2>4. \A c \in 1..Len(calls') : calls'[c].waits = "body" => c = Len(calls')
    BY <1>0, <2>2, <2>3
  <2>5. ASSUME ~reentered' PROVE Len(calls') <= 1
    <3>1. \A c \in 1..Len(calls) : FALSE
      BY <1>2, <2>3, <2>5
    <3> QED
      BY <1>0, <2>2, <3>1
  <2> QED
    BY <1>1, <1>2, <1>4, <2>1, <2>2, <2>4, <2>5, Zenon DEF GenInv, Running, InDelegate, Top
<1>5. CASE NextStart(magic)
  <2>1. CASE magic = "next"
    BY <1>0, <1>4, <1>5, <2>1 DEF NextStart
  <2>2. CASE magic # "next"
    BY <1>0, <1>3, <1>5, <2>2 DEF NextStart, free_generator_stack
  <2> QED
    BY <2>1, <2>2
<1>6. CASE NextYield(magic)
  BY <1>0, <1>4, <1>6, Zenon DEF NextYield
<1>7. CASE NextYieldStar(magic)
  <2>1. CASE Push("method", magic, delegate) /\ UNCHANGED <<gstate, delegate>>
    BY <1>0, <1>4, <1>7, <2>1, Zenon DEF NextYieldStar
  <2>2. CASE Push("close", magic, delegate) /\ UNCHANGED <<gstate, delegate>>
    BY <1>0, <1>4, <1>7, <2>2, Zenon DEF NextYieldStar
  <2>3. CASE gstate' = "executing" /\ delegate' = 0 /\ Push("body", magic, 0)
    BY <1>0, <1>4, <1>7, <2>3 DEF NextYieldStar
  <2> QED
    BY <1>7, <2>1, <2>2, <2>3, Zenon DEF NextYieldStar
<1>8. CASE NextCompleted(magic)
  BY <1>0, <1>3, <1>8 DEF NextCompleted
<1>9. CASE NextExecuting(magic)
  BY <1>0, <1>3, <1>9 DEF NextExecuting
<1> QED
  BY <1>5, <1>6, <1>7, <1>8, <1>9 DEF js_generator_next

\* The innermost call returns, and the body does not run any more.
LEMMA GenReturnInv ==
  ASSUME GenInv, calls # <<>>, Pop, UNCHANGED <<reentered, gfailed>>,
         gstate' # "executing", delegate' \in Nat,
         Running \/ (gstate' = gstate /\ delegate' = delegate)
  PROVE  GenInv'
<1>0. /\ calls \in Seq(Call) /\ Len(calls) \in Nat \ {0}
  BY LenProperties, EmptySeq DEF GenInv
<1>1. /\ calls' \in Seq(Call) /\ Len(calls') = Len(calls) - 1
      /\ \A i \in 1..Len(calls') : calls'[i] = calls[i]
  <2>1. Len(calls) - 1 \in Nat /\ Len(calls) - 1 <= Len(calls)
    BY <1>0
  <2> QED
    BY <1>0, <2>1, Prefix, Zenon DEF Pop
<1>2. \A c \in 1..Len(calls') : calls'[c].waits # "body"
  BY <1>0, <1>1 DEF GenInv
<1>3. ~Running'
  BY <1>0, <1>1, <1>2, EmptySeq DEF Running
<1>4. ~reentered' => Len(calls') = 0
  BY <1>0, <1>1 DEF GenInv
<1>5. ~reentered' => calls' = <<>>
  BY <1>1, <1>4, EmptySeq, Zenon
<1> QED
  BY <1>1, <1>2, <1>3, <1>4, <1>5 DEF GenInv, InDelegate

\* The innermost call waits for something else than before.
LEMMA GenReplaceInv ==
  ASSUME GenInv, calls # <<>>, NEW waits \in {"body", "method", "close"}, NEW of \in Nat,
         calls' = [calls EXCEPT ![Len(calls)] = [@ EXCEPT !.waits = waits, !.of = of]],
         reentered' = reentered, gfailed' \in BOOLEAN, ~reentered => ~gfailed', delegate' \in Nat,
         gstate' = "executing" <=> waits = "body",
         waits # "body" => gstate' = "yield_star" /\ delegate' = of
  PROVE  GenInv'
<1>0. /\ calls \in Seq(Call) /\ Len(calls) \in Nat \ {0}
  BY LenProperties, EmptySeq DEF GenInv
<1> DEFINE n == Len(calls)  e == [calls[n] EXCEPT !.waits = waits, !.of = of]
<1>1. calls[n] \in Call /\ n \in 1..n
  BY <1>0, ElementOfSeq
<1>2. e \in Call /\ e.waits = waits /\ e.of = of
  BY <1>1, Zenon DEF Call
<1>3. calls' = [calls EXCEPT ![n] = e]
  OBVIOUS
<1>4. n \in Nat \ {0}
  BY <1>0
<1> HIDE DEF e
<1>5. /\ calls' \in Seq(Call) /\ Len(calls') = n
      /\ \A j \in 1..n : calls'[j] = IF j = n THEN e ELSE calls[j]
  BY <1>0, <1>1, <1>2, <1>3, ExceptSeq
<1>6. calls' # <<>> /\ calls'[Len(calls')] = e
  BY <1>1, <1>4, <1>5, EmptySeq
<1>7. \A c \in 1..Len(calls') : calls'[c].waits = "body" => c = Len(calls')
  BY <1>4, <1>5 DEF GenInv
<1> QED
  BY <1>2, <1>5, <1>6, <1>7 DEF GenInv, Running, InDelegate, Top

\* Every step of a generator and of the code around it keeps GenInv.
LEMMA GenInductive == GenSpec => []GenInv
<1>1. ASSUME GenInv, [GenNext]_gvars PROVE GenInv'
  <2>0. /\ calls \in Seq(Call) /\ delegate \in Nat /\ reentered \in BOOLEAN /\ gfailed \in BOOLEAN
    BY <1>1 DEF GenInv
  <2>1. CASE UNCHANGED gvars
    BY <1>1, <2>1 DEF gvars, GenInv, Running, InDelegate, Top
  <2>2. CASE GenNext
    <3>1. CASE \E magic \in Magic : js_generator_next(magic)
      BY <1>1, <3>1, GenCallInv
    <3>2. CASE BodyYields
      BY <1>1, <2>0, <3>2, GenReturnInv DEF BodyYields, Running
    <3>3. ASSUME NEW of \in 1..2, BodyDelegates(of) PROVE GenInv'
      <4>1. of \in Nat /\ calls # <<>>
        BY <3>3 DEF BodyDelegates, Running
      <4>2. ~reentered => ~gfailed
        BY <1>1, Zenon DEF GenInv
      <4>3. CASE calls' = [calls EXCEPT ![Len(calls)] = [@ EXCEPT !.waits = "method", !.of = of]]
        BY <1>1, <2>0, <3>3, <4>1, <4>2, <4>3, GenReplaceInv, ZenonT(30) DEF BodyDelegates
      <4>4. CASE calls' = [calls EXCEPT ![Len(calls)] = [@ EXCEPT !.waits = "close", !.of = of]]
        BY <1>1, <2>0, <3>3, <4>1, <4>2, <4>4, GenReplaceInv, Zenon DEF BodyDelegates
      <4> QED
        BY <3>3, <4>3, <4>4 DEF BodyDelegates
    <3>4. ASSUME NEW how \in {"done", "thrown"}, BodyEnds(how) PROVE GenInv'
      <4>1. calls # <<>> /\ Running /\ Pop /\ UNCHANGED <<reentered, gfailed>>
        BY <3>4 DEF BodyEnds, Running
      <4>2. gstate' # "executing" /\ delegate' \in Nat
        BY <3>4 DEF BodyEnds, free_generator_stack
      <4> QED
        BY <1>1, <4>1, <4>2, GenReturnInv
    <3>5. CASE MethodYields
      <4>1. gstate # "executing"
        BY <1>1, <3>5, Zenon DEF MethodYields, GenInv, InDelegate, Running
      <4> QED
        BY <1>1, <2>0, <3>5, <4>1, GenReturnInv, Zenon DEF MethodYields, InDelegate
    <3>6. CASE ResumeBody
      <4> DEFINE n == Len(calls)
      <4>1. calls # <<>> /\ calls[n].of \in Nat /\ calls[n] \in Call
        <5>1. calls # <<>>
          BY <3>6 DEF ResumeBody, InDelegate
        <5>2. n \in 1..n
          BY <2>0, <5>1, LenProperties, EmptySeq
        <5>3. calls[n] \in Call
          BY <2>0, <5>2, ElementOfSeq
        <5> QED
          BY <5>1, <5>3 DEF Call
      <4>2. calls' = [calls EXCEPT ![n] = [@ EXCEPT !.waits = "body", !.of = calls[n].of]]
        <5>1. calls' = [calls EXCEPT ![n] = [calls[n] EXCEPT !.waits = "body"]]
          BY <3>6 DEF ResumeBody, Replace
        <5>2. [calls[n] EXCEPT !.waits = "body"] = [calls[n] EXCEPT !.waits = "body", !.of = calls[n].of]
          BY <4>1, Zenon DEF Call
        <5> QED
          BY <5>1, <5>2, Zenon
      <4>3. gfailed' \in BOOLEAN /\ (gfailed' <=> gfailed \/ Stale)
        BY <3>6, Zenon DEF ResumeBody
      <4>4. ~reentered => ~gfailed'
        BY <1>1, <3>6, <4>3 DEF GenInv, Stale, ResumeBody
      <4> QED
        BY <1>1, <3>6, <4>1, <4>2, <4>3, <4>4, GenReplaceInv, Zenon DEF ResumeBody
    <3> QED
      BY <2>2, <3>1, <3>2, <3>3, <3>4, <3>5, <3>6 DEF GenNext
  <2> QED
    BY <1>1, <2>1, <2>2
<1> QED
  BY <1>1, GenInitInv, PTL DEF GenSpec

\* The two promises of js_generator_next follow.
LEMMA GenInvMeans == GenInv => BodyRunsAlone /\ DelegateStackKept
<1> SUFFICES ASSUME GenInv PROVE BodyRunsAlone /\ DelegateStackKept
  OBVIOUS
<1>1. \A c, d \in Bodies : c = d
  BY DEF GenInv, Bodies
<1>2. Running => Len(calls) \in Bodies
  BY LenProperties, EmptySeq DEF GenInv, Running, Bodies
<1>3. Bodies # {} => Running
  <2> SUFFICES ASSUME NEW c \in Bodies PROVE Running
    OBVIOUS
  <2>1. c \in 1..Len(calls) /\ calls[c].waits = "body" /\ c = Len(calls)
    BY DEF GenInv, Bodies
  <2>2. calls # <<>>
    BY <2>1, EmptySeq
  <2> QED
    BY <2>1, <2>2 DEF Running
<1>4. (gstate = "executing") <=> (Bodies # {})
  BY <1>2, <1>3 DEF GenInv
<1> QED
  BY <1>1, <1>4 DEF BodyRunsAlone, DelegateStackKept, GenInv

-----------------------------------------------------------------------------
(* Async generators: requests and answers                                  *)

Ended == {"completed", "awaiting_return"}
Requests == [id : Nat, type : Type]
Answers == [id : Nat, answer : Answer]

\* AGInv holds of an async generator that has just been created.
LEMMA AGInitInv == AsyncGenInit => AGInv
<1> SUFFICES ASSUME AsyncGenInit PROVE AGInv
  OBVIOUS
<1>1. inner \in BOOLEAN /\ dropped \in BOOLEAN /\ afailed \in BOOLEAN /\ ~afailed
  BY Zenon DEF AsyncGenInit
<1>2. queue \in Seq([id : Nat, type : Type]) /\ settled \in Seq([id : Nat, answer : Answer]) /\ frames \in Seq(Frame)
  BY EmptySeq, Zenon DEF AsyncGenInit
<1>3. Len(queue) = 0 /\ Len(settled) = 0 /\ Len(frames) = 0
  BY EmptySeq DEF AsyncGenInit
<1>4. AGTypes
  BY <1>1, <1>2 DEF AsyncGenInit, AGTypes
<1>5. AnsweredInOrder /\ BodyOnTop /\ EndIsFinal /\ NoValueAfterEnd
  BY <1>3 DEF AsyncGenInit, AnsweredInOrder, BodyOnTop, EndIsFinal, NoValueAfterEnd
<1>6. StatesMean /\ OneLoop
  BY DEF AsyncGenInit, StatesMean, OneLoop
<1> QED
  BY <1>1, <1>4, <1>5, <1>6 DEF AGInv

\* Requests and answers as they were, and an ended generator stays ended.
LEMMA AnswersKept ==
  ASSUME AGInv, UNCHANGED <<queue, made, settled>>, astate \in Ended => astate' \in Ended
  PROVE  /\ queue' \in Seq(Requests) /\ made' \in Nat /\ settled' \in Seq(Answers)
         /\ AnsweredInOrder' /\ EndIsFinal' /\ NoValueAfterEnd'
<1>1. AnsweredInOrder' /\ NoValueAfterEnd'
  BY DEF AGInv, AnsweredInOrder, NoValueAfterEnd
<1>2. EndIsFinal'
  BY DEF AGInv, EndIsFinal, Ended
<1> QED
  BY <1>1, <1>2 DEF AGInv, AGTypes, Requests, Answers

\* js_async_generator_resolve_or_reject answers the first request.
LEMMA AnswerGiven ==
  ASSUME AGInv, NEW answer \in Answer, js_async_generator_resolve_or_reject(answer),
         made' = made, astate \in Ended => astate' \in Ended,
         answer # "yielded" => astate' \in Ended, answer = "yielded" => astate = "executing"
  PROVE  /\ queue' \in Seq(Requests) /\ made' \in Nat /\ settled' \in Seq(Answers)
         /\ afailed' \in BOOLEAN /\ (queue # <<>> => afailed' = afailed)
         /\ AnsweredInOrder' /\ EndIsFinal' /\ NoValueAfterEnd'
<1>0. /\ queue \in Seq(Requests) /\ made \in Nat /\ settled \in Seq(Answers) /\ afailed \in BOOLEAN
      /\ Len(queue) \in Nat /\ Len(settled) \in Nat
  BY LenProperties DEF AGInv, AGTypes, Requests, Answers
<1>1. CASE queue = <<>>
  <2>1. afailed' \in BOOLEAN /\ UNCHANGED <<queue, settled>>
    BY <1>1, Zenon DEF js_async_generator_resolve_or_reject
  <2> QED
    BY <1>0, <1>1, <2>1, AnswersKept
<1>2. CASE queue # <<>>
  <2>0. Len(queue) \in Nat \ {0}
    BY <1>0, <1>2, EmptySeq
  <2> DEFINE e == [id |-> queue[1].id, answer |-> answer]
  <2>1. queue[1] \in Requests /\ queue[1].id = Len(settled) + 1
    BY <1>0, <2>0, ElementOfSeq DEF AGInv, AnsweredInOrder
  <2>2. e \in Answers /\ e.id = Len(settled) + 1 /\ e.answer = answer
    BY <2>1 DEF Answers, Requests
  <2>3. settled' = Append(settled, e) /\ queue' = Tail(queue) /\ afailed' = afailed
    BY <1>2 DEF js_async_generator_resolve_or_reject
  <2> HIDE DEF e
  <2>4. /\ settled' \in Seq(Answers) /\ Len(settled') = Len(settled) + 1
        /\ \A i \in 1..Len(settled) : settled'[i] = settled[i]
        /\ settled'[Len(settled) + 1] = e
    BY <1>0, <2>2, <2>3, Pushed
  <2>5. /\ queue' \in Seq(Requests) /\ Len(queue') = Len(queue) - 1
        /\ \A i \in 1..Len(queue') : queue'[i] = queue[i + 1]
    BY <1>0, <1>2, <2>3, HeadTailProperties
  <2>6. AnsweredInOrder'
    <3>1. ASSUME NEW i \in 1..Len(settled') PROVE settled'[i].id = i
      <4>1. CASE i \in 1..Len(settled)
        BY <2>4, <4>1 DEF AGInv, AnsweredInOrder
      <4>2. CASE i = Len(settled) + 1
        BY <2>2, <2>4, <4>2
      <4> QED
        BY <1>0, <2>4, <4>1, <4>2
    <3>2. Len(settled') + Len(queue') = made'
      <4>1. Len(settled) + Len(queue) = made
        BY DEF AGInv, AnsweredInOrder
      <4>2. Len(settled') = Len(settled) + 1 /\ Len(queue') = Len(queue) - 1 /\ made' = made
        BY <2>4, <2>5
      <4>3. \A m, n \in Nat : (m + 1) + (n - 1) = m + n
        OBVIOUS
      <4> QED
        BY <1>0, <4>1, <4>2, <4>3, Zenon
    <3>3. ASSUME NEW i \in 1..Len(queue') PROVE queue'[i].id = Len(settled') + i
      <4>1. i + 1 \in 1..Len(queue) /\ queue'[i] = queue[i + 1]
        BY <1>0, <2>0, <2>5
      <4>2. queue[i + 1].id = Len(settled) + (i + 1)
        BY <4>1 DEF AGInv, AnsweredInOrder
      <4> QED
        BY <1>0, <2>4, <4>1, <4>2
    <3> QED
      BY <3>1, <3>2, <3>3 DEF AnsweredInOrder
  <2>9. Len(settled) \in Nat /\ Len(settled') = Len(settled) + 1
    BY <1>0, <2>4, Zenon
  <2>7. EndIsFinal'
    <3>1. astate \in Ended => astate' \in Ended
      OBVIOUS
    <3> SUFFICES ASSUME NEW i \in 1..Len(settled'), settled'[i].answer # "yielded"
                 PROVE  astate' \in Ended
      BY DEF EndIsFinal, Ended
    <3>0. i \in 1..Len(settled) \/ i = Len(settled) + 1
      BY <2>9
    <3>2. CASE i \in 1..Len(settled)
      BY <2>4, <3>1, <3>2, Zenon DEF AGInv, EndIsFinal, Ended
    <3>3. CASE i = Len(settled) + 1
      BY <2>2, <2>4, <3>3, Zenon
    <3> QED
      BY <3>0, <3>2, <3>3, Zenon
  <2>8. NoValueAfterEnd'
    <3> SUFFICES ASSUME NEW i \in 1..Len(settled'), NEW j \in 1..Len(settled'),
                        i < j, settled'[i].answer # "yielded"
                 PROVE  settled'[j].answer # "yielded"
      BY DEF NoValueAfterEnd
    <3>1. i \in 1..Len(settled) /\ settled[i].answer # "yielded"
      BY <1>0, <2>4
    <3>0. j \in 1..Len(settled) \/ j = Len(settled) + 1
      BY <2>9
    <3>2. CASE j \in 1..Len(settled)
      BY <2>4, <3>1, <3>2, Zenon DEF AGInv, NoValueAfterEnd
    <3>3. CASE j = Len(settled) + 1
      <4>1. astate \in {"completed", "awaiting_return"}
        BY <3>1 DEF AGInv, EndIsFinal
      <4> QED
        BY <2>2, <2>4, <3>3, <4>1, Zenon
    <3> QED
      BY <3>0, <3>2, <3>3, Zenon
  <2> QED
    BY <1>0, <2>3, <2>4, <2>5, <2>6, <2>7, <2>8, Zenon
<1> QED
  BY <1>1, <1>2

-----------------------------------------------------------------------------
(* Async generators: frames                                                *)

NoBody(s) == \A i \in 1..Len(s) : s[i] # "body"

\* What AGInv says of the frames, and of what is left when the innermost one
\* returns.
LEMMA FrameFacts ==
  ASSUME AGInv
  PROVE  /\ frames \in Seq(Frame) /\ Len(frames) \in Nat
         /\ ~InFrame("body") => NoBody(frames)
         /\ frames # <<>> =>
              /\ Len(frames) >= 1
              /\ Outer \in Seq(Frame) /\ Len(Outer) = Len(frames) - 1 /\ NoBody(Outer)
              /\ \A i \in 1..Len(Outer) : Outer[i] = frames[i]
         /\ InFrame("body") =>
              /\ astate = "executing" /\ Len(frames) >= 2
              /\ SubSeq(frames, 1, Len(frames) - 2) \in Seq(Frame)
              /\ NoBody(SubSeq(frames, 1, Len(frames) - 2))
<1>0. frames \in Seq(Frame) /\ Len(frames) \in Nat /\ BodyOnTop
  BY LenProperties DEF AGInv, AGTypes
<1>1. ~InFrame("body") => NoBody(frames)
  BY <1>0, EmptySeq DEF InFrame, NoBody, BodyOnTop
<1>2. ASSUME frames # <<>>
      PROVE  /\ Len(frames) >= 1
             /\ Outer \in Seq(Frame) /\ Len(Outer) = Len(frames) - 1 /\ NoBody(Outer)
             /\ \A i \in 1..Len(Outer) : Outer[i] = frames[i]
  <2>1. Len(frames) >= 1 /\ Len(frames) - 1 \in Nat /\ Len(frames) - 1 <= Len(frames)
    BY <1>0, <1>2, EmptySeq
  <2>2. /\ Outer \in Seq(Frame) /\ Len(Outer) = Len(frames) - 1
        /\ \A i \in 1..Len(Outer) : Outer[i] = frames[i]
    BY <1>0, <2>1, Prefix, Zenon DEF Outer
  <2>3. NoBody(Outer)
    BY <1>0, <2>2 DEF NoBody, BodyOnTop
  <2> QED
    BY <2>1, <2>2, <2>3
<1>3. ASSUME InFrame("body")
      PROVE  /\ astate = "executing" /\ Len(frames) >= 2
             /\ SubSeq(frames, 1, Len(frames) - 2) \in Seq(Frame)
             /\ NoBody(SubSeq(frames, 1, Len(frames) - 2))
  <2>1. Len(frames) \in 1..Len(frames) /\ frames[Len(frames)] = "body"
    BY <1>0, <1>3, EmptySeq DEF InFrame
  <2>2. astate = "executing" /\ Len(frames) > 1
    BY <1>0, <2>1 DEF BodyOnTop
  <2>3. Len(frames) - 2 \in Nat /\ Len(frames) - 2 <= Len(frames)
    BY <1>0, <2>2
  <2> DEFINE s == SubSeq(frames, 1, Len(frames) - 2)
  <2>4. /\ s \in Seq(Frame) /\ Len(s) = Len(frames) - 2
        /\ \A i \in 1..(Len(frames) - 2) : s[i] = frames[i]
    BY <1>0, <2>3, Prefix, Zenon
  <2> HIDE DEF s
  <2>5. NoBody(s)
    BY <1>0, <2>4 DEF NoBody, BodyOnTop
  <2> QED
    BY <1>0, <2>2, <2>4, <2>5 DEF s
<1> QED
  BY <1>0, <1>1, <1>2, <1>3

\* A frame that is not the body on top of frames that are not.
LEMMA PushFrame ==
  ASSUME NEW s \in Seq(Frame), NoBody(s), NEW f \in Frame, f # "body"
  PROVE  /\ Append(s, f) \in Seq(Frame) /\ NoBody(Append(s, f))
         /\ Append(s, f)[Len(Append(s, f))] = f /\ Append(s, f) # <<>>
         /\ Len(Append(s, f)) \in 1..Len(Append(s, f))
<1>1. Len(s) \in Nat
  BY LenProperties
<1> DEFINE t == Append(s, f)
<1>2. /\ t \in Seq(Frame) /\ Len(t) = Len(s) + 1 /\ t # <<>>
      /\ \A i \in 1..Len(s) : t[i] = s[i]
      /\ t[Len(s) + 1] = f
  BY Pushed
<1> HIDE DEF t
<1>3. NoBody(t) /\ t[Len(t)] = f /\ Len(t) \in 1..Len(t)
  BY <1>1, <1>2 DEF NoBody
<1> QED
  BY <1>2, <1>3 DEF t

\* Frames without the body satisfy BodyOnTop.
LEMMA NoBodyOnTop == NoBody(frames)' => BodyOnTop'
BY DEF NoBody, BodyOnTop

\* The frames of one loop, by the innermost one.
LEMMA OneLoopFrames ==
  ASSUME OneLoop
  PROVE  /\ InFrame("loop") => frames = <<"loop">> /\ Outer = <<>>
         /\ InFrame("body") => frames = <<"loop", "body">> /\ SubSeq(frames, 1, Len(frames) - 2) = <<>>
         /\ InFrame("resolving") => frames = <<"resolving">> /\ Outer = <<>>
         /\ InFrame("leaving") => frames = <<"leaving">> /\ Outer = <<>>
<1>1. /\ InFrame("loop") => frames = <<"loop">>
      /\ InFrame("body") => frames = <<"loop", "body">>
      /\ InFrame("resolving") => frames = <<"resolving">>
      /\ InFrame("leaving") => frames = <<"leaving">>
  BY DEF OneLoop, InFrame
<1>2. /\ frames = <<"loop">> \/ frames = <<"resolving">> \/ frames = <<"leaving">> => Len(frames) = 1
      /\ frames = <<"loop", "body">> => Len(frames) = 2
  OBVIOUS
<1>3. SubSeq(frames, 1, 0) = <<>>
  BY SubSeqEmpty
<1>4. /\ Len(frames) = 1 => SubSeq(frames, 1, Len(frames) - 1) = <<>>
      /\ Len(frames) = 2 => SubSeq(frames, 1, Len(frames) - 2) = <<>>
  <2>1. 1 - 1 = 0 /\ 2 - 2 = 0
    OBVIOUS
  <2> QED
    BY <1>3, <2>1, Zenon
<1> QED
  BY <1>1, <1>2, <1>4, Zenon DEF Outer

\* One frame.
LEMMA FirstFrame == \A f : Append(<<>>, f) = <<f>>
OBVIOUS

-----------------------------------------------------------------------------
(* Async generators: the steps                                             *)

\* The types, with the names used below.
LEMMA AGFacts ==
  ASSUME AGInv
  PROVE  /\ astate \in {"start", "yield", "yield_star", "executing", "awaiting_return", "completed"}
         /\ queue \in Seq(Requests) /\ made \in Nat /\ settled \in Seq(Answers)
         /\ awaited \in {"none", "await", "return"}
         /\ inner \in BOOLEAN /\ dropped \in BOOLEAN /\ afailed \in BOOLEAN
         /\ Len(queue) \in Nat /\ Len(settled) \in Nat
         /\ ~afailed => StatesMean
         /\ ~inner => ~afailed /\ OneLoop
BY LenProperties DEF AGInv, AGTypes, Requests, Answers

\* js_async_generator_next puts a request at the end of the queue.
LEMMA AGCallInv ==
  ASSUME AGInv, ~afailed, NEW type \in Type, js_async_generator_next(type)
  PROVE  AGInv'
<1>0. /\ queue \in Seq(Requests) /\ made \in Nat /\ settled \in Seq(Answers)
      /\ Len(queue) \in Nat /\ Len(settled) \in Nat /\ inner \in BOOLEAN
      /\ StatesMean /\ (~inner => OneLoop)
  BY AGFacts
<1>u. UNCHANGED <<astate, settled, awaited, awaits, dropped, afailed>>
  BY DEF js_async_generator_next
<1>1. /\ inner' \in BOOLEAN
      /\ inner' <=> inner \/ \E i \in 1..Len(frames) : frames[i] \in {"resolving", "leaving"}
  BY Zenon DEF js_async_generator_next
<1> DEFINE e == [id |-> made + 1, type |-> type]
<1>2. e \in Requests /\ e.id = made + 1 /\ queue' = Append(queue, e) /\ made' = made + 1
  BY <1>0 DEF Requests, js_async_generator_next
<1> HIDE DEF e
<1>3. /\ queue' \in Seq(Requests) /\ Len(queue') = Len(queue) + 1 /\ queue' # <<>>
      /\ \A i \in 1..Len(queue) : queue'[i] = queue[i]
      /\ queue'[Len(queue) + 1] = e
  BY <1>0, <1>2, Pushed
<1>4. AnsweredInOrder'
  <2>1. Len(settled) + Len(queue) = made /\ settled' = settled
    BY <1>u DEF AGInv, AnsweredInOrder
  <2>2. Len(settled') + Len(queue') = made'
    <3>1. \A m, n \in Nat : m + (n + 1) = (m + n) + 1
      OBVIOUS
    <3>2. Len(queue') = Len(queue) + 1
      BY <1>3
    <3> QED
      BY <1>0, <1>2, <2>1, <3>1, <3>2, Zenon
  <2>3. ASSUME NEW i \in 1..Len(queue') PROVE queue'[i].id = Len(settled') + i
    <3>1. CASE i \in 1..Len(queue)
      BY <1>3, <2>1, <3>1 DEF AGInv, AnsweredInOrder
    <3>2. CASE i = Len(queue) + 1
      <4>1. queue'[i].id = made + 1
        BY <1>2, <1>3, <3>2
      <4> QED
        BY <1>0, <2>1, <3>2, <4>1
    <3> QED
      BY <1>0, <1>3, <3>1, <3>2
  <2> QED
    BY <2>1, <2>2, <2>3, Zenon DEF AGInv, AnsweredInOrder
<1>5. EndIsFinal' /\ NoValueAfterEnd'
  BY <1>u DEF AGInv, EndIsFinal, NoValueAfterEnd
<1>6. CASE astate = "executing"
  <2>1. frames' = frames
    BY <1>6 DEF js_async_generator_next
  <2>2. BodyOnTop'
    BY <1>u, <2>1 DEF AGInv, BodyOnTop
  <2>3. StatesMean'
    BY <1>0, <1>u, <1>3, <1>6, <2>1, Zenon DEF StatesMean, InFrame
  <2>4. ASSUME ~inner' PROVE OneLoop'
    BY <1>0, <1>u, <1>1, <1>6, <2>1, <2>4, Zenon DEF OneLoop
  <2>5. AGTypes'
    BY <1>u, <1>1, <1>2, <1>0, <1>3, <2>1, Zenon DEF AGInv, AGTypes, Requests
  <2> QED
    BY <1>u, <1>4, <1>5, <2>2, <2>3, <2>4, <2>5, ZenonT(30) DEF AGInv
<1>7. CASE astate # "executing"
  <2>1. frames' = Append(frames, "loop")
    BY <1>7 DEF js_async_generator_next
  <2>2. frames \in Seq(Frame) /\ NoBody(frames)
    BY <1>7, FrameFacts
  <2>3. /\ frames' \in Seq(Frame) /\ NoBody(frames')
        /\ frames'[Len(frames')] = "loop" /\ Len(frames') \in 1..Len(frames')
    BY <2>1, <2>2, PushFrame DEF Frame
  <2>4. BodyOnTop'
    BY <2>3, NoBodyOnTop DEF NoBody
  <2>5. StatesMean'
    BY <1>0, <1>u, <1>7, <2>3, Zenon DEF StatesMean
  <2>6. ASSUME ~inner' PROVE OneLoop'
    <3>1. OneLoop /\ \A i \in 1..Len(frames) : frames[i] \notin {"resolving", "leaving"}
      BY <1>0, <1>1, <2>6, Zenon
    <3>2. ~InFrame("loop") /\ ~InFrame("body")
      BY <1>7, FrameFacts DEF js_async_generator_next, ScriptRuns
    <3>3. frames = <<>>
      <4>1. frames # <<"loop">> /\ frames # <<"loop", "body">>
        BY <3>2, SMTT(30) DEF InFrame
      <4>2. frames # <<"resolving">> /\ frames # <<"leaving">>
        BY <3>1
      <4> QED
        BY <3>1, <4>1, <4>2 DEF OneLoop
    <3>4. frames' = <<"loop">>
      BY <2>1, <3>3, FirstFrame
    <3> QED
      BY <1>u, <1>3, <1>7, <3>1, <3>4, Zenon DEF OneLoop
  <2>7. AGTypes'
    BY <1>u, <1>1, <1>2, <1>0, <1>3, <2>3, ZenonT(30) DEF AGInv, AGTypes, Requests
  <2> QED
    BY <1>u, <1>4, <1>5, <2>4, <2>5, <2>6, <2>7, SMTT(30) DEF AGInv
<1> QED
  BY <1>6, <1>7

\* A step that answers nothing and leaves the state as it is, or changes it from
\* one that has not ended.
LEMMA AGFramesInv ==
  ASSUME AGInv, UNCHANGED <<queue, made, settled, inner>>,
         astate' \in {"start", "yield", "yield_star", "executing", "awaiting_return", "completed"},
         awaited' \in {"none", "await", "return"}, dropped' \in BOOLEAN, afailed' \in BOOLEAN,
         astate \in Ended => astate' \in Ended,
         frames' \in Seq(Frame), BodyOnTop', ~afailed' => StatesMean', ~inner => ~afailed' /\ OneLoop'
  PROVE  AGInv'
<1>1. /\ queue' \in Seq(Requests) /\ made' \in Nat /\ settled' \in Seq(Answers)
      /\ AnsweredInOrder' /\ EndIsFinal' /\ NoValueAfterEnd'
  BY AnswersKept
<1>2. inner' \in BOOLEAN /\ inner' = inner
  BY DEF AGInv, AGTypes
<1>3. AGTypes'
  BY <1>1, <1>2, Zenon DEF AGTypes, Requests, Answers
<1>4. ~inner' => ~afailed' /\ OneLoop'
  BY <1>2
<1> QED
  BY <1>1, <1>3, <1>4, Zenon DEF AGInv

\* A 'then' getter returns.
LEMMA ThenReturnsInv ==
  ASSUME AGInv, ~afailed, ThenReturns
  PROVE  AGInv'
<1>0. StatesMean /\ (~inner => OneLoop) /\ inner \in BOOLEAN
  BY AGFacts
<1>u. UNCHANGED <<astate, queue, made, settled, awaited, awaits, inner, dropped, afailed>>
  BY DEF ThenReturns
<1>f. frames # <<>> /\ ~InFrame("body") /\ ~InFrame("loop")
  BY DEF ThenReturns, InFrame
<1>1. /\ Outer \in Seq(Frame) /\ NoBody(Outer) /\ Len(Outer) = Len(frames) - 1
      /\ Len(frames) \in Nat /\ Len(frames) >= 1
      /\ \A i \in 1..Len(Outer) : Outer[i] = frames[i]
  BY <1>f, FrameFacts
<1>2. CASE InFrame("resolving") /\ Goto("loop")
  <2>1. /\ frames' \in Seq(Frame) /\ NoBody(frames') /\ frames' # <<>>
        /\ frames'[Len(frames')] = "loop" /\ Len(frames') \in 1..Len(frames')
    BY <1>1, <1>2, PushFrame DEF Goto, Frame
  <2>2. BodyOnTop'
    BY <2>1, NoBodyOnTop DEF NoBody
  <2>3. StatesMean'
    BY <1>0, <1>u, <2>1 DEF StatesMean, InFrame
  <2>4. ASSUME ~inner PROVE OneLoop'
    <3>1. OneLoop /\ frames = <<"resolving">> /\ Outer = <<>>
      BY <1>0, <1>2, <2>4, OneLoopFrames
    <3>2. frames' = <<"loop">>
      BY <1>2, <3>1, FirstFrame, Zenon DEF Goto
    <3>3. awaited # "await" /\ awaited # "return"
      BY <3>1 DEF OneLoop
    <3> QED
      BY <1>u, <3>2, <3>3 DEF OneLoop
  <2> QED
    BY <1>u, <2>1, <2>2, <2>3, <2>4, AGFacts, AGFramesInv, Zenon
<1>3. CASE InFrame("leaving") /\ frames' = Outer
  <2>1. BodyOnTop'
    BY <1>1, <1>3, NoBodyOnTop, Zenon DEF NoBody
  <2>2. ASSUME NEW i \in 1..Len(frames), frames[i] \in {"loop", "resolving"}
        PROVE  \E j \in 1..Len(frames') : frames'[j] \in {"loop", "resolving"}
    <3>1. i # Len(frames)
      BY <1>3, <2>2 DEF InFrame
    <3>2. i \in 1..Len(Outer) /\ Outer[i] = frames[i]
      BY <1>1, <3>1
    <3> QED
      BY <1>3, <2>2, <3>2
  <2>3. StatesMean'
    BY <1>0, <1>u, <1>f, <2>2, Zenon DEF StatesMean
  <2>4. ASSUME ~inner PROVE OneLoop'
    <3>1. OneLoop /\ frames = <<"leaving">> /\ Outer = <<>>
      BY <1>0, <1>3, <2>4, OneLoopFrames, Zenon
    <3>2. awaited # "await" /\ awaited # "return"
      BY <3>1 DEF OneLoop
    <3> QED
      BY <1>u, <1>3, <3>1, <3>2, Zenon DEF OneLoop
  <2> QED
    BY <1>u, <1>1, <1>3, <2>1, <2>3, <2>4, AGFacts, AGFramesInv, Zenon
<1> QED
  BY <1>2, <1>3 DEF ThenReturns

\* The loop ends.
LEMMA LoopEndsInv ==
  ASSUME AGInv, ~afailed, LoopEnds
  PROVE  AGInv'
<1>0. StatesMean /\ (~inner => OneLoop)
  BY AGFacts
<1>u. UNCHANGED <<astate, queue, made, settled, awaited, awaits, inner, dropped, afailed>>
  BY DEF LoopEnds
<1>1. frames' = Outer /\ frames # <<>> /\ InFrame("loop") /\ (queue = <<>> \/ astate = "awaiting_return")
  BY DEF LoopEnds, InFrame
<1>2. frames' \in Seq(Frame) /\ NoBody(frames')
  BY <1>1, FrameFacts
<1>3. BodyOnTop'
  BY <1>2, NoBodyOnTop DEF NoBody
<1>4. StatesMean'
  BY <1>0, <1>u, <1>1 DEF StatesMean
<1>5. ASSUME ~inner PROVE OneLoop'
  <2>1. OneLoop /\ frames = <<"loop">> /\ Outer = <<>>
    BY <1>0, <1>1, <1>5, OneLoopFrames
  <2> QED
    BY <1>u, <1>1, <2>1 DEF OneLoop
<1> QED
  BY <1>u, <1>2, <1>3, <1>4, <1>5, AGFacts, AGFramesInv, Zenon

\* The loop enters the body, which becomes the innermost frame.
LEMMA EnterBody ==
  ASSUME AGInv, InFrame("loop"), frames' = Append(frames, "body"), astate' = "executing",
         queue # <<>>, queue' = queue
  PROVE  /\ frames' \in Seq(Frame) /\ BodyOnTop' /\ StatesMean'
         /\ OneLoop => frames' = <<"loop", "body">>
<1>1. /\ frames \in Seq(Frame) /\ Len(frames) \in Nat /\ Len(frames) >= 1
      /\ \A i \in 1..Len(frames) : frames[i] # "body"
  BY FrameFacts DEF InFrame, NoBody
<1>2. /\ frames' \in Seq(Frame) /\ Len(frames') = Len(frames) + 1 /\ frames' # <<>>
      /\ \A i \in 1..Len(frames) : frames'[i] = frames[i]
      /\ frames'[Len(frames) + 1] = "body"
  BY <1>1, Pushed DEF Frame
<1>3. ASSUME NEW i \in 1..Len(frames'), frames'[i] = "body"
      PROVE  i = Len(frames') /\ i > 1 /\ frames'[i - 1] = "loop"
  <2>1. i = Len(frames) + 1
    BY <1>1, <1>2, <1>3
  <2>2. i - 1 = Len(frames) /\ Len(frames) \in 1..Len(frames)
    BY <1>1, <2>1
  <2> QED
    BY <1>1, <1>2, <2>1, <2>2 DEF InFrame
<1>4. BodyOnTop'
  BY <1>3 DEF BodyOnTop
<1>5. StatesMean'
  BY <1>2 DEF StatesMean, InFrame
<1>6. OneLoop => frames' = <<"loop", "body">>
  <2> SUFFICES ASSUME OneLoop PROVE frames' = <<"loop", "body">>
    OBVIOUS
  <2>1. frames = <<"loop">>
    BY OneLoopFrames
  <2>2. Len(frames) = 1 /\ frames[1] = "loop"
    BY <2>1
  <2>3. Len(frames') = 2 /\ frames'[1] = "loop" /\ frames'[2] = "body"
    BY <1>2, <2>2
  <2> DEFINE t == <<"loop", "body">>
  <2>4. t \in Seq(Frame) /\ Len(t) = 2 /\ t[1] = "loop" /\ t[2] = "body"
    BY DEF Frame
  <2> HIDE DEF t
  <2>5. \A i \in 1..Len(t) : frames'[i] = t[i]
    BY <2>3, <2>4
  <2>6. frames' = t
    BY <1>2, <2>3, <2>4, <2>5, SeqEqual
  <2> QED
    BY <2>6, Zenon DEF t
<1> QED
  BY <1>2, <1>4, <1>5, <1>6

\* The body goes on after an await.
LEMMA LoopExecutingInv ==
  ASSUME AGInv, ~afailed, LoopExecuting
  PROVE  AGInv'
<1>u. UNCHANGED <<astate, queue, made, settled, awaited, awaits, inner, dropped>>
  BY DEF LoopExecuting
<1>1. InFrame("loop") /\ frames' = Append(frames, "body") /\ astate = "executing" /\ queue # <<>>
  BY DEF LoopExecuting
<1>2. /\ frames' \in Seq(Frame) /\ BodyOnTop' /\ StatesMean'
      /\ OneLoop => frames' = <<"loop", "body">>
  BY <1>u, <1>1, EnterBody
<1>3. afailed' \in BOOLEAN /\ (afailed' <=> awaited = "await")
  BY Zenon DEF LoopExecuting
<1>4. ASSUME ~inner PROVE ~afailed' /\ OneLoop'
  <2>1. OneLoop /\ frames # <<>>
    BY <1>1, <1>4, AGFacts DEF InFrame
  <2>2. awaited # "await" /\ awaited # "return"
    BY <1>1, <2>1 DEF OneLoop
  <2> QED
    BY <1>u, <1>2, <1>3, <2>1, <2>2 DEF OneLoop
<1> QED
  BY <1>u, <1>2, <1>3, <1>4, AGFacts, AGFramesInv, Zenon

\* The body starts, or goes on after a yield.
LEMMA LoopResumesInv ==
  ASSUME AGInv, ~afailed, LoopResumes
  PROVE  AGInv'
<1>u. UNCHANGED <<queue, made, settled, awaited, awaits, inner, dropped, afailed>>
  BY DEF LoopResumes
<1>1. /\ InFrame("loop") /\ frames' = Append(frames, "body") /\ queue # <<>>
      /\ astate \in {"start", "yield", "yield_star"} /\ astate' = "executing"
  BY DEF LoopResumes
<1>2. /\ frames' \in Seq(Frame) /\ BodyOnTop' /\ StatesMean'
      /\ OneLoop => frames' = <<"loop", "body">>
  BY <1>u, <1>1, EnterBody
<1>3. ASSUME ~inner PROVE OneLoop'
  <2>1. OneLoop
    BY <1>3, AGFacts
  <2>2. awaited # "await" /\ awaited # "return"
    BY <1>1, <2>1 DEF OneLoop
  <2> QED
    BY <1>u, <1>2, <2>1, <2>2 DEF OneLoop
<1>4. astate \notin Ended
  BY <1>1 DEF Ended
<1> QED
  BY <1>u, <1>1, <1>2, <1>3, <1>4, AGFacts, AGFramesInv, Zenon

\* return() or throw() ends a generator that has not started.
LEMMA LoopCompletesInv ==
  ASSUME AGInv, ~afailed, LoopCompletes
  PROVE  AGInv'
<1>u. UNCHANGED <<queue, made, settled, awaited, frames, awaits, inner, dropped, afailed>>
  BY DEF LoopCompletes
<1>1. InFrame("loop") /\ ~InFrame("body") /\ astate = "start" /\ astate' = "completed"
  BY DEF LoopCompletes, js_async_generator_complete, InFrame
<1>2. frames' \in Seq(Frame) /\ NoBody(frames')
  BY <1>u, <1>1, FrameFacts
<1>3. BodyOnTop' /\ StatesMean'
  BY <1>1, <1>2, NoBodyOnTop DEF NoBody, StatesMean
<1>4. ASSUME ~inner PROVE OneLoop'
  <2>1. OneLoop
    BY <1>4, AGFacts
  <2> QED
    BY <1>u, <1>1, <2>1 DEF OneLoop
<1>5. astate \notin Ended
  BY <1>1 DEF Ended
<1> QED
  BY <1>u, <1>1, <1>2, <1>3, <1>4, <1>5, AGFacts, AGFramesInv, ZenonT(30)

\* A step that answers the first request.
LEMMA AGAnswerInv ==
  ASSUME AGInv, ~afailed, NEW answer \in Answer, js_async_generator_resolve_or_reject(answer),
         UNCHANGED <<made, inner, dropped>>, ~inner => queue # <<>>,
         astate' \in {"start", "yield", "yield_star", "executing", "awaiting_return", "completed"},
         awaited' \in {"none", "await", "return"},
         astate \in Ended => astate' \in Ended,
         answer # "yielded" => astate' \in Ended, answer = "yielded" => astate = "executing",
         frames' \in Seq(Frame), BodyOnTop', StatesMean', ~inner => OneLoop'
  PROVE  AGInv'
<1>1. /\ queue' \in Seq(Requests) /\ made' \in Nat /\ settled' \in Seq(Answers)
      /\ afailed' \in BOOLEAN /\ (queue # <<>> => afailed' = afailed)
      /\ AnsweredInOrder' /\ EndIsFinal' /\ NoValueAfterEnd'
  BY AnswerGiven
<1>2. inner' \in BOOLEAN /\ inner' = inner /\ dropped' \in BOOLEAN
  BY DEF AGInv, AGTypes
<1>3. AGTypes'
  BY <1>1, <1>2, Zenon DEF AGTypes, Requests, Answers
<1>4. ~inner' => ~afailed' /\ OneLoop'
  BY <1>1, <1>2
<1> QED
  BY <1>1, <1>3, <1>4, Zenon DEF AGInv

\* One request of a generator that has ended.
LEMMA LoopCompletedInv ==
  ASSUME AGInv, ~afailed, LoopCompleted
  PROVE  AGInv'
<1>1. InFrame("loop") /\ frames # <<>> /\ queue # <<>> /\ astate = "completed" /\ UNCHANGED <<made, awaits, inner>>
  BY DEF LoopCompleted, InFrame
<1>2. Outer \in Seq(Frame) /\ NoBody(Outer)
  BY <1>1, FrameFacts
<1>3. ASSUME ~inner
      PROVE  OneLoop /\ Outer = <<>> /\ awaited # "await" /\ awaited # "return"
  <2>1. OneLoop
    BY <1>3, AGFacts
  <2> QED
    BY <1>1, <2>1, OneLoopFrames DEF OneLoop
<1>4. "completed" \in Ended /\ "awaiting_return" \in Ended /\ "done" \in Answer /\ "rejected" \in Answer
  BY DEF Ended, Answer
<1>5. CASE queue[1].type = "next"
  <2>1. /\ js_async_generator_resolve_or_reject("done") /\ frames' = Append(Outer, "leaving")
        /\ UNCHANGED <<astate, awaited, dropped>>
    BY <1>5 DEF LoopCompleted, Goto
  <2>2. frames' \in Seq(Frame) /\ NoBody(frames')
    BY <1>2, <2>1, PushFrame, Zenon DEF Frame
  <2>3. BodyOnTop' /\ StatesMean'
    BY <1>1, <2>1, <2>2, NoBodyOnTop, Zenon DEF NoBody, StatesMean
  <2>4. ASSUME ~inner PROVE OneLoop'
    <3>1. frames' = <<"leaving">>
      BY <1>3, <2>1, <2>4, FirstFrame, Zenon
    <3> QED
      BY <1>3, <2>1, <2>4, <3>1 DEF OneLoop
  <2> QED
    BY <1>1, <1>4, <2>1, <2>2, <2>3, <2>4, AGFacts, AGAnswerInv, Zenon
<1>6. CASE queue[1].type = "throw"
  <2>1. /\ js_async_generator_resolve_or_reject("rejected") /\ frames' = Outer
        /\ UNCHANGED <<astate, awaited, dropped>>
    BY <1>6 DEF LoopCompleted
  <2>2. BodyOnTop' /\ StatesMean'
    BY <1>1, <1>2, <2>1, NoBodyOnTop DEF NoBody, StatesMean
  <2>3. ASSUME ~inner PROVE OneLoop'
    BY <1>3, <2>1, <2>3, Zenon DEF OneLoop
  <2> QED
    BY <1>1, <1>2, <1>4, <2>1, <2>2, <2>3, AGFacts, AGAnswerInv, ZenonT(30)
<1>7. CASE queue[1].type = "return"
  <2>1. /\ astate' = "awaiting_return" /\ frames' = Outer /\ js_async_generator_completed_return
        /\ UNCHANGED <<queue, settled, afailed>>
    BY <1>7 DEF LoopCompleted
  <2>2. /\ awaited' \in {"none", "await", "return"} /\ dropped' \in BOOLEAN
        /\ awaited' = "return" \/ dropped'
        /\ awaited' = "return" \/ awaited' = awaited
    BY <2>1, AGFacts, Zenon DEF js_async_generator_completed_return
  <2>3. BodyOnTop' /\ StatesMean'
    BY <1>1, <1>2, <2>1, <2>2, NoBodyOnTop, Zenon DEF NoBody, StatesMean
  <2>4. ASSUME ~inner PROVE OneLoop'
    BY <1>1, <1>3, <2>1, <2>2, <2>4, Zenon DEF OneLoop
  <2> QED
    BY <1>1, <1>2, <1>4, <2>1, <2>2, <2>3, <2>4, AGFacts, AGFramesInv, ZenonT(30)
<1>8. queue[1].type \in {"next", "throw", "return"}
  <2>0. queue \in Seq(Requests)
    BY AGFacts
  <2>1. Len(queue) \in Nat \ {0} /\ 1 \in 1..Len(queue)
    BY <1>1, <2>0, EmptySeq
  <2>2. queue[1] \in Requests
    BY <2>0, <2>1, ElementOfSeq
  <2> QED
    BY <2>2 DEF Requests, Type
<1> QED
  BY <1>5, <1>6, <1>7, <1>8, Zenon

\* What holds while the body runs, and of the frames below it and its loop.
LEMMA BodyFacts ==
  ASSUME AGInv, ~afailed, InFrame("body")
  PROVE  /\ astate = "executing" /\ queue # <<>> /\ astate \notin Ended
         /\ SubSeq(frames, 1, Len(frames) - 2) \in Seq(Frame)
         /\ NoBody(SubSeq(frames, 1, Len(frames) - 2))
         /\ ~inner => /\ SubSeq(frames, 1, Len(frames) - 2) = <<>>
                      /\ awaited # "await" /\ awaited # "return"
<1>1. /\ astate = "executing"
      /\ SubSeq(frames, 1, Len(frames) - 2) \in Seq(Frame)
      /\ NoBody(SubSeq(frames, 1, Len(frames) - 2))
  BY FrameFacts
<1>2. queue # <<>>
  BY <1>1, AGFacts DEF StatesMean
<1>3. ASSUME ~inner
      PROVE  /\ SubSeq(frames, 1, Len(frames) - 2) = <<>>
             /\ awaited # "await" /\ awaited # "return"
  <2>1. OneLoop /\ frames # <<>>
    BY <1>3, AGFacts DEF InFrame
  <2>2. SubSeq(frames, 1, Len(frames) - 2) = <<>>
    BY <2>1, OneLoopFrames
  <2> QED
    BY <1>1, <2>1, <2>2 DEF OneLoop
<1> QED
  BY <1>1, <1>2, <1>3 DEF Ended

\* The body yields: the first request gets the value.
LEMMA AsyncBodyYieldsInv ==
  ASSUME AGInv, ~afailed, NEW state \in {"yield", "yield_star"}, AsyncBodyYields(state)
  PROVE  AGInv'
<1> DEFINE s == SubSeq(frames, 1, Len(frames) - 2)
<1>1. /\ InFrame("body") /\ astate' = state /\ js_async_generator_resolve_or_reject("yielded")
      /\ frames' = Append(s, "resolving") /\ UNCHANGED <<made, awaited, awaits, inner, dropped>>
  BY DEF AsyncBodyYields
<1>2. /\ astate = "executing" /\ queue # <<>> /\ astate \notin Ended /\ s \in Seq(Frame) /\ NoBody(s)
      /\ ~inner => s = <<>> /\ awaited # "await" /\ awaited # "return"
  BY <1>1, BodyFacts
<1> HIDE DEF s
<1>3. /\ frames' \in Seq(Frame) /\ NoBody(frames')
      /\ frames'[Len(frames')] = "resolving" /\ Len(frames') \in 1..Len(frames')
  BY <1>1, <1>2, PushFrame DEF Frame
<1>4. BodyOnTop' /\ StatesMean'
  BY <1>1, <1>3, NoBodyOnTop DEF NoBody, StatesMean
<1>5. ASSUME ~inner PROVE OneLoop'
  <2>1. frames' = <<"resolving">>
    BY <1>1, <1>2, <1>5, FirstFrame, Zenon
  <2> QED
    BY <1>1, <1>2, <1>5, <2>1, Zenon DEF OneLoop
<1>6. "yielded" \in Answer
  BY DEF Answer
<1> QED
  BY <1>1, <1>2, <1>3, <1>4, <1>5, <1>6, AGFacts, AGAnswerInv, ZenonT(30)

\* The body awaits: the state stays EXECUTING, the promise is awaited.
LEMMA AsyncBodyAwaitsInv ==
  ASSUME AGInv, ~afailed, AsyncBodyAwaits
  PROVE  AGInv'
<1> DEFINE s == SubSeq(frames, 1, Len(frames) - 2)
<1>1. /\ InFrame("body") /\ js_async_generator_await /\ frames' = s
      /\ UNCHANGED <<astate, queue, made, settled, inner, afailed>>
  BY DEF AsyncBodyAwaits
<1>2. /\ astate = "executing" /\ queue # <<>> /\ s \in Seq(Frame) /\ NoBody(s)
      /\ ~inner => s = <<>> /\ awaited # "await" /\ awaited # "return"
  BY <1>1, BodyFacts
<1> HIDE DEF s
<1>3. /\ awaited' \in {"none", "await", "return"} /\ dropped' \in BOOLEAN
      /\ awaited' = "await" \/ dropped'
      /\ awaited' = "await" \/ awaited' = awaited
  BY <1>1, AGFacts, Zenon DEF js_async_generator_await
<1>4. BodyOnTop' /\ StatesMean'
  BY <1>1, <1>2, <1>3, NoBodyOnTop DEF NoBody, StatesMean
<1>5. ASSUME ~inner PROVE OneLoop'
  BY <1>1, <1>2, <1>3, <1>5 DEF OneLoop
<1> QED
  BY <1>1, <1>2, <1>3, <1>4, <1>5, AGFacts, AGFramesInv, Zenon

\* The body returns or throws: the generator has ended.
LEMMA AsyncBodyEndsInv ==
  ASSUME AGInv, ~afailed, NEW answer \in {"done", "rejected"}, AsyncBodyEnds(answer)
  PROVE  AGInv'
<1> DEFINE s == SubSeq(frames, 1, Len(frames) - 2)
           f == IF answer = "done" THEN "resolving" ELSE "loop"
<1>1. /\ InFrame("body") /\ astate' = "completed" /\ js_async_generator_resolve_or_reject(answer)
      /\ frames' = Append(s, f) /\ UNCHANGED <<made, awaited, awaits, inner, dropped>>
  BY DEF AsyncBodyEnds, js_async_generator_complete
<1>2. /\ astate = "executing" /\ queue # <<>> /\ s \in Seq(Frame) /\ NoBody(s)
      /\ ~inner => s = <<>> /\ awaited # "await" /\ awaited # "return"
  BY <1>1, BodyFacts
<1>3. f \in {"resolving", "loop"} /\ f \in Frame /\ f # "body"
  BY DEF Frame
<1> HIDE DEF s, f
<1>4. frames' \in Seq(Frame) /\ NoBody(frames')
  BY <1>1, <1>2, <1>3, PushFrame
<1>5. BodyOnTop' /\ StatesMean'
  BY <1>1, <1>4, NoBodyOnTop DEF NoBody, StatesMean
<1>6. ASSUME ~inner PROVE OneLoop'
  <2>1. frames' = <<f>>
    BY <1>1, <1>2, <1>6, FirstFrame, Zenon
  <2>2. frames' \in {<<"resolving">>, <<"loop">>}
    BY <1>3, <2>1
  <2> QED
    BY <1>1, <1>2, <1>6, <2>2, Zenon DEF OneLoop
<1>7. answer \in Answer /\ astate' \in Ended /\ answer # "yielded"
  BY <1>1 DEF Answer, Ended
<1> QED
  BY <1>1, <1>2, <1>4, <1>5, <1>6, <1>7, AGFacts, AGAnswerInv, ZenonT(30)

\* The awaited promise is settled, and the loop resumes the body.
LEMMA AwaitSettlesInv ==
  ASSUME AGInv, ~afailed, AwaitSettles
  PROVE  AGInv'
<1>1. /\ frames = <<>> /\ awaited = "await" /\ awaited' = "none" /\ frames' = <<"loop">>
      /\ UNCHANGED <<astate, queue, made, settled, awaits, inner, dropped>>
  BY DEF AwaitSettles
<1>2. afailed' \in BOOLEAN /\ (afailed' <=> astate # "executing")
  BY Zenon DEF AwaitSettles
<1>3. frames' \in Seq(Frame) /\ NoBody(frames') /\ InFrame("loop")'
  BY <1>1 DEF Frame, NoBody, InFrame
<1>4. BodyOnTop'
  BY <1>3, NoBodyOnTop DEF NoBody
<1>5. ~afailed' => StatesMean'
  BY <1>1, <1>2, <1>3, AGFacts DEF StatesMean
<1>6. ASSUME ~inner PROVE ~afailed' /\ OneLoop'
  <2>1. OneLoop
    BY <1>6, AGFacts
  <2> QED
    BY <1>1, <1>2, <2>1 DEF OneLoop
<1> QED
  BY <1>1, <1>2, <1>3, <1>4, <1>5, <1>6, AGFacts, AGFramesInv, ZenonT(30)

\* The awaited value of a return() is settled, and answers the request.
LEMMA ReturnSettlesInv ==
  ASSUME AGInv, ~afailed, NEW answer \in {"done", "rejected"}, ReturnSettles(answer)
  PROVE  AGInv'
<1>1. /\ frames = <<>> /\ awaited = "return" /\ astate' = "completed" /\ awaited' = "none"
      /\ frames' = (IF answer = "done" THEN <<"leaving">> ELSE <<>>)
      /\ UNCHANGED <<made, awaits, inner, dropped>>
  BY DEF ReturnSettles
<1>2. frames' \in {<<"leaving">>, <<>>}
  BY <1>1
<1>3. frames' \in Seq(Frame) /\ NoBody(frames')
  <2>1. CASE frames' = <<"leaving">>
    BY <2>1 DEF Frame, NoBody
  <2>2. CASE frames' = <<>>
    BY <2>2, EmptySeq DEF NoBody
  <2> QED
    BY <1>2, <2>1, <2>2, Zenon
<1>4. BodyOnTop' /\ StatesMean'
  BY <1>1, <1>3, NoBodyOnTop DEF NoBody, StatesMean
<1>5. ASSUME ~inner PROVE OneLoop' /\ astate = "awaiting_return" /\ queue # <<>>
  <2>1. OneLoop
    BY <1>5, AGFacts, Zenon
  <2> QED
    BY <1>1, <1>2, <2>1, Zenon DEF OneLoop
<1>6. answer \in Answer /\ astate' \in Ended /\ answer # "yielded"
  BY <1>1 DEF Answer, Ended
<1>7. CASE astate \in {"awaiting_return", "completed"}
  <2>1. js_async_generator_resolve_or_reject(answer)
    BY <1>7 DEF ReturnSettles
  <2> QED
    BY <1>1, <1>3, <1>4, <1>5, <1>6, <2>1, AGFacts, AGAnswerInv, Zenon
<1>8. CASE astate \notin {"awaiting_return", "completed"}
  <2>1. afailed' \in BOOLEAN /\ UNCHANGED <<settled, queue>>
    BY <1>8, Zenon DEF ReturnSettles
  <2>2. inner
    BY <1>5, <1>8
  <2> QED
    BY <1>1, <1>3, <1>4, <1>6, <2>1, <2>2, AGFacts, AGFramesInv, ZenonT(30)
<1> QED
  BY <1>7, <1>8

\* Every step of an async generator, of the code around it and of the jobs it
\* waits for keeps AGInv.
LEMMA AGInductive == AsyncGenSpec => []AGInv
<1>1. ASSUME AGInv, [AsyncGenNext]_avars PROVE AGInv'
  <2>1. CASE UNCHANGED avars
    BY <1>1, <2>1 DEF avars, AGInv, AGTypes, AnsweredInOrder, BodyOnTop, EndIsFinal, NoValueAfterEnd,
       StatesMean, OneLoop, InFrame
  <2>2. CASE AsyncGenNext
    <3>0. ~afailed
      BY <2>2 DEF AsyncGenNext
    <3>1. CASE \E type \in Type : js_async_generator_next(type)
      BY <1>1, <3>0, <3>1, AGCallInv, Zenon
    <3>2. CASE Loop
      BY <1>1, <3>0, <3>2, LoopEndsInv, LoopExecutingInv, LoopResumesInv, LoopCompletesInv,
         LoopCompletedInv, ThenReturnsInv, ZenonT(30) DEF Loop
    <3>3. CASE Body
      BY <1>1, <3>0, <3>3, AsyncBodyYieldsInv, AsyncBodyAwaitsInv, AsyncBodyEndsInv, Zenon DEF Body
    <3>4. CASE Jobs
      BY <1>1, <3>0, <3>4, AwaitSettlesInv, ReturnSettlesInv, Zenon DEF Jobs
    <3> QED
      BY <2>2, <3>1, <3>2, <3>3, <3>4, Zenon DEF AsyncGenNext
  <2> QED
    BY <1>1, <2>1, <2>2
<1> QED
  BY <1>1, AGInitInv, PTL DEF AsyncGenSpec

\* Between jobs a request that waits has something that will answer it.
LEMMA AGInvMeans ==
  AGInv => AnsweredInOrder /\ ResumedByTheAwait /\ RequestsAwaitSomething /\ NoValueAfterEnd
<1> SUFFICES ASSUME AGInv
             PROVE  AnsweredInOrder /\ ResumedByTheAwait /\ RequestsAwaitSomething /\ NoValueAfterEnd
  OBVIOUS
<1>1. RequestsAwaitSomething
  <2> SUFFICES ASSUME frames = <<>>, queue # <<>>, ~afailed,
                      astate # "completed", ~dropped
               PROVE  \/ astate = "executing" /\ awaited = "await"
                      \/ astate = "awaiting_return" /\ awaited = "return"
    BY DEF RequestsAwaitSomething
  <2>1. StatesMean /\ astate \in {"start", "yield", "yield_star", "executing", "awaiting_return", "completed"}
    BY AGFacts
  <2>2. ~\E i \in 1..Len(frames) : frames[i] \in {"loop", "resolving"}
    BY EmptySeq
  <2> QED
    BY <2>1, <2>2 DEF StatesMean, InFrame
<1>2. ResumedByTheAwait
  BY AGFacts DEF ResumedByTheAwait
<1> QED
  BY <1>1, <1>2 DEF AGInv

\* js_generator_next and js_async_generator_resume_next keep their protocol, for
\* any nesting of calls and any number of requests, awaits and jobs: one
\* activation of the body at a time, the stack of a yield* found as it was
\* left unless its iterator called the generator again, requests answered in
\* the order of the calls and each once, no value after the end, and something
\* that answers each request that waits.
THEOREM GeneratorsKeepProtocol == GenSpec /\ AsyncGenSpec => []GeneratorsExact
<1>1. GenInv /\ AGInv => GeneratorsExact
  BY GenInvMeans, AGInvMeans DEF GeneratorsExact
<1> QED
  BY <1>1, GenInductive, AGInductive, PTL
=============================================================================
