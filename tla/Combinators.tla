------------------------------ MODULE Combinators ------------------------------
(***************************************************************************)
(* Promise.all, Promise.allSettled, Promise.any and Promise.race of        *)
(* quickjs.c.                                                              *)
(*                                                                         *)
(* The combinator walks an iterator.  For every item it calls the 'then'   *)
(* of a promise, which is script code: it may call the functions it is     *)
(* given at once, later, never, or more than once.                         *)
(***************************************************************************)
EXTENDS Integers, FiniteSets

CONSTANT MaxItems  \* how many items the iterator gives

ASSUME ItemsAssumption == MaxItems \in Nat

Mode == {"all", "allSettled", "any", "race"}  \* PROMISE_MAGIC_x, and race
Items == 0..(MaxItems - 1)
Unset == "unset"

VARIABLES
  cmode,     \* which combinator is called
  pc,        \* "next", "then", "close", "returned": where the combinator is
  index,     \* the items that got their functions
  remaining, \* remainingElementsCount
  calledF,   \* the items whose fulfilment function was called: alreadyCalled
  calledR,   \* the items whose rejection function was called
  values,    \* the array of results
  outcome,   \* the result promise: "pending", or how it was settled
  misused,   \* whether both functions of an item of allSettled were called
  lost       \* whether an element function failed for lack of memory

cvars == <<cmode, pc, index, remaining, calledF, calledR, values, outcome, misused, lost>>

\* How the promise was settled: with the array of values, by one item, or by an
\* exception of the combinator.
Outcome == {"pending", "fulfilled", "rejected", "first_fulfilled", "first_rejected", "error"}

CombTypeOK ==
  /\ cmode \in Mode
  /\ pc \in {"next", "then", "close", "returned"}
  /\ index \in 0..MaxItems
  /\ remaining \in -MaxItems..(MaxItems + 1)
  /\ calledF \in SUBSET Items /\ calledR \in SUBSET Items
  /\ values \in [Items -> {Unset, "value", "reason"}]
  /\ outcome \in Outcome
  /\ misused \in BOOLEAN /\ lost \in BOOLEAN

CombInit ==
  /\ cmode \in Mode
  /\ pc = "next" /\ index = 0 /\ remaining = 1
  /\ calledF = {} /\ calledR = {}
  /\ values = [i \in Items |-> Unset]
  /\ outcome = "pending" /\ misused = FALSE /\ lost = FALSE

\* The functions of the capability: the first call settles the promise.
Settle(how) == outcome' = IF outcome = "pending" THEN how ELSE outcome

\* What the count reaching zero does: resolving_funcs[is_promise_any].
AllDone == IF cmode = "any" THEN "rejected" ELSE "fulfilled"

remainingElementsCount_add(addend) ==
  /\ remaining' = remaining + addend
  /\ IF remaining' = 0 THEN Settle(AllDone) ELSE UNCHANGED outcome

-----------------------------------------------------------------------------
(* The loop of js_promise_all and js_promise_race.                         *)

\* Mutant of NextItem: the item is not counted before its 'then' runs.
NextItemUncounted ==
  /\ pc = "next" /\ index < MaxItems
  /\ pc' = "then" /\ index' = index + 1
  /\ UNCHANGED <<cmode, remaining, calledF, calledR, values, outcome, misused, lost>>

\* JS_IteratorNext gives an item, the promise for it is made and its functions
\* are created; 'then' is called with them.
NextItem ==
  /\ pc = "next" /\ index < MaxItems
  /\ pc' = "then" /\ index' = index + 1
  /\ remaining' = IF cmode = "race" THEN remaining ELSE remaining + 1
  /\ UNCHANGED <<cmode, calledF, calledR, values, outcome, misused, lost>>

ThenReturned ==
  /\ pc = "then"
  /\ pc' = "next"
  /\ UNCHANGED <<cmode, index, remaining, calledF, calledR, values, outcome, misused, lost>>

\* An exception: of the iterator itself (fail_reject), or of promise_resolve or
\* 'then', after which the iterator is closed (fail_reject1).
CombLoopFails ==
  /\ \/ pc = "next" /\ pc' = "returned" /\ Settle("error")
     \/ pc \in {"next", "then"} /\ (pc = "next" => index < MaxItems)
        /\ pc' = "close" /\ UNCHANGED outcome
  /\ UNCHANGED <<cmode, index, remaining, calledF, calledR, values, misused, lost>>

\* JS_IteratorClose returns; whatever it did, the first exception rejects.
Closed ==
  /\ pc = "close"
  /\ pc' = "returned" /\ Settle("error")
  /\ UNCHANGED <<cmode, index, remaining, calledF, calledR, values, misused, lost>>

\* The iterator is done.
CombLoopDone ==
  /\ pc = "next"
  /\ pc' = "returned"
  /\ IF cmode = "race"
     THEN UNCHANGED <<remaining, outcome>>
     ELSE remainingElementsCount_add(-1)
  /\ UNCHANGED <<cmode, index, calledF, calledR, values, misused, lost>>

-----------------------------------------------------------------------------
(* The functions that 'then' was given.  Script calls them in 'then', in   *)
(* the iterator's methods, or after the combinator has returned.           *)

\* js_promise_all_resolve_element, past its check of alreadyCalled.  Memory may run
\* out before the count goes down.
ElementDone(i, what) ==
  \/ /\ values' = [values EXCEPT ![i] = what]
     /\ remainingElementsCount_add(-1)
     /\ UNCHANGED lost
  \/ lost' = TRUE /\ UNCHANGED <<values, remaining, outcome>>

FulfilElement(i) ==
  /\ i < index
  /\ calledF' = calledF \cup {i}
  /\ misused' = (misused \/ (cmode = "allSettled" /\ i \in calledR))
  /\ CASE cmode \in {"all", "allSettled"} /\ i \notin calledF -> ElementDone(i, "value")
       [] cmode \in {"all", "allSettled"} /\ i \in calledF ->
            UNCHANGED <<values, remaining, outcome, lost>>
       [] cmode \in {"any", "race"} ->
            Settle("first_fulfilled") /\ UNCHANGED <<values, remaining, lost>>
  /\ UNCHANGED <<cmode, pc, index, calledR>>

RejectElement(i) ==
  /\ i < index
  /\ calledR' = calledR \cup {i}
  /\ misused' = (misused \/ (cmode = "allSettled" /\ i \in calledF))
  /\ CASE cmode \in {"any", "allSettled"} /\ i \notin calledR -> ElementDone(i, "reason")
       [] cmode \in {"any", "allSettled"} /\ i \in calledR ->
            UNCHANGED <<values, remaining, outcome, lost>>
       [] cmode \in {"all", "race"} ->
            Settle("first_rejected") /\ UNCHANGED <<values, remaining, lost>>
  /\ UNCHANGED <<cmode, pc, index, calledF>>

CombinatorStep == NextItem \/ ThenReturned \/ CombLoopFails \/ Closed \/ CombLoopDone
js_promise_race == cmode = "race" /\ CombinatorStep
js_promise_all == cmode # "race" /\ CombinatorStep

CombNext ==
  \/ js_promise_all \/ js_promise_race
  \/ \E i \in Items : FulfilElement(i) \/ RejectElement(i)

CombSpec == CombInit /\ [][CombNext]_cvars

-----------------------------------------------------------------------------
(* Properties.                                                             *)

Called(i) == i \in calledF \/ i \in calledR
Created == {i \in Items : i < index}
\* The items whose element function has been called.
Counted ==
  {i \in Created : CASE cmode = "all" -> i \in calledF
                     [] cmode = "any" -> i \in calledR
                     [] cmode = "allSettled" -> Called(i)
                     [] cmode = "race" -> FALSE}

\* remainingElementsCount counts the items whose element function was not called,
\* and the combinator itself until its loop ends, at every point of the
\* callbacks.  'then' calling both functions of an item of allSettled breaks
\* it: each of them has an alreadyCalled of its own.
CountsRemaining ==
  ~misused /\ ~lost /\ cmode # "race" =>
    \E own \in {0, 1} :
      /\ remaining = Cardinality(Created \ Counted) + own
      /\ own = 0 => pc = "returned"
      /\ own = 1 /\ pc = "returned" => outcome # "pending"

\* The result promise of all and allSettled is fulfilled, and that of any rejected
\* with all the reasons, only after the last item, when every item has put its
\* own value in its place.
SettlesWithAllValues ==
  outcome = AllDone /\ ~misused =>
    /\ pc = "returned"
    /\ \A i \in Created :
         /\ values[i] # Unset
         /\ values[i] = "value" => i \in calledF
         /\ values[i] = "reason" => i \in calledR

\* When the combinator has returned and every item has been answered the result
\* promise is settled.
AnsweredMeansSettled ==
  pc = "returned" /\ (\A i \in Created : Called(i)) /\ ~lost =>
    outcome # "pending" \/ (cmode = "race" /\ index = 0)

\* The counter of Promise.all, allSettled and any is exact, and so is when the
\* result promise settles.
CombinatorsExact == CountsRemaining /\ SettlesWithAllValues /\ AnsweredMeansSettled
=============================================================================
