------------------------------- MODULE MCHost -------------------------------
(***************************************************************************)
(* The bindings: the conversions and calls of HostCalls and the life of a  *)
(* Context, checked one beside the other.  area says which one a behaviour *)
(* is about, the other stands still.                                       *)
(***************************************************************************)
EXTENDS HostCalls, ContextLifecycle

Num == Leaf("int", "1")
Text == Leaf("string", "plain")
BigSmall == Leaf("bigint", "small")
Big == Leaf("bigint", "big")

\* An array of a string and an object, in which there is an array of a BigInt
\* and a date; an object with two properties, one of which has a name with a
\* zero byte.
Nested ==
  Container("array",
    <<Text, Container("object", (1 :> Container("array", <<Big, Leaf("date", "fraction")>>)))>>)
ZeroKeyed == Container("object", (2 :> Num) @@ (9 :> Text))

MCRustValues == {Leaf("string", "zero"), BigSmall, Nested, ZeroKeyed}

\* 1: a symbol; 2: a string with an unpaired surrogate; 3: an invalid date; 4: an array;
\* 5: an object with a getter that throws; 6: an object that contains itself;
\* 7: undefined; 8: an object with a zero byte in a name; 9: an array of dates that
\* chrono can and cannot represent.
MCScriptHeap ==
  <<Leaf("symbol", ""), Leaf("string", "surrogate"), Leaf("date", "invalid"),
    Container("array", <<3, 2>>), Container("object", (1 :> 4) @@ (2 :> 0)),
    Container("object", (1 :> 7) @@ (2 :> 6)), Leaf("undefined", ""),
    Container("object", (1 :> 1) @@ (9 :> 7)), Container("array", <<10, 11>>),
    Leaf("date", "whole"), Leaf("date", "far")>>
MCScriptValues == 1..9
MCZeroKeys == {9}
-----------------------------------------------------------------------------
VARIABLE area
hostAndLife == <<area, allVars, vars>>

InCalls(A) == area = "calls" /\ A /\ UNCHANGED <<area, vars>>
InLife(A) == area = "life" /\ A /\ UNCHANGED <<area, allVars>>

MCInit == HostInit /\ Init /\ area \in {"calls", "life"}
MCNext == InCalls(HostNext) \/ InLife(Next)

\* The fairness of HostFairSpec.
MCSpec == MCInit /\ [][MCNext]_hostAndLife /\ WF_hostAndLife(InCalls(HostNext))
=============================================================================
