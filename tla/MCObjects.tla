------------------------------- MODULE MCObjects -------------------------------
(***************************************************************************)
(* Instances of the object model: the hidden classes, the property         *)
(* operations and the proxies, one of them in every behaviour.             *)
(***************************************************************************)
EXTENDS Shapes, Proxy, TLC

VARIABLE part
mvars == <<part, shvars, ovars, pvars>>

MCNames == {0, 1, 4, 5, length, name}
D(v, w, e, c) == [value |-> v, writable |-> w, get |-> {}, set |-> {}, enumerable |-> e, configurable |-> c]
Acc(g, s, c) == [value |-> {}, writable |-> {}, get |-> g, set |-> s, enumerable |-> {}, configurable |-> c]
MCDescs ==
  {Full(2), OnlyValue(1), OnlyValue(Undef), D({}, {FALSE}, {}, {}), D({}, {}, {FALSE}, {FALSE}),
   D({1}, {TRUE}, {TRUE}, {FALSE}), D({}, {TRUE}, {}, {}),
   Acc({1}, {1}, {TRUE}), Acc({}, {2}, {}), Acc({1}, {}, {FALSE})}
Slow(proto, len, w, props) ==
  [Object("array", proto, <<Prop(length, IF w THEN "length" ELSE "data", FALSE, w, FALSE, len)>> \o props, <<>>)
     EXCEPT !.fast = FALSE, !.deleted = Cardinality({i \in DOMAIN props : props[i] = Hole}),
            !.small = TRUE]
Fixed(a, v) == Prop(a, "data", FALSE, TRUE, TRUE, v)
FirstObjects ==
  {Array(2, <<>>), Array(2, <<1, 2>>), [Array(2, <<1>>) EXCEPT !.props[1].val = 5],
   Slow(2, 2, TRUE, <<Data(0, 1), Data(1, 2)>>), Slow(2, 5, TRUE, <<Data(4, 1), Fixed(1, 2)>>),
   Slow(2, 5, FALSE, <<Hole, Data(1, 2)>>), Slow(2, 2, TRUE, <<Data(name, 1), Hole, Data(0, 1)>>),
   Object("arguments", 2, <<Prop(length, "data", TRUE, TRUE, FALSE, 2)>>, <<1, 2>>),
   Object("string", 2, <<Prop(length, "data", FALSE, FALSE, FALSE, 1)>>, <<1>>),
   Object("object", 2, <<Data(4, 1), Data(name, 1), Data(0, 1)>>, <<>>)}
Plain(props) ==
  [Object("object", Null, props, <<>>)
     EXCEPT !.small = \E i \in DOMAIN props : IsTagged(props[i].atom)]
Lazy == Plain(<<Prop(name, "autoinit", TRUE, TRUE, FALSE, 7),
                [Prop(1, "getset", TRUE, FALSE, TRUE, Undef) EXCEPT !.set = 2]>>)
Guarded == Plain(<<Prop(name, "getset", FALSE, FALSE, TRUE, Undef), Prop(0, "data", TRUE, FALSE, FALSE, 1)>>)
\* Behind the second object there may be a third, whose setter or read-only property
\* the second one's properties hide, or not.
Between == [Plain(<<Data(name, 1), Data(4, 1)>>) EXCEPT !.proto = 3]
MCHeaps ==
  {<<x, y, Plain(<<>>)>> : x \in FirstObjects, y \in {Lazy, Guarded}}
    \cup {<<x, Array(Null, <<2>>), Plain(<<>>)>> :
            x \in {Array(2, <<1, 2>>), Slow(2, 2, TRUE, <<Data(0, 1), Data(1, 2)>>)}}
    \cup {<<[x EXCEPT !.ext = FALSE], Plain(<<>>), Plain(<<>>)>> : x \in FirstObjects}
    \cup {<<x, y, z>> : x \in {Array(2, <<1>>), Object("object", 2, <<>>, <<>>)},
                       y \in {Between, Array(3, <<2, 2>>)}, z \in {Lazy, Guarded}}
MCProxyNames == {0, name}
MCTargets == {Object("object", 2, p, <<>>) : p \in {<<>>, <<Fixed(name, 1)>>}}
MCProxyDescs == (MCDescs \ {OnlyValue(Undef), Acc({}, {2}, {})}) \cup {D({2}, {FALSE}, {}, {FALSE})}

MCInit ==
  /\ part \in {"shapes", "objects", "proxy"}
  /\ ShInit
  /\ IF part = "objects" THEN ObjInit ELSE objs = <<>> /\ calls = 0
  /\ IF part = "proxy" THEN ProxyInit
     ELSE target = Object("object", 2, <<>>, <<>>) /\ revoked = TRUE /\ facts = {} /\ trapped = 0
MCNext ==
  /\ UNCHANGED part
  /\ \/ part = "shapes" /\ ShNext /\ UNCHANGED <<ovars, pvars>>
     \/ part = "objects" /\ ObjNext /\ UNCHANGED <<shvars, pvars>>
     \/ part = "proxy" /\ ProxyNext /\ UNCHANGED <<shvars, ovars>>
MCSpec == MCInit /\ [][MCNext]_mvars

\* Properties of objects are defined, set, read, deleted and listed as the
\* language says, directly and through a Proxy with or without traps.
ObjectsFollowRules ==
  /\ part = "objects" =>
       /\ DefineFollowsRules /\ SetFollowsRules /\ ReflectSetFollowsRules
       /\ DeleteFollowsRules /\ GetFollowsRules /\ KeysFollowRules /\ ChainsEnd
  /\ part = "proxy" => ProxyFollowsRules /\ ProxyTransparent /\ FactsHold
================================================================================
