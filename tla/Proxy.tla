--------------------------------- MODULE Proxy ---------------------------------
(***************************************************************************)
(* A proxy over an object of Objects.  A trap  is user code: it may change   *)
(* the target or revoke the proxy before it answers, and the answer is     *)
(* held against the target it leaves.  An answer is {} when the operation  *)
(* throws.  "facts" is what a caller has learned from the answers.         *)
(***************************************************************************)
EXTENDS Objects

CONSTANTS
  ProxyTargets,            \* the objects proxies are made for
  ProxyNames, ProxyDescs,  \* the names and descriptors of their calls
  MaxProxyCalls            \* bound on the calls of a behaviour

VARIABLES target, revoked, facts, trapped
pvars == <<target, revoked, facts, trapped>>

\* The target is object 1 of a heap with a plain prototype.
HeapOf(T) == [o \in ObjIds |-> IF o = 1 THEN T ELSE Object("object", Null, <<>>, <<>>)]
Own(T, a) == Or(JS_GetOwnPropertyInternal(T, a), Hole)
IsOwn(T, a) == JS_GetOwnPropertyInternal(T, a) # {}
When(ok, r) == IF ok THEN {r} ELSE {}

js_proxy_getPrototypeOf(T, r) ==
  When(r \in ObjIds \cup {Null} /\ (~T.ext => r = T.proto), r)
js_proxy_setPrototypeOf(T, p, r) == When((r /\ ~T.ext) => p = T.proto, r)
js_proxy_isExtensible(T, r) == When(r = T.ext, r)
js_proxy_preventExtensions(T, r) == When(r => ~T.ext, r)
js_proxy_has(T, a, r) == When((~r /\ IsOwn(T, a)) => Own(T, a).c /\ T.ext, r)

js_proxy_get(T, a, v) ==
  LET p == Own(T, a)
  IN When((IsOwn(T, a) /\ ~p.c) =>
            /\ (p.kind # "getset" /\ ~p.w) => v = p.val
            /\ (p.kind = "getset" /\ p.get = Null) => v = Undef, v)

js_proxy_set(T, a, v, r) ==
  LET p == Own(T, a)
  IN When((r /\ IsOwn(T, a) /\ ~p.c) =>
            /\ (p.kind # "getset" /\ ~p.w) => v = p.val
            /\ p.kind = "getset" => p.set # Null, r)

\* The answer of the trap as a descriptor with every field (js_obj_to_desc).
AsDesc(q) ==
  [value |-> IF q.kind = "getset" THEN {} ELSE {q.val},
   writable |-> IF q.kind = "getset" THEN {} ELSE {q.w},
   get |-> IF q.kind = "getset" THEN {q.get} ELSE {},
   set |-> IF q.kind = "getset" THEN {q.set} ELSE {},
   enumerable |-> {q.e}, configurable |-> {q.c}]

\* Flags are compared; values, getters and setters are not.
js_proxy_get_own_property(T, a, r) ==
  LET p == Own(T, a)
      q == Or(r, Hole)
  IN IF r = {} THEN When(IsOwn(T, a) => p.c /\ T.ext, r)
     ELSE When(/\ IF IsOwn(T, a) THEN check_define_prop_flags(p, AsDesc(q)) ELSE T.ext
               /\ ~q.c => /\ IsOwn(T, a) /\ ~p.c
                          /\ ~(q.kind # "getset" /\ ~q.w /\ p.w), r)

js_proxy_define_own_property(T, a, d, r) ==
  LET p == Own(T, a)
      setting_not_configurable == d.configurable = {FALSE}
  IN IF ~r THEN {r}
     ELSE IF ~IsOwn(T, a) THEN When(T.ext /\ ~setting_not_configurable, r)
     ELSE When(/\ check_define_prop_flags(p, d)
               /\ ~(p.c /\ setting_not_configurable)
               /\ (IsAccessorDesc(d) /\ p.kind = "getset" /\ ~p.c) =>
                    Or(d.get, p.get) = p.get /\ Or(d.set, p.set) = p.set
               /\ (~IsAccessorDesc(d) /\ Has1(d.value) /\ ~p.c) =>
                    IF p.w THEN d.writable = {TRUE} ELSE d.value = {p.val}
               /\ ~(Has1(d.writable) /\ p.kind # "getset" /\ ~p.c /\ p.w), r)

js_proxy_delete_property(T, a, r) == When((r /\ IsOwn(T, a)) => Own(T, a).c /\ T.ext, r)

\* keys is a sequence of names; the proxy may have been revoked meanwhile.
js_proxy_get_own_property_names(T, keys, dead) ==
  LET must == {a \in ProxyNames : IsOwn(T, a) /\ (~T.ext \/ ~Own(T, a).c)}
  IN When(/\ \A i, j \in DOMAIN keys : keys[i] = keys[j] => i = j
          /\ ~dead /\ must \subseteq ToSet(keys)
          /\ ~T.ext => ToSet(keys) \subseteq must, keys)

--------------------------------------------------------------------------------
KeyLists == UNION {[1..n -> ProxyNames] : n \in 0..2}
OwnAnswers == {{}} \cup {{NewProp(name, d)} : d \in ProxyDescs}

Sealed == <<"sealed">> \in facts
IfSealed(S) == IF Sealed THEN S ELSE {}
Learn(S) == facts' = facts \cup S

\* js_proxy_revoke
Revoke == revoked' = TRUE /\ UNCHANGED <<target, facts>>

\* What the code of a trap does to the target, by the operations of Objects.
Effects(T) ==
  {T, [T EXCEPT !.ext = FALSE]}
    \cup {delete_own(T, a).x : a \in ProxyNames}
    \cup {JS_DefineProperty(T, a, d).x : a \in ProxyNames, d \in ProxyDescs}

GetPrototypeOf(T) == \E r \in ObjIds \cup {Null} : \E x \in js_proxy_getPrototypeOf(T, r) :
  Learn(IfSealed({<<"proto", x>>}))
IsExtensible(T) == \E r \in BOOLEAN : \E x \in js_proxy_isExtensible(T, r) :
  Learn(IF x THEN {} ELSE {<<"sealed">>})
PreventExtensions(T) == \E r \in BOOLEAN : \E x \in js_proxy_preventExtensions(T, r) :
  Learn(IF x THEN {<<"sealed">>} ELSE {})
HasIt(T) == \E a \in ProxyNames, r \in BOOLEAN : \E x \in js_proxy_has(T, a, r) :
  Learn(IF x THEN {} ELSE IfSealed({<<"absent", a>>}))
GetIt(T) == \E a \in ProxyNames, v \in NewValues \cup {Undef} : \E x \in js_proxy_get(T, a, v) :
  Learn(IF <<"readonly", a>> \in facts THEN {<<"value", a, x>>} ELSE {})
GetOwn(T) == \E a \in ProxyNames, r \in OwnAnswers : \E x \in js_proxy_get_own_property(T, a, r) :
  LET q == Or(x, Hole)
  IN Learn(IF x = {} THEN IfSealed({<<"absent", a>>})
           ELSE IF q.c THEN {}
           ELSE {<<"fixed", a, q.kind, q.e>>}
                  \cup IF q.kind = "data" /\ ~q.w THEN {<<"readonly", a>>} ELSE {})
DefineIt(T) == \E a \in ProxyNames, d \in ProxyDescs : \E x \in js_proxy_define_own_property(T, a, d, TRUE) :
  Learn(IF d.configurable = {FALSE} THEN {<<"present", a>>} ELSE {})
DeleteIt(T) == \E a \in ProxyNames : \E x \in js_proxy_delete_property(T, a, TRUE) :
  Learn(IfSealed({<<"absent", a>>}))
OwnKeys(T) == \E keys \in KeyLists : \E x \in js_proxy_get_own_property_names(T, keys, revoked') :
  Learn(IfSealed({<<"absent", a>> : a \in ProxyNames \ ToSet(x)}))

\* get_proxy_method: a revoked proxy throws before the trap.
ProxyCall ==
  /\ ~revoked /\ revoked' \in BOOLEAN
  /\ \E T \in Effects(target) :
       /\ target' = T
       /\ \/ GetPrototypeOf(T) \/ IsExtensible(T) \/ PreventExtensions(T) \/ HasIt(T)
          \/ GetIt(T) \/ GetOwn(T) \/ DefineIt(T) \/ DeleteIt(T) \/ OwnKeys(T)

ProxyInit == target \in ProxyTargets /\ revoked = FALSE /\ facts = {} /\ trapped = 0
ProxyNext == trapped < MaxProxyCalls /\ trapped' = trapped + 1 /\ (ProxyCall \/ Revoke)
ProxySpec == ProxyInit /\ [][ProxyNext]_pvars

--------------------------------------------------------------------------------
(* The rules of ECMAScript for an answer of a trap, and where the code differs. *)

DefineRule(V, a, d) ==
  LET p == Or(V.p[a], Hole)
  IN IF V.p[a] = {} THEN V.ext /\ d.configurable # {FALSE}
     ELSE /\ Applied(V.ext, a, d, V.p[a]) # {}
          /\ d.configurable = {FALSE} => ~p.c
          /\ (p.kind = "data" /\ p.w /\ ~p.c) => d.writable # {FALSE}
GetOwnRule(V, a, r) ==
  LET p == Or(V.p[a], Hole)
      q == Or(r, Hole)
  IN IF r = {} THEN V.p[a] # {} => p.c /\ V.ext
     ELSE /\ Applied(V.ext, a, AsDesc(q), V.p[a]) # {}
          /\ ~q.c => V.p[a] # {} /\ ~p.c /\ ((q.kind = "data" /\ ~q.w) => ~p.w)

\* A property that is fixed but writable: the code refuses a value without a writable
\* flag, and a writable flag.
StricterDefine(T, a, d) ==
  IsOwn(T, a) /\ ~Own(T, a).c /\ Own(T, a).w /\ IsDataDesc(d)

\* Comment at js_proxy_get_own_property: "not complete check".
UncheckedValue(T, a, r) ==
  LET p == Own(T, a)
      q == Or(r, Hole)
  IN /\ r # {} /\ IsOwn(T, a) /\ ~p.c
     /\ IF p.kind = "getset" THEN q.get # p.get \/ q.set # p.set ELSE ~p.w /\ q.val # p.val

\* What the proxy accepts as a new descriptor, or as an answer about one, is what the
\* rules of ECMAScript accept for the target as the trap left it.
ProxyFollowsRules ==
  LET T == target
      V == View(T)
  IN ~revoked => \A a \in ProxyNames :
       /\ \A d \in ProxyDescs :
            \/ StricterDefine(T, a, d)
            \/ js_proxy_define_own_property(T, a, d, TRUE) # {} <=> DefineRule(V, a, d)
       /\ \A r \in OwnAnswers :
            \/ UncheckedValue(T, a, r)
            \/ js_proxy_get_own_property(T, a, r) # {} <=> GetOwnRule(V, a, r)

\* A trap that does what the target does is never refused: with such traps a proxy
\* cannot be told from its target.
ProxyTransparent ==
  LET T == target
  IN revoked \/
     /\ js_proxy_getPrototypeOf(T, T.proto) # {}
     /\ js_proxy_isExtensible(T, T.ext) # {}
     /\ js_proxy_preventExtensions(JS_PreventExtensions(HeapOf(T), 1).x[1], TRUE) # {}
     /\ \A p \in ObjIds \cup {Null} :
          LET S == JS_SetPrototypeInternal1(HeapOf(T), 1, p)
          IN js_proxy_setPrototypeOf(S.x[1], p, S.r = "true") # {}
     /\ js_proxy_get_own_property_names(T, SetToSeq({a \in ProxyNames : IsOwn(T, a)}), FALSE) # {}
     /\ \A a \in ProxyNames :
          /\ js_proxy_has(T, a, IsOwn(T, a)) # {}
          /\ js_proxy_get_own_property(T, a, JS_GetOwnPropertyInternal(T, a)) # {}
          /\ LET g == JS_GetPropertyInternal(HeapOf(T), 1, a)
             IN g.r = "value" => js_proxy_get(T, a, g.f) # {}
          /\ LET D == delete_own(T, a) IN js_proxy_delete_property(D.x, a, D.r = "true") # {}
          /\ \A v \in NewValues :
               LET S == JS_SetPropertyGeneric(HeapOf(T), 1, a, v, 1)
               IN js_proxy_set(S.x[1], a, v, S.r \in {"true", "call"}) # {}
          /\ \A d \in ProxyDescs :
               LET D == JS_DefineProperty(T, a, d)
               IN StricterDefine(D.x, a, d)
                  \/ js_proxy_define_own_property(D.x, a, d, D.r = "true") # {}

\* What a caller has learned from the answers of a proxy stays true of the target,
\* whatever the traps did and answered: an object once reported as not extensible has
\* the prototype and none of the names reported since, and a property reported as not
\* configurable keeps its kind and flags, and a read-only one its value.
FactsHold ==
  LET T == target
      True(f) ==
        CASE f[1] = "sealed" -> ~T.ext
          [] f[1] = "proto" -> T.proto = f[2]
          [] f[1] = "absent" -> ~IsOwn(T, f[2]) /\ ~T.ext
          [] f[1] = "present" -> IsOwn(T, f[2]) /\ ~Own(T, f[2]).c
          [] f[1] = "fixed" -> LET p == Own(T, f[2])
                               IN IsOwn(T, f[2]) /\ ~p.c /\ p.kind = f[3] /\ p.e = f[4]
          [] f[1] = "readonly" -> ~Own(T, f[2]).w
          [] OTHER -> Own(T, f[2]).val = f[3]
  IN \A f \in facts : True(f)
================================================================================
