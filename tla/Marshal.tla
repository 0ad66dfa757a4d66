------------------------------- MODULE Marshal -------------------------------
(***************************************************************************)
(* serialize_value and deserialize_value (src/bindings.rs): how Rust       *)
(* values become JavaScript values and back, and which references Rust     *)
(* code owns on the way.  Both recurse over containers; an activation that *)
(* is inside a container is a frame of 'stack'.  Every call of the engine  *)
(* may fail, with an exception pending.                                    *)
(*                                                                         *)
(* Property names and array indices are naturals.  A string is "plain",    *)
(* holds a "zero" byte, holds an unpaired "surrogate", or is what is "cut" *)
(* of a string at its zero byte; a BigInt is "small" (an i64) or "big".  A *)
(* date of Rust is a "whole" number of milliseconds or has a "fraction";   *)
(* one of a script is "whole", "invalid" (its time is NaN) or "far", out   *)
(* of chrono's range.                                                      *)
(***************************************************************************)
EXTENDS Naturals, FiniteSetsExt, SequencesExt, BagsExt

CONSTANTS
  RustValues,    \* values that the host passes and that callbacks return
  ScriptHeap,    \* what scripts have made: a sequence of cells
  ScriptValues,  \* those of its cells that scripts pass and return
  ZeroKeys,      \* the property names with a zero byte
  MaxDepth       \* how many activations the native stack has room for

ASSUME ScriptValuesAssumption == ScriptValues \subseteq DOMAIN ScriptHeap
ASSUME MaxDepthAssumption == MaxDepth \in Nat

VARIABLES
  rt,     \* the engine: its heap, and the references that Rust code owns
  stack,  \* activations, the innermost first
  ctl,    \* what the innermost activation does next, or what it got
  missed  \* what went wrong without an answer: a history variable

marshalVars == <<rt, stack, ctl, missed>>

\* A property name or a string with a zero byte, a string that is no UTF-8, a
\* built-in function that a script replaced, an exception stored as a value, a
\* date that chrono cannot represent.
Unsupported == {"zero_key", "zero_text", "no_utf8", "builtin", "bigint64", "far_date"}

(***************************************************************************)
(* JsValue: a leaf has a text, a container has items.  Bool and Float are  *)
(* like Int.  A cell of the engine's heap has the cells it refers to as    *)
(* items, or 0 for a property whose getter throws.                         *)
(***************************************************************************)
Leaf(k, t) == [kind |-> k, text |-> t, items |-> <<>>]
Container(k, m) == [kind |-> k, text |-> "", items |-> m]
Containers == {"array", "object"}

\* free_value: values with a tag below 0 have a reference count.
Counted(M, c) == M.heap[c].kind \notin {"null", "undefined", "int", "exception"}

Value(c) == <<"value", c>>
Global == <<"global", 0>>
Take(M, r) == [M EXCEPT !.owned = BagAdd(@, r)]
Release(M, r) == IF BagIn(r, M.owned) THEN [M EXCEPT !.owned = BagRemove(@, r)]
                 ELSE [M EXCEPT !.crash = "double_free"]
Dup(M, c) == IF Counted(M, c) THEN Take(M, Value(c)) ELSE M
free_value(M, c) == IF Counted(M, c) THEN Release(M, Value(c)) ELSE M

\* A new value of the engine, which the caller owns.
NewValue(M, v) == Dup([M EXCEPT !.heap = Append(@, v)], Len(M.heap) + 1)
Newest(M) == Len(M.heap)
Throws(M) == [M EXCEPT !.exception = TRUE]

Reply(op) == [op |-> op, node |-> Leaf("null", ""), cell |-> 0]
GotValue(v) == [Reply("value") EXCEPT !.node = v]
GotRef(c) == [Reply("ref") EXCEPT !.cell = c]
Serialize(v) == [Reply("serialize") EXCEPT !.node = v]
Deserialize(c) == [Reply("deserialize") EXCEPT !.cell = c]
Error == Reply("error")
Panic == Reply("panic")
Loop == Reply("loop")
Dead == Reply("dead")

Does(M, S, c, X) == /\ rt' = M
                    /\ stack' = S
                    /\ ctl' = IF M.crash = "none" THEN c ELSE Dead
                    /\ missed' = missed \cup X
Moves(M, S, c) == Does(M, S, c, {})
Stays(M, c) == Moves(M, stack, c)
Fails == Stays(Throws(rt), Error)
Gives(v) == LET M == NewValue(rt, v) IN Stays(M, GotRef(Newest(M)))

Serializing(kind) == ctl.op = "serialize" /\ ctl.node.kind = kind
Deserializing(kind) == ctl.op = "deserialize" /\ rt.heap[ctl.cell].kind = kind

\* An activation: 'cell' is the container, 'node' the Rust value it is made
\* from or read into, 'rest' the items to do, 'key' and 'raw' the current one.
\* The other fields are for the callers of the conversions.
Frame(fn, c, v, keys) ==
  [fn |-> fn, cell |-> c, node |-> v, rest |-> keys, key |-> 0, raw |-> 0,
   phase |-> "args", args |-> <<>>, qargs |-> <<>>]
Top == Head(stack)
In(fn) == stack # <<>> /\ Top.fn = fn
Popped == Tail(stack)
Changed(f) == <<f>> \o Popped
Calls(M, f) == IF Len(stack) < MaxDepth THEN Moves(M, <<f>> \o stack, Loop)
               ELSE Stays([M EXCEPT !.crash = "stack_overflow"], Dead)

-----------------------------------------------------------------------------
(* serialize_value                                                         *)

SerializeScalar == /\ \E k \in {"null", "int"} : Serializing(k)
                   /\ Gives(ctl.node)

SerializeString == Serializing("string") /\ (Gives(ctl.node) \/ Fails)

\* A small one is made at once, and the result is not looked at.  A big one is
\* made by the function BigInt from a string, both of which are freed in any
\* case.  A BigInt that is no function makes js_create_bigint_function panic;
\* what another function returned is not freed.
SerializeBigInt ==
  /\ Serializing("bigint")
  /\ \/ Gives(ctl.node)
     \/ /\ ctl.node.text = "small"
        /\ LET M == NewValue(Throws(rt), Leaf("exception", ""))
           IN  Does(M, stack, GotRef(Newest(M)), {"bigint64"})
     \/ ctl.node.text = "big" /\ Fails
     \/ ctl.node.text = "big" /\ Does(Take(rt, Global), stack, Panic, {"builtin"})
     \/ /\ ctl.node.text = "big"
        /\ Does(NewValue(rt, Leaf("string", "plain")), stack, Error, {"builtin"})

\* DateTime::timestamp_millis drops what is below a millisecond.
timestamp_millis(text) == IF text = "fraction" THEN "whole" ELSE text

\* js_date_constructor panics if there is no function Date.
SerializeDate ==
  /\ Serializing("date")
  /\ \/ Gives(Leaf("date", timestamp_millis(ctl.node.text)))
     \/ Fails
     \/ Does(Take(rt, Global), stack, Panic, {"builtin"})

SerializeContainer ==
  \E k \in Containers :
    /\ Serializing(k)
    /\ \/ LET M == NewValue(rt, Container(k, <<>>))
          IN  Calls(M, Frame(k, Newest(M), ctl.node, DOMAIN ctl.node.items))
       \/ Fails

Filling == In("array") \/ In("object")

\* The loop over the items: an array in order, a map in any order.  The '?' on
\* make_cstring returns from the middle of the loop.
NextItem ==
  /\ Filling /\ ctl.op = "loop"
  /\ \/ Top.rest = {} /\ Moves(rt, Popped, GotRef(Top.cell))
     \/ \E k \in Top.rest :
          /\ In("array") => k = Min(Top.rest)
          /\ IF In("object") /\ k \in ZeroKeys THEN Does(rt, Popped, Error, {"zero_key"})
             ELSE Moves(rt, Changed([Top EXCEPT !.rest = @ \ {k}, !.key = k]),
                       Serialize(Top.node.items[k]))

\* An item could not be made: the container is freed.
ItemFails ==
  /\ Filling /\ ctl.op = "error"
  /\ Moves(free_value(rt, Top.cell), Popped, Error)

\* JS_DefinePropertyValueUint32 and ...Str: the container has a reference to
\* the item instead of Rust.
Define(M, c, k, item) ==
  [free_value(M, item) EXCEPT !.heap[c].items =
     [j \in DOMAIN @ \cup {k} |-> IF j = k THEN item ELSE @[j]]]

AddItemFreesTwice ==
  /\ Filling /\ ctl.op = "ref"
  /\ \/ Stays(Define(rt, Top.cell, Top.key, ctl.cell), Loop)
     \/ Moves(free_value(free_value(free_value(rt, ctl.cell), ctl.cell), Top.cell),
             Popped, Error)

AddItemOverwrites ==
  /\ Filling /\ ctl.op = "ref"
  /\ \/ Stays(Define(rt, Top.cell, 1, ctl.cell), Loop)
     \/ Moves(free_value(free_value(Throws(rt), ctl.cell), Top.cell), Popped, Error)

\* The definition frees the item when it fails, and the container is freed then.
AddItem ==
  /\ Filling /\ ctl.op = "ref"
  /\ \/ Stays(Define(rt, Top.cell, Top.key, ctl.cell), Loop)
     \/ Moves(free_value(free_value(Throws(rt), ctl.cell), Top.cell), Popped, Error)

-----------------------------------------------------------------------------
(* deserialize_value, deserialize_array, deserialize_object                *)

Here == rt.heap[ctl.cell]

DeserializeScalar ==
  \/ Deserializing("int") /\ Stays(rt, GotValue(Here))
  \/ \E k \in {"null", "undefined"} :
       Deserializing(k) /\ Stays(rt, GotValue(Leaf("null", "")))

\* Symbols and the exception value have no Rust value.
DeserializeOther == \E k \in {"symbol", "exception"} :
                      Deserializing(k) /\ Stays(rt, Error)

\* The C string is freed after the conversion, which '?' leaves when the bytes
\* are no UTF-8.  CStr::from_ptr ends at a zero byte.
DeserializeString ==
  /\ Deserializing("string")
  /\ \/ Here.text = "plain" /\ Stays(rt, GotValue(Here))
     \/ /\ Here.text = "zero"
        /\ Does(rt, stack, GotValue(Leaf("string", "cut")), {"zero_text"})
     \/ /\ Here.text = "surrogate"
        /\ Does(Take(rt, <<"cstring", ctl.cell>>), stack, Error, {"no_utf8"})
     \/ Fails

\* JS_ToBigInt64 tells a big one, which is read through its decimal string.
DeserializeBigInt ==
  /\ Deserializing("bigint")
  /\ \/ Stays(rt, GotValue(Here))
     \/ Here.text = "big" /\ Fails

\* Whether an object is a Date is asked with the function Date of the script; a
\* Date that another function does not know is read as an object.  What a
\* getTime returned that is no number is not freed.  The cast to i64 makes NaN
\* 0, the start of 1970, and Utc.timestamp_millis panics out of range.
DeserializeDate ==
  /\ Deserializing("date")
  /\ \/ Here.text = "whole" /\ Stays(rt, GotValue(Here))
     \/ Here.text = "invalid" /\ Stays(rt, GotValue(Leaf("date", "epoch")))
     \/ Here.text = "far" /\ Does(rt, stack, Panic, {"far_date"})
     \/ Fails
     \/ Does(rt, stack, GotValue(Container("object", <<>>)), {"builtin"})
     \/ \E r \in {Global, <<"Date", 0>>} : Does(Take(rt, r), stack, Panic, {"builtin"})
     \/ Does(NewValue(rt, Leaf("string", "plain")), stack, Error, {"builtin"})

Names(c) == <<"names", c>>

\* The length is read first; for a proxy it may be no integer.
DeserializeArray ==
  /\ Deserializing("array")
  /\ \/ Calls(rt, Frame("elements", ctl.cell, Container("array", <<>>),
                        DOMAIN Here.items))
     \/ Fails

\* JS_GetOwnPropertyNames; its table is a DroppableValue.
DeserializeObject ==
  /\ Deserializing("object")
  /\ \/ Calls(Take(rt, Names(ctl.cell)),
              Frame("properties", ctl.cell, Container("object", <<>>),
                    DOMAIN Here.items))
     \/ Fails
     \/ Does(Take(rt, Global), stack, Panic, {"builtin"})

Reading == In("elements") \/ In("properties")

\* Leaving deserialize_object frees the table of names.
Returns(M, c) == Moves(IF In("properties") THEN Release(M, Names(Top.cell)) ELSE M,
                      Popped, c)

GetItemAgain ==
  /\ Reading /\ ctl.op = "loop"
  /\ IF Top.rest = {} THEN Returns(rt, GotValue(Top.node))
     ELSE LET k == Min(Top.rest)
              raw == rt.heap[Top.cell].items[k]
          IN  IF raw = 0 THEN Returns(Throws(rt), Error)
              ELSE Moves(Dup(rt, raw), Changed([Top EXCEPT !.key = k, !.raw = raw]),
                        Deserialize(raw))

\* JS_GetPropertyUint32 and JS_GetPropertyInternal may run a getter.
GetItem ==
  /\ Reading /\ ctl.op = "loop"
  /\ IF Top.rest = {} THEN Returns(rt, GotValue(Top.node))
     ELSE LET k == Min(Top.rest)
              raw == rt.heap[Top.cell].items[k]
          IN  IF raw = 0 THEN Returns(Throws(rt), Error)
              ELSE Moves(Dup(rt, raw),
                        Changed([Top EXCEPT !.rest = @ \ {k}, !.key = k, !.raw = raw]),
                        Deserialize(raw))

\* The name that deserialize_value makes of a key with a zero byte.
CutKey == 0

\* The value is freed, the name is converted, and both go into the map.
ItemRead ==
  /\ Reading /\ ctl.op = "value"
  /\ LET M == free_value(rt, Top.raw)
         cut == In("properties") /\ Top.key \in ZeroKeys
         key == IF cut THEN CutKey ELSE Top.key
         Insert(m) == [j \in DOMAIN m \cup {key} |-> IF j = key THEN ctl.node ELSE m[j]]
     IN  \/ Does(M, Changed([Top EXCEPT !.raw = 0, !.node.items = Insert(@)]), Loop,
                 IF cut THEN {"zero_text"} ELSE {})
         \/ In("properties") /\ Returns(Throws(M), Error)

ItemUnreadable ==
  /\ Reading /\ ctl.op = "error"
  /\ Returns(free_value(rt, Top.raw), Error)

\* A panic drops the table of names and none of the values.
Unwind == /\ Filling \/ Reading
          /\ ctl.op = "panic"
          /\ Returns(rt, Panic)

Convert ==
  \/ SerializeScalar \/ SerializeString \/ SerializeBigInt \/ SerializeDate
  \/ SerializeContainer \/ NextItem \/ ItemFails \/ AddItem
  \/ DeserializeScalar \/ DeserializeOther \/ DeserializeString
  \/ DeserializeBigInt \/ DeserializeDate \/ DeserializeArray
  \/ DeserializeObject \/ GetItem \/ ItemRead \/ ItemUnreadable \/ Unwind
=============================================================================
