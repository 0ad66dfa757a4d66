-------------------------------- MODULE Modules --------------------------------
(***************************************************************************)
(* ES modules of quickjs.c: loading, resolution of exports, instantiation, *)
(* evaluation and what a failure leaves behind.                            *)
(*                                                                         *)
(* A program is a graph of module sources.  The host imports modules by    *)
(* name, one import at a time: JS_RunModule, which import() calls from a   *)
(* job.  In each import one module may fail to load, or throw, and may do  *)
(* better the next time.  One name, "x", is exported and imported, next to *)
(* "default".                                                              *)
(***************************************************************************)
EXTENDS Naturals, Sequences, SequencesExt, FiniteSets

CONSTANTS
  Names,         \* the names of the modules
  Graphs,        \* the programs that are imported
  StaticGraphs,  \* the programs that are only linked
  MaxDefs        \* how many JSModuleDef are made

(***************************************************************************)
(* The source of a module n of a graph g: the modules it requests,         *)
(* g[n].requests; the request it exports "x" from, or 0 when it is a local *)
(* variable, or None, g[n].x; the requests it exports everything from,     *)
(* g[n].star; and the requests it imports "x" from, g[n].imports.          *)
(***************************************************************************)
None == 99

VARIABLES
  graph,
  defs,      \* every JSModuleDef ever made; its index stands for its address
  bodies,    \* the modules whose code has run, in order
  imported,  \* how the last import ended
  broken,    \* whether an import failed
  mfailed    \* a module that was freed or never set has been used

mvars == <<graph, defs, bodies, imported, broken, mfailed>>

\* The flags of a module in the order in which they are set; "eval_mark", set while
\* the code runs, and "threw" come on top.
Phases == <<"live", "resolved", "func_created", "instantiated", "evaluated">>

\* js_new_module_def
js_new_module_def(g, n) ==
  [name |-> n, req |-> [k \in 1..Len(g[n].requests) |-> 0], flags |-> {"live"}]

ModTypeOK ==
  /\ graph \in Graphs \cup StaticGraphs
  /\ \A i \in 1..Len(defs) :
       /\ defs[i].name \in Names
       /\ \E n \in 0..Len(Phases) : defs[i].flags \ {"threw"} = ToSet(SubSeq(Phases, 1, n))
       /\ \A k \in 1..Len(defs[i].req) : defs[i].req[k] \in 0..Len(defs)
  /\ \A p \in 1..Len(bodies) : bodies[p] \in 1..Len(defs)
  /\ imported \in {"none", "ok", "failed"}
  /\ broken \in BOOLEAN /\ mfailed \in BOOLEAN

(***************************************************************************)
(* The recursions below work on a record of the changing state and of the  *)
(* oracle: the names that do not load and the names whose code throws.     *)
(***************************************************************************)
Has(S, i, f) == f \in S.defs[i].flags
Mark(S, i, f) == [S EXCEPT !.defs[i].flags = @ \cup {f}]
Unmark(S, i, f) == [S EXCEPT !.defs[i].flags = @ \ {f}]
Usable(S, i) == i # 0 /\ Has(S, i, "live")
Source(S, i) == S.graph[S.defs[i].name]
Fail(S) == [S EXCEPT !.ok = FALSE]
Broken(S) == [S EXCEPT !.ok = FALSE, !.used = TRUE]

\* js_free_module_def and js_free_modules
js_free_module_def(S, i) == [S EXCEPT !.defs[i].flags = {}]
js_free_modules(S, flag) ==
  [S EXCEPT !.defs = [i \in 1..Len(S.defs) |->
     IF flag \in S.defs[i].flags THEN S.defs[i] ELSE [S.defs[i] EXCEPT !.flags = {}]]]

js_find_loaded_module(S, n) ==
  {i \in 1..Len(S.defs) : S.defs[i].name = n /\ Has(S, i, "live")}

-----------------------------------------------------------------------------
(* Loading.                                                                *)

RECURSIVE js_host_resolve_imported_module(_, _), js_resolve_module(_, _), ResolveRequests(_, _, _)

\* Gives the state with the module in 'at', 0 for NULL.  The loader compiles the
\* source, which resolves the requests; the module is freed when that fails, and
\* the modules loaded on the way stay.
js_host_resolve_imported_module(S, n) ==
  LET found == js_find_loaded_module(S, n) IN
  CASE found # {} -> [S EXCEPT !.at = CHOOSE i \in found : TRUE]
    [] found = {} /\ (n \in S.noload \/ Len(S.defs) = MaxDefs) -> [Fail(S) EXCEPT !.at = 0]
    [] OTHER ->
       LET i == Len(S.defs) + 1
           T == js_resolve_module([S EXCEPT !.defs = Append(@, js_new_module_def(S.graph, n))], i)
       IN  IF T.ok THEN [T EXCEPT !.at = i]
           ELSE [js_free_module_def(T, i) EXCEPT !.at = 0]

js_resolve_module(S, i) ==
  IF Has(S, i, "resolved") THEN S ELSE ResolveRequests(Mark(S, i, "resolved"), i, 1)

\* Mutant of ResolveRequests: the last request is left out.
ResolveButLast(S, i, k) ==
  IF ~S.ok \/ k >= Len(S.defs[i].req) THEN S
  ELSE LET T == js_host_resolve_imported_module(S, Source(S, i).requests[k]) IN
       IF ~T.ok THEN T
       ELSE ResolveRequests(js_resolve_module([T EXCEPT !.defs[i].req[k] = T.at], T.at), i, k + 1)

ResolveRequests(S, i, k) ==
  IF ~S.ok \/ k > Len(S.defs[i].req) THEN S
  ELSE LET T == js_host_resolve_imported_module(S, Source(S, i).requests[k]) IN
       IF ~T.ok THEN T
       ELSE ResolveRequests(js_resolve_module([T EXCEPT !.defs[i].req[k] = T.at], T.at), i, k + 1)

-----------------------------------------------------------------------------
(* Resolution of exports.                                                  *)

(***************************************************************************)
(* The result is the binding that was found, [at |-> module, local |->     *)
(* name], or one of the JS_RESOLVE_RES_x, together with the set of modules *)
(* and names seen so far (JSResolveState).                                 *)
(***************************************************************************)
NoBinding == [at |-> 0, local |-> "none"]
Result(res, binding, seen) == [res |-> res, binding |-> binding, seen |-> seen]

RECURSIVE js_resolve_export1(_, _, _, _), StarExports(_, _, _, _, _, _)

js_resolve_export1(S, i, name, seen) ==
  IF ~Usable(S, i) THEN Result("freed", NoBinding, seen)
  ELSE IF <<i, name>> \in seen THEN Result("circular", NoBinding, seen)
  ELSE LET s == seen \cup {<<i, name>>}
           src == Source(S, i)
       IN CASE name = "x" /\ src.x = 0 -> Result("found", [at |-> i, local |-> "x"], s)
            [] name = "x" /\ src.x \notin {0, None} ->
                 js_resolve_export1(S, S.defs[i].req[src.x], "x", s)
            [] name = "default" -> Result("not_found", NoBinding, s)
            [] OTHER -> StarExports(S, i, name, s, SetToSortSeq(src.star, <), NoBinding)

\* The loop over the star exports; 'best' is what *pmodule and *pme hold.
StarExports(S, i, name, seen, stars, best) ==
  IF stars = <<>>
  THEN Result(IF best = NoBinding THEN "not_found" ELSE "found", best, seen)
  ELSE LET r == js_resolve_export1(S, S.defs[i].req[stars[1]], name, seen) IN
       CASE r.res \in {"ambiguous", "freed"} -> r
         [] r.res = "found" /\ best # NoBinding /\ r.binding # best ->
              Result("ambiguous", NoBinding, r.seen)
         [] r.res = "found" /\ best = NoBinding ->
              StarExports(S, i, name, r.seen, Tail(stars), r.binding)
         [] OTHER -> StarExports(S, i, name, r.seen, Tail(stars), best)

js_resolve_export(S, i, name) == js_resolve_export1(S, i, name, {})

-----------------------------------------------------------------------------
(* Instantiation and evaluation.                                           *)

RECURSIVE js_create_module_function(_, _), CreateAll(_, _, _)

js_create_module_function(S, i) ==
  CASE ~Usable(S, i) -> Broken(S)
    [] Usable(S, i) /\ Has(S, i, "func_created") -> S
    [] OTHER -> CreateAll(Mark(S, i, "func_created"), i, 1)

CreateAll(S, i, k) ==
  IF ~S.ok \/ k > Len(S.defs[i].req) THEN S
  ELSE CreateAll(js_create_module_function(S, S.defs[i].req[k]), i, k + 1)

\* The names that must be found: the indirect exports and the imports.
Links(S, i) ==
  LET src == Source(S, i) IN
  src.imports \cup (IF src.x \in {0, None} THEN {} ELSE {src.x})

\* Link the names of a module, after its requests.
LinkNames(S, i) ==
  LET res == {js_resolve_export(S, S.defs[i].req[k], "x").res : k \in Links(S, i)} IN
  CASE "freed" \in res -> Broken(S)
    [] res \subseteq {"found"} -> S
    [] OTHER -> Fail(S)

RECURSIVE js_instantiate_module(_, _), InstantiateAll(_, _, _)

js_instantiate_module(S, i) ==
  CASE ~Usable(S, i) -> Broken(S)
    [] Usable(S, i) /\ Has(S, i, "instantiated") -> S
    [] OTHER -> LET T == InstantiateAll(Mark(S, i, "instantiated"), i, 1)
                IN IF T.ok THEN LinkNames(T, i) ELSE T

InstantiateAll(S, i, k) ==
  IF ~S.ok \/ k > Len(S.defs[i].req) THEN S
  ELSE InstantiateAll(js_instantiate_module(S, S.defs[i].req[k]), i, k + 1)

\* The code of the module runs, and may throw.
RunBody(S, i) ==
  LET T == Unmark(Mark([S EXCEPT !.bodies = Append(@, i)], i, "evaluated"), i, "eval_mark") IN
  IF S.defs[i].name \in S.throws THEN Fail(Mark(T, i, "threw")) ELSE T

RECURSIVE js_evaluate_module(_, _), EvaluateAll(_, _, _)

js_evaluate_module(S, i) ==
  CASE ~Usable(S, i) -> Broken(S)
    [] Usable(S, i) /\ Has(S, i, "eval_mark") -> S
    [] Usable(S, i) /\ Has(S, i, "evaluated") -> IF Has(S, i, "threw") THEN Fail(S) ELSE S
    [] OTHER -> LET T == EvaluateAll(Mark(S, i, "eval_mark"), i, 1)
                IN IF T.ok THEN RunBody(T, i) ELSE Unmark(T, i, "eval_mark")

EvaluateAll(S, i, k) ==
  IF ~S.ok \/ k > Len(S.defs[i].req) THEN S
  ELSE EvaluateAll(js_evaluate_module(S, S.defs[i].req[k]), i, k + 1)

JS_EvalFunctionInternal(S, i) ==
  LET A == js_create_module_function(S, i)
      B == IF A.ok THEN js_instantiate_module(A, i) ELSE A
      C == IF B.ok THEN js_evaluate_module(B, i) ELSE B
  IN  IF C.ok THEN C ELSE js_free_modules(C, "evaluated")

\* A module that threw the first time counts as evaluated here.
JS_RunModule(S, n) ==
  LET A == js_host_resolve_imported_module(S, n)
      B == js_resolve_module(A, A.at)
  IN  CASE ~A.ok -> A
        [] A.ok /\ ~B.ok -> js_free_modules(B, "resolved")
        [] A.ok /\ B.ok /\ Has(B, A.at, "evaluated") -> B
        [] OTHER -> JS_EvalFunctionInternal(B, A.at)

-----------------------------------------------------------------------------
(* The host.                                                               *)

Loaded(g) ==
  LET order == SetToSeq(Names)
      Id(n) == CHOOSE i \in 1..Len(order) : order[i] = n
  IN [i \in 1..Len(order) |->
        [js_new_module_def(g, order[i]) EXCEPT
           !.req = [k \in 1..Len(g[order[i]].requests) |-> Id(g[order[i]].requests[k])],
           !.flags = {"live", "resolved"}]]

ModInit ==
  /\ \/ graph \in Graphs /\ defs = <<>>
     \/ graph \in StaticGraphs /\ defs = Loaded(graph)
  /\ bodies = <<>> /\ imported = "none" /\ broken = FALSE /\ mfailed = FALSE

Import(n, noload, throws) ==
  /\ graph \in Graphs
  /\ \E T \in {JS_RunModule([graph |-> graph, defs |-> defs, bodies |-> bodies, at |-> 0, ok |-> TRUE,
                             used |-> FALSE, noload |-> noload, throws |-> throws], n)} :
       /\ defs' = T.defs /\ bodies' = T.bodies
       /\ imported' = IF T.ok THEN "ok" ELSE "failed"
       /\ broken' = (broken \/ (~T.ok /\ ~T.used))
       /\ mfailed' = T.used
  /\ UNCHANGED graph

ModNext ==
  /\ ~mfailed
  /\ \E n \in Names :
       \/ Import(n, {}, {})
       \/ \E bad \in Names : Import(n, {bad}, {}) \/ Import(n, {}, {bad})

ModSpec == ModInit /\ [][ModNext]_mvars

-----------------------------------------------------------------------------
(* Properties.                                                             *)

Live(i) == "live" \in defs[i].flags
Whole(i) == Live(i) /\ "resolved" \in defs[i].flags
Now == [graph |-> graph, defs |-> defs, bodies |-> bodies, at |-> 0, ok |-> TRUE,
        used |-> FALSE, noload |-> {}, throws |-> {}]

\* The modules that can be reached over one or more requests.
Requested(set) == UNION {{defs[i].req[k] : k \in 1..Len(defs[i].req)} : i \in set \ {0}}
Reach(i) == LET RECURSIVE Close(_)
                Close(set) == IF Requested(set) \subseteq set THEN set
                              ELSE Close(set \cup Requested(set))
            IN  Close(Requested({i}))

\* The bindings of "x" of a module by definition: its own, that of the module it is
\* exported from, or all those of its star exports; the least solution.
Bindings ==
  LET Grow(b) == [i \in 1..Len(defs) |->
        LET src == graph[defs[i].name] IN
        CASE src.x = 0 -> {i}
          [] src.x \notin {0, None} -> b[defs[i].req[src.x]]
          [] OTHER -> UNION {b[defs[i].req[k]] : k \in src.star}]
      RECURSIVE Fix(_)
      Fix(b) == IF Grow(b) = b THEN b ELSE Fix(Grow(b))
  IN  Fix([i \in 1..Len(defs) |-> {}])

\* js_resolve_export finds the one variable that a name stands for, and says
\* "ambiguous" when there are several, whatever the cycles of indirect and star
\* exports, although it looks at every module and name only once.
ResolvesByDefinition ==
  (\A i \in 1..Len(defs) : Whole(i) /\ \A k \in 1..Len(defs[i].req) : defs[i].req[k] # 0) =>
    \A i \in 1..Len(defs) :
      LET r == js_resolve_export(Now, i, "x") IN
      /\ r.res = "found" <=> Cardinality(Bindings[i]) = 1
      /\ r.res = "found" => Bindings[i] = {r.binding.at}
      /\ r.res = "ambiguous" <=> Cardinality(Bindings[i]) > 1

\* No freed module is used, and no request that was never set, as long as every
\* import succeeded.  A failure can leave a module of a cycle behind whose
\* request is gone ("XXX: should free all the unresolved dependencies").
UsesLiveModules == mfailed => broken

\* The code of a module runs at most once, after the code of the modules it requests,
\* which did not throw, except those that request it in turn.
DependenciesFirst ==
  \A p \in 1..Len(bodies) :
    LET i == bodies[p] IN
    /\ \A q \in 1..Len(bodies) : bodies[q] = i => q = p
    /\ \A k \in 1..Len(defs[i].req) :
         LET r == defs[i].req[k] IN
         \/ i \in Reach(r)
         \/ \E q \in 1..(p - 1) : bodies[q] = r /\ "threw" \notin defs[r].flags

\* The code of a module runs only when each of its imports is bound to a variable.
ImportsAreBound ==
  ~broken =>
    \A p \in 1..Len(bodies) :
      \A k \in Links(Now, bodies[p]) :
        js_resolve_export(Now, defs[bodies[p]].req[k], "x").res = "found"

\* Modules are resolved, linked and run as their requests and exports say.
ModulesExact ==
  ResolvesByDefinition /\ UsesLiveModules /\ DependenciesFirst /\ ImportsAreBound
=============================================================================
