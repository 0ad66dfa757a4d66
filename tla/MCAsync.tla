------------------------------- MODULE MCAsync --------------------------------
(***************************************************************************)
(* The machinery of asynchronous code: a generator, an async generator, a  *)
(* promise combinator or a program of modules.  part says which of them a  *)
(* behaviour is about; the others stand still.                             *)
(***************************************************************************)
EXTENDS Generators, Combinators, Modules

VARIABLE part

ModuleNames == {"a", "b", "c"}
Src(requests, x, star, imports) ==
  [requests |-> requests, x |-> x, star |-> star, imports |-> imports]

\* A chain, cycles of two and three modules, a cycle next to a module that may fail,
\* and a diamond; with the export of "b" in the module or behind a star, and with
\* a module "a" that does not export.
Programs ==
  {[a |-> Src(ra, xa, {}, 1..Len(ra)),
    b |-> Src(rb, xb, IF xb = None THEN 1..Len(rb) ELSE {}, {}),
    c |-> Src(rc, 0, {}, 1..Len(rc))] :
     ra \in {<<"b", "c">>, <<"b">>}, rb \in {<<"a">>, <<"c">>},
     rc \in {<<>>, <<"a">>}, xa, xb \in {0, None}}

\* Every way of three modules to export "x": of its own, from one of the three, or
\* from any set of the three, in which a module that has an "x" may star one.
AllRequests == <<"a", "b", "c">>
ExportPrograms ==
  [ModuleNames -> {Src(AllRequests, x, {}, {}) : x \in {0, 1, 2, 3}}
                  \cup {Src(AllRequests, 0, {2}, {})}
                  \cup {Src(AllRequests, None, star, {}) : star \in SUBSET (1..3)}]

-----------------------------------------------------------------------------
MCvars == <<part, gvars, avars, cvars, mvars>>

MCInit ==
  /\ part \in {"generator", "async_generator", "combinator", "modules"}
  /\ GenInit /\ AsyncGenInit
  /\ IF part = "combinator" THEN CombInit ELSE CombInit /\ cmode = "all"
  /\ IF part = "modules" THEN ModInit
     ELSE ModInit /\ graph = CHOOSE g \in Programs : TRUE

InGenerator(A) ==
  part = "generator" /\ A /\ UNCHANGED <<part, avars, cvars, mvars>>
InAsyncGenerator(A) ==
  part = "async_generator" /\ A /\ UNCHANGED <<part, gvars, cvars, mvars>>
InCombinator(A) ==
  part = "combinator" /\ A /\ UNCHANGED <<part, gvars, avars, mvars>>
InModules(A) == part = "modules" /\ A /\ UNCHANGED <<part, gvars, avars, cvars>>

MCNext == \/ InGenerator(GenNext) \/ InAsyncGenerator(AsyncGenNext)
          \/ InCombinator(CombNext) \/ InModules(ModNext)

\* The job queue runs, and so do the loop and the body of an async generator.
MCSpec ==
  /\ MCInit /\ [][MCNext]_MCvars
  /\ WF_MCvars(InAsyncGenerator(~afailed /\ Loop))
  /\ WF_MCvars(InAsyncGenerator(~afailed /\ Body))
  /\ WF_MCvars(InAsyncGenerator(~afailed /\ Jobs))

=============================================================================
