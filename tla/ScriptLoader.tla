---------------------------- MODULE ScriptLoader ----------------------------
(***************************************************************************)
(* runtime/script_loader.cpp: how the program's modules are compiled,      *)
(* linked and evaluated before the first request.                          *)
(*                                                                         *)
(* get_module compiles a module that the registry does not have and links  *)
(* it; the engine, while it links a module, calls the resolve hook for     *)
(* each import, which calls get_module again.  A module enters the         *)
(* registry, under the specifier it was requested by, only after its       *)
(* ModuleLink has returned.  So `stack' is a stack of native calls, and a  *)
(* module on it is not known to the hook.                                  *)
(*                                                                         *)
(* The engine is external: it asks for the imports of a module in their    *)
(* order, links a module once and evaluates its imports before its body.   *)
(***************************************************************************)
EXTENDS Naturals, Sequences, FiniteSets, SequencesExt

CONSTANTS
  Files,       \* the files that a program is made of
  Names,       \* the specifiers by which modules are requested
  Main,        \* the path of the top-level script
  FileOf,      \* the file that resolve_path finds for a specifier
  MaxImports,  \* bound: imports of a file
  MaxDepth     \* nested get_module calls that the native stack has room for

ASSUME NamesAssumption == IsFiniteSet(Names) /\ Main \in Names
ASSUME FileOfAssumption == FileOf \in [Names -> Files]
ASSUME BoundsAssumption == MaxImports \in Nat /\ MaxDepth \in Nat
ASSUME DepthAssumption == MaxDepth >= Cardinality(Names)

VARIABLES
  moduleMode,  \* MODULE_MODE
  imports,     \* per file, the specifiers that it imports
  fault,       \* per file, what is wrong with it
  pc,          \* what load_top_level_script is doing
  stack,       \* the modules that are being linked, or evaluated, and the next import of each
  registry,    \* the keys of moduleRegistry
  started,     \* the modules whose evaluation began
  compiled     \* history: how often a specifier was compiled

vars == <<moduleMode, imports, fault, pc, stack, registry, started, compiled>>
program == <<moduleMode, imports, fault>>

\* "unreadable": it cannot be read or compiled.  "unresolved": it imports a
\* name that the other module does not export.  "throws": its body throws.
Faults == {"none", "unreadable", "unresolved", "throws"}
\* The engine asks once for a specifier that a file imports several times.
Requests == {r \in SeqOf(Names, MaxImports) : IsInjective(r)}
Programs == [Files -> Requests]
Ended == {"evaluated", "rejected", "failed"}

Imports(n) == imports[FileOf[n]]
Top == Last(stack)
HasImport == Top.next <= Len(Imports(Top.name))
Import == Imports(Top.name)[Top.next]

\* What get_module asks first.
Known(n) == n \in registry

\* load_script and CompileModule succeed.
Compiles(n) == Len(stack) < MaxDepth /\ fault[FileOf[n]] # "unreadable"

\* Mutant: whether ModuleLink succeeded is not looked at.
MutantLinks(n) == TRUE

\* ModuleLink succeeds, once every import was found.
Links(n) == fault[FileOf[n]] # "unresolved"

\* The call for a module, on top of those under way.
Call(n) == Append(stack, [name |-> n, next |-> 1])

\* Mutant: the import is asked for again.
MutantResumed(calls) == calls

\* The calls below go on after the import that they asked for.
Resumed(calls) ==
  IF calls = <<>> THEN calls ELSE [calls EXCEPT ![Len(calls)].next = @ + 1]

\* Mutant: the module is not put into the registry.
MutantRegistered(n) == registry

\* MapSet, after ModuleLink.
Registered(n) == registry \cup {n}

Init ==
  /\ moduleMode \in BOOLEAN
  /\ imports \in Programs
  /\ fault \in [Files -> Faults]
  /\ Cardinality({f \in Files : fault[f] # "none"}) <= 1
  /\ pc = "start"
  /\ stack = <<>>
  /\ registry = {}
  /\ started = {}
  /\ compiled = [n \in Names |-> 0]

Compile(n) ==
  /\ Compiles(n)
  /\ stack' = Call(n)
  /\ compiled' = [compiled EXCEPT ![n] = @ + 1]
  /\ UNCHANGED <<registry, started>>

\* get_module returns nullptr, and every caller up to eval_toplevel with it.
Fail == pc' = "failed" /\ UNCHANGED <<stack, registry, started, compiled, program>>

OpenMain ==
  /\ pc = "start" /\ moduleMode
  /\ Compile(Main)
  /\ pc' = "linking"
  /\ UNCHANGED program

\* A classic script has no imports: one that has any does not compile.
Execute ==
  /\ pc = "start" /\ ~moduleMode
  /\ fault[FileOf[Main]] \in {"none", "unresolved"} /\ Imports(Main) = <<>>
  /\ pc' = "evaluated"
  /\ UNCHANGED <<stack, registry, started, compiled, program>>

OpenFails ==
  /\ pc = "start"
  /\ IF moduleMode
     THEN ~Compiles(Main)
     ELSE Imports(Main) # <<>> \/ fault[FileOf[Main]] \in {"unreadable", "throws"}
  /\ Fail

\* module_resolve_hook finds the module in the registry.
ResolveKnown ==
  /\ pc = "linking" /\ HasImport /\ Known(Import)
  /\ stack' = Resumed(stack)
  /\ UNCHANGED <<pc, registry, started, compiled, program>>

\* It compiles the module, and calls ModuleLink on it.
ResolveNew ==
  /\ pc = "linking" /\ HasImport /\ ~Known(Import)
  /\ Compile(Import)
  /\ UNCHANGED <<pc, program>>

ResolveFails ==
  /\ pc = "linking" /\ HasImport /\ ~Known(Import) /\ ~Compiles(Import)
  /\ Fail

\* ModuleLink has resolved every import and returns.
Linked ==
  /\ pc = "linking" /\ ~HasImport /\ Links(Top.name)
  /\ registry' = Registered(Top.name)
  /\ IF Len(stack) = 1
     THEN /\ pc' = "evaluating"
          /\ stack' = <<[name |-> Top.name, next |-> 1]>>
          /\ started' = {Top.name}
     ELSE /\ stack' = Resumed(Front(stack))
          /\ UNCHANGED <<pc, started>>
  /\ UNCHANGED <<compiled, program>>

LinkFails ==
  /\ pc = "linking" /\ ~HasImport /\ ~Links(Top.name)
  /\ Fail

\* ModuleEvaluate goes to the imports of a module, each of them once.
EvaluateImport ==
  /\ pc = "evaluating" /\ HasImport
  /\ started' = started \cup {Import}
  /\ stack' = IF Import \in started THEN Resumed(stack) ELSE Call(Import)
  /\ UNCHANGED <<pc, registry, compiled, program>>

\* Then it runs its body; what the body throws rejects the promise that it returns.
RunBody ==
  /\ pc = "evaluating" /\ ~HasImport
  /\ IF fault[FileOf[Top.name]] = "throws"
     THEN pc' = "rejected" /\ UNCHANGED stack
     ELSE /\ stack' = Resumed(Front(stack))
          /\ pc' = IF Len(stack) = 1 THEN "evaluated" ELSE pc
  /\ UNCHANGED <<registry, started, compiled, program>>

Next ==
  \/ OpenMain \/ Execute \/ OpenFails
  \/ ResolveKnown \/ ResolveNew \/ ResolveFails
  \/ Linked \/ LinkFails
  \/ EvaluateImport \/ RunBody

Spec == Init /\ [][Next]_vars
FairSpec == Spec /\ WF_vars(Next)

-----------------------------------------------------------------------------
(* What a program asks for, whatever the loader does. *)

\* What chains of imports lead to from the modules of a set: the least set that
\* has them and, with a module, its imports.
Closed(S) == \A n \in S : Range(Imports(n)) \subseteq S
Reached(from) == {n \in Names : \A S \in SUBSET Names : from \subseteq S /\ Closed(S) => n \in S}

Needed == Reached({Main})

Loadable ==
  \A n \in Needed :
    /\ fault[FileOf[n]] \notin {"unreadable", "unresolved"}
    /\ n \notin Reached(Range(Imports(n)))

-----------------------------------------------------------------------------
Frames == [name : Names, next : Nat \ {0}]

\* Type correctness.
TypeOK ==
  /\ moduleMode \in BOOLEAN
  /\ imports \in [Files -> Seq(Names)]
  /\ fault \in [Files -> Faults]
  /\ pc \in {"start", "linking", "evaluating"} \cup Ended
  /\ stack \in Seq(Frames)
  /\ pc \in {"linking", "evaluating"} => stack # <<>>
  /\ registry \in SUBSET Names
  /\ started \in SUBSET Names
  /\ compiled \in [Names -> Nat]

\* The resolve hook is called again while modules are evaluated, and would
\* compile, and link, a second copy of a module that it did not find: each
\* module that evaluation reaches, and each that it imports, is registered.
EvaluationFindsModules ==
  pc = "evaluating" =>
    \A i \in DOMAIN stack :
      Known(stack[i].name) /\ Range(Imports(stack[i].name)) \subseteq registry

\* However many modules import another, it is compiled once, although it is
\* registered late; and nothing is compiled that is not imported.
CompiledOnce ==
  moduleMode /\ pc \in {"evaluating", "evaluated", "rejected"} =>
    \A n \in Names : compiled[n] = IF n \in Needed THEN 1 ELSE 0

\* A program of modules fails to load if and only if a module that it needs
\* is missing, does not compile or link, or (as modules are registered after
\* they were linked) imports itself by way of others.
FailsForAReason ==
  moduleMode =>
    /\ pc = "failed" => ~Loadable
    /\ pc \in {"evaluating", "evaluated", "rejected"} => Loadable

\* Loading comes to an end, for cyclic imports too: they exhaust the stack.
LoadEnds == <>(pc \in Ended)
=============================================================================
