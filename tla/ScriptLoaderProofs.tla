------------------------- MODULE ScriptLoaderProofs -------------------------
(***************************************************************************)
(* Proofs about ScriptLoader, for any program, however large and whatever  *)
(* its imports: type correctness, that evaluation finds every module, that *)
(* each module is compiled once, and what makes a program fail to load.    *)
(***************************************************************************)
EXTENDS ScriptLoader, FiniteSetTheorems, TLAPS

\* The modules that r has are complete: their imports are in r, too.
Complete(r) == \A n \in r : \A j \in DOMAIN Imports(n) : Imports(n)[j] \in r

\* A module of a stack of ModuleLink calls: the imports in front of the next
\* one are in r, and the next one is the module that is linked above it.
Waits(s, r, i) ==
  /\ s[i].next <= Len(Imports(s[i].name)) + 1
  /\ \A j \in 1..(s[i].next - 1) : Imports(s[i].name)[j] \in r
  /\ i < Len(s) => /\ s[i].next <= Len(Imports(s[i].name))
                   /\ Imports(s[i].name)[s[i].next] = s[i + 1].name

Linking == pc = "linking" => \A i \in DOMAIN stack : Waits(stack, registry, i)
Evaluating == pc = "evaluating" => \A i \in DOMAIN stack : stack[i].name \in registry

\* The inductive invariant of the stack and the registry.
Inv ==
  /\ TypeOK
  /\ pc = "start" => stack = <<>>
  /\ Complete(registry)
  /\ Linking
  /\ Evaluating

\* What a module leads to.
Below(n) == Reached(Range(Imports(n)))

\* What can be linked: it compiles, its imports exist, and it does not import
\* itself by way of others.
Linkable(n) ==
  /\ fault[FileOf[n]] \notin {"unreadable", "unresolved"}
  /\ n \notin Below(n)

\* The modules that are being linked: a chain of imports from the main script,
\* none of which is registered yet.
Chain ==
  pc = "linking" =>
    /\ stack[1].name = Main
    /\ \A i \in DOMAIN stack :
         /\ stack[i].name \in Needed \ registry
         /\ fault[FileOf[stack[i].name]] # "unreadable"
    /\ \A i, j \in DOMAIN stack : i < j => stack[j].name \in Below(stack[i].name)

IsLinked(n) == pc = "linking" /\ \E i \in DOMAIN stack : stack[i].name = n

\* How often a module was compiled: one that is linked by two calls, which comes
\* to a bad end, more than once.
Counted ==
  /\ \A n \in registry : compiled[n] = 1
  /\ pc # "failed" => \A n \in Names \ registry : ~IsLinked(n) => compiled[n] = 0
  /\ pc = "linking" =>
       \A i \in DOMAIN stack :
         (\A j \in DOMAIN stack : j # i => stack[j].name # stack[i].name)
         => compiled[stack[i].name] = 1

\* The inductive invariant of the history, with Inv.
LoadInv ==
  /\ pc \in {"linking", "evaluating"} => moduleMode
  /\ pc = "start" => registry = {}
  /\ \A n \in registry : n \in Needed /\ Linkable(n)
  /\ Chain
  /\ Counted
  /\ moduleMode /\ pc \in {"evaluating", "evaluated", "rejected"} => Main \in registry
  /\ moduleMode /\ pc = "failed" => ~Loadable

-----------------------------------------------------------------------------
(* The stack. *)

LEMMA CallStack ==
  ASSUME stack \in Seq(Frames), NEW n \in Names
  PROVE  /\ Call(n) \in Seq(Frames)
         /\ Len(Call(n)) = Len(stack) + 1
         /\ Call(n)[Len(stack) + 1] = [name |-> n, next |-> 1]
         /\ \A i \in 1..Len(stack) : Call(n)[i] = stack[i]
BY DEF Call, Frames

\* What returning to the caller does, without and with a frame that goes.
LEMMA ResumedStack ==
  ASSUME NEW s \in Seq(Frames)
  PROVE  /\ Resumed(s) \in Seq(Frames)
         /\ Len(Resumed(s)) = Len(s)
         /\ \A i \in 1..Len(s) : Resumed(s)[i].name = s[i].name
         /\ \A i \in 1..(Len(s) - 1) : Resumed(s)[i] = s[i]
         /\ s # <<>> => Resumed(s)[Len(s)].next = s[Len(s)].next + 1
<1>1. CASE s = <<>>
  BY <1>1 DEF Resumed
<1>2. CASE s # <<>>
  <2> DEFINE l == Len(s)
             r == [s EXCEPT ![l].next = @ + 1]
  <2>1. l \in Nat /\ l >= 1 /\ DOMAIN s = 1..l /\ s \in [1..l -> Frames]
    BY <1>2
  <2>2. s[l] \in Frames
    BY <2>1
  <2>3. [s[l] EXCEPT !.next = @ + 1] = [name |-> s[l].name, next |-> s[l].next + 1]
    BY <2>2 DEF Frames
  <2>4. [s[l] EXCEPT !.next = @ + 1] \in Frames
    BY <2>2, <2>3 DEF Frames
  <2>5. r = [s EXCEPT ![l] = [s[l] EXCEPT !.next = @ + 1]]
    OBVIOUS
  <2>6. r \in [1..l -> Frames]
    BY <2>1, <2>4, <2>5
  <2>7. r \in Seq(Frames) /\ Len(r) = l
    BY <2>1, <2>6
  <2>8. r[l].name = s[l].name /\ r[l].next = s[l].next + 1
    BY <2>1, <2>3, <2>5
  <2>9. \A i \in 1..(l - 1) : r[i] = s[i]
    BY <2>1, <2>5
  <2> HIDE DEF r
  <2>10. Resumed(s) = r
    BY <1>2 DEF Resumed, r
  <2>11. \A i \in 1..l : r[i].name = s[i].name
    BY <2>1, <2>8, <2>9
  <2> QED BY <2>7, <2>8, <2>9, <2>10, <2>11
<1> QED BY <1>1, <1>2

LEMMA FrontStack ==
  ASSUME stack \in Seq(Frames), stack # <<>>
  PROVE  /\ Front(stack) \in Seq(Frames)
         /\ Len(Front(stack)) = Len(stack) - 1
         /\ \A i \in 1..(Len(stack) - 1) : Front(stack)[i] = stack[i]
<1>1. Len(stack) \in Nat /\ Len(stack) >= 1 /\ stack \in [1..Len(stack) -> Frames]
  OBVIOUS
<1>2. \A i \in 1..(Len(stack) - 1) : stack[i] \in Frames
  BY <1>1
<1>3. Front(stack) = [i \in 1..(Len(stack) - 1) |-> stack[i]]
  BY <1>1 DEF Front
<1> QED BY <1>1, <1>2, <1>3

LEMMA TopFrame ==
  ASSUME TypeOK, stack # <<>>
  PROVE  /\ Top = stack[Len(stack)] /\ Top \in Frames
         /\ Top.name \in Names /\ Top.next \in Nat /\ Top.next >= 1
         /\ Len(stack) \in Nat /\ Len(stack) >= 1 /\ DOMAIN stack = 1..Len(stack)
<1>1. stack \in Seq(Frames) /\ Len(stack) \in Nat /\ Len(stack) >= 1
  BY DEF TypeOK
<1>2. stack[Len(stack)] \in Frames
  BY <1>1
<1> QED BY <1>1, <1>2 DEF Top, Last, Frames

LEMMA ImportsType ==
  ASSUME TypeOK, NEW n \in Names
  PROVE  /\ Imports(n) \in Seq(Names) /\ Len(Imports(n)) \in Nat
         /\ DOMAIN Imports(n) = 1..Len(Imports(n))
BY FileOfAssumption DEF TypeOK, Imports

LEMMA ImportType ==
  ASSUME TypeOK, stack # <<>>, HasImport
  PROVE  Import \in Names /\ Import = Imports(Top.name)[Top.next]
         /\ Top.next \in DOMAIN Imports(Top.name)
<1>1. Top.name \in Names /\ Top.next \in Nat /\ Top.next >= 1
  BY TopFrame
<1>2. Imports(Top.name) \in Seq(Names) /\ DOMAIN Imports(Top.name) = 1..Len(Imports(Top.name))
  BY <1>1, ImportsType
<1> QED BY <1>1, <1>2 DEF Import, HasImport

-----------------------------------------------------------------------------
(* The invariant. *)

LEMMA InitInv == Init => Inv
<1> SUFFICES ASSUME Init PROVE Inv
  OBVIOUS
<1>1. imports \in [Files -> Seq(Names)]
  <2>1. \A m \in Nat : [1..m -> Names] \subseteq Seq(Names)
    OBVIOUS
  <2>2. \A m \in 0..MaxImports : m \in Nat
    BY BoundsAssumption
  <2>3. Requests \subseteq Seq(Names)
    BY <2>1, <2>2 DEF Requests, SeqOf
  <2> QED BY <2>3 DEF Init, Programs
<1>2. TypeOK
  BY <1>1 DEF Init, TypeOK, Ended, Frames
<1>3. Complete(registry)
  BY DEF Init, Complete
<1> QED BY <1>2, <1>3 DEF Init, Inv, Linking, Evaluating

\* Linking goes on with a module on top of the stack.
LEMMA CompileStep ==
  ASSUME Inv, NEW n \in Names, Compile(n), pc' = "linking", UNCHANGED program,
         pc \in {"start", "linking"},
         stack # <<>> => HasImport /\ n = Import
  PROVE  Inv'
<1>0. stack \in Seq(Frames) /\ TypeOK
  BY DEF Inv, TypeOK
<1>1. /\ stack' \in Seq(Frames)
      /\ Len(stack') = Len(stack) + 1
      /\ stack'[Len(stack) + 1] = [name |-> n, next |-> 1]
      /\ \A i \in 1..Len(stack) : stack'[i] = stack[i]
  BY <1>0, CallStack DEF Compile
<1>2. stack' # <<>> /\ DOMAIN stack' = 1..(Len(stack) + 1) /\ Len(stack) \in Nat
  BY <1>0, <1>1
<1>3. compiled' \in [Names -> Nat]
  BY <1>0 DEF Compile, TypeOK
<1>4. TypeOK'
  BY <1>0, <1>1, <1>2, <1>3 DEF TypeOK, Compile, program
<1>5. ASSUME NEW m PROVE Imports(m)' = Imports(m)
  BY DEF Imports, program
<1>6. registry' = registry
  BY DEF Compile
<1>7. ASSUME NEW i \in DOMAIN stack' PROVE Waits(stack, registry, i)'
  <2>1. CASE i = Len(stack) + 1
    <3>1. Len(Imports(n)) \in Nat
      BY <1>0, ImportsType
    <3> QED BY <1>1, <1>2, <1>5, <2>1, <3>1 DEF Waits
  <2>2. CASE i = Len(stack)
    <3>1. stack # <<>> /\ pc = "linking" /\ i \in DOMAIN stack
      BY <1>0, <1>2, <2>2 DEF Inv
    <3>2. Waits(stack, registry, i)
      BY <3>1 DEF Inv, Linking
    <3>3. HasImport /\ n = Imports(stack[i].name)[stack[i].next] /\ stack[i] = Top
      BY <1>0, <2>2, <3>1, ImportType, TopFrame
    <3>4. stack'[i] = stack[i] /\ stack'[i + 1].name = n
      BY <1>1, <1>2, <2>2, <3>1
    <3> QED BY <1>5, <1>6, <3>2, <3>3, <3>4 DEF Waits, HasImport
  <2>3. CASE i < Len(stack)
    <3>1. stack # <<>> /\ pc = "linking" /\ i \in DOMAIN stack /\ i + 1 \in 1..Len(stack)
      BY <1>0, <1>2, <2>3 DEF Inv
    <3>2. Waits(stack, registry, i)
      BY <3>1 DEF Inv, Linking
    <3>3. stack'[i] = stack[i] /\ stack'[i + 1] = stack[i + 1]
      BY <1>0, <1>1, <3>1
    <3> QED BY <1>5, <1>6, <2>3, <3>2, <3>3 DEF Waits
  <2> QED BY <1>2, <2>1, <2>2, <2>3
<1>8. Complete(registry)'
  BY <1>5, <1>6 DEF Inv, Complete
<1> QED BY <1>4, <1>7, <1>8 DEF Inv, Linking, Evaluating

LEMMA FailStep ==
  ASSUME Inv, Fail
  PROVE  Inv'
<1>1. TypeOK'
  BY DEF Inv, Fail, TypeOK, program, Ended
<1>2. Complete(registry)'
  BY DEF Inv, Fail, Complete, Imports, program
<1> QED BY <1>1, <1>2 DEF Inv, Fail, Linking, Evaluating

LEMMA ResolveKnownStep ==
  ASSUME Inv, ResolveKnown
  PROVE  Inv'
<1>0. /\ TypeOK /\ stack \in Seq(Frames) /\ pc = "linking" /\ pc' = pc /\ HasImport
      /\ stack # <<>> /\ Import \in registry /\ stack' = Resumed(stack)
      /\ UNCHANGED <<registry, started, compiled, program>>
  BY DEF Inv, TypeOK, ResolveKnown, Known
<1> DEFINE l == Len(stack)
<1>1. /\ stack' \in Seq(Frames) /\ Len(stack') = l
      /\ \A i \in 1..l : stack'[i].name = stack[i].name
      /\ \A i \in 1..(l - 1) : stack'[i] = stack[i]
      /\ stack'[l].next = stack[l].next + 1
  BY <1>0, ResumedStack
<1>2. /\ l \in Nat /\ l >= 1 /\ DOMAIN stack = 1..l /\ DOMAIN stack' = 1..l
      /\ Top = stack[l] /\ Top.next \in Nat /\ Top.name \in Names
  BY <1>0, <1>1, TopFrame
<1>3. TypeOK'
  BY <1>0, <1>1, <1>2 DEF TypeOK, program
<1>4. ASSUME NEW m PROVE Imports(m)' = Imports(m)
  BY <1>0 DEF Imports, program
<1>5. ASSUME NEW i \in DOMAIN stack' PROVE Waits(stack, registry, i)'
  <2>1. Waits(stack, registry, i)
    BY <1>0, <1>2 DEF Inv, Linking
  <2>2. CASE i = l
    <3>1. Len(Imports(Top.name)) \in Nat /\ Top.next <= Len(Imports(Top.name))
      BY <1>0, <1>2, ImportsType DEF HasImport
    <3>2. Imports(Top.name)[Top.next] \in registry
      BY <1>0, ImportType
    <3>3. \A j \in 1..Top.next : Imports(Top.name)[j] \in registry
      BY <1>2, <2>1, <2>2, <3>2 DEF Waits
    <3>4. stack'[i].name = Top.name /\ stack'[i].next = Top.next + 1
      BY <1>1, <1>2, <2>2
    <3> QED BY <1>0, <1>1, <1>2, <1>4, <2>2, <3>1, <3>3, <3>4 DEF Waits
  <2>3. CASE i < l
    <3>1. i \in 1..(l - 1) /\ i + 1 \in 1..l
      BY <1>2, <2>3
    <3>2. stack'[i] = stack[i] /\ stack'[i + 1].name = stack[i + 1].name
      BY <1>1, <3>1
    <3> QED BY <1>0, <1>1, <1>4, <2>1, <3>2 DEF Waits
  <2> QED BY <1>2, <2>2, <2>3
<1>6. Complete(registry)'
  BY <1>0, <1>4 DEF Inv, Complete
<1> QED BY <1>0, <1>3, <1>5, <1>6 DEF Inv, Linking, Evaluating

\* The module that was linked is complete, and its importer goes on.
LEMMA LinkedStep ==
  ASSUME Inv, Linked
  PROVE  Inv'
<1> DEFINE l == Len(stack)
           f == Front(stack)
<1>0. /\ TypeOK /\ stack \in Seq(Frames) /\ pc = "linking" /\ ~HasImport
      /\ stack # <<>> /\ registry' = registry \cup {Top.name}
      /\ UNCHANGED <<compiled, program>>
  BY DEF Inv, TypeOK, Linked, Registered
<1>2. /\ l \in Nat /\ l >= 1 /\ DOMAIN stack = 1..l
      /\ Top = stack[l] /\ Top.next \in Nat /\ Top.name \in Names
  BY <1>0, TopFrame
<1>4. ASSUME NEW m PROVE Imports(m)' = Imports(m)
  BY <1>0 DEF Imports, program
<1>5. Complete(registry)'
  <2>1. Waits(stack, registry, l)
    BY <1>0, <1>2 DEF Inv, Linking
  <2>2. Len(Imports(Top.name)) \in Nat /\ DOMAIN Imports(Top.name) = 1..Len(Imports(Top.name))
    BY <1>0, <1>2, ImportsType
  <2>3. \A j \in DOMAIN Imports(Top.name) : Imports(Top.name)[j] \in registry
    BY <1>0, <1>2, <2>1, <2>2 DEF Waits, HasImport
  <2>4. \A n \in registry' : \A j \in DOMAIN Imports(n) : Imports(n)[j] \in registry'
    BY <1>0, <2>3 DEF Inv, Complete
  <2> QED BY <1>4, <2>4 DEF Complete
<1>6. CASE l = 1
  <2>1. /\ pc' = "evaluating" /\ stack' = <<[name |-> Top.name, next |-> 1]>>
        /\ started' = {Top.name}
    BY <1>6 DEF Linked
  <2>2. stack' \in Seq(Frames) /\ stack' # <<>>
    BY <1>2, <2>1 DEF Frames
  <2>3. TypeOK'
    BY <1>0, <1>2, <2>1, <2>2 DEF TypeOK, program
  <2>4. \A i \in DOMAIN stack' : stack'[i].name \in registry'
    BY <1>0, <2>1
  <2> QED BY <1>5, <2>1, <2>3, <2>4 DEF Inv, Linking, Evaluating
<1>7. CASE l # 1
  <2>1. stack' = Resumed(f) /\ pc' = "linking" /\ started' = started
    BY <1>0, <1>7 DEF Linked
  <2>2. /\ f \in Seq(Frames) /\ Len(f) = l - 1 /\ f # <<>>
        /\ \A i \in 1..(l - 1) : f[i] = stack[i]
    <3>1. f \in Seq(Frames) /\ Len(f) = l - 1 /\ \A i \in 1..(l - 1) : f[i] = stack[i]
      BY <1>0, FrontStack
    <3> QED BY <1>2, <1>7, <3>1
  <2>3. /\ stack' \in Seq(Frames) /\ Len(stack') = l - 1
        /\ \A i \in 1..(l - 1) : stack'[i].name = f[i].name
        /\ \A i \in 1..(l - 2) : stack'[i] = f[i]
        /\ stack'[l - 1].next = f[l - 1].next + 1
    <3> HIDE DEF f
    <3>1. l - 1 - 1 = l - 2
      BY <1>2
    <3>2. f \in Seq(Frames) /\ f # <<>> /\ Len(f) = l - 1
      BY <2>2
    <3>3. /\ Resumed(f) \in Seq(Frames) /\ Len(Resumed(f)) = Len(f)
          /\ \A i \in 1..Len(f) : Resumed(f)[i].name = f[i].name
          /\ \A i \in 1..(Len(f) - 1) : Resumed(f)[i] = f[i]
          /\ Resumed(f)[Len(f)].next = f[Len(f)].next + 1
      BY <3>2, ResumedStack
    <3> QED BY <2>1, <3>1, <3>2, <3>3
  <2>4. DOMAIN stack' = 1..(l - 1) /\ stack' # <<>>
    BY <1>2, <1>7, <2>3
  <2>5. TypeOK'
    BY <1>0, <1>2, <2>1, <2>3, <2>4 DEF TypeOK, program
  <2>6. ASSUME NEW i \in DOMAIN stack' PROVE Waits(stack, registry, i)'
    <3>1. i \in 1..(l - 1) /\ i \in DOMAIN stack /\ i + 1 \in 1..l /\ i < l
      BY <1>2, <2>4
    <3>2. Waits(stack, registry, i)
      BY <1>0, <3>1 DEF Inv, Linking
    <3>3. stack[i].next \in Nat /\ stack[i].name \in Names
      <4>1. stack[i] \in Frames
        BY <1>0, <1>2, <3>1
      <4> QED BY <4>1 DEF Frames
    <3>4. Len(Imports(stack[i].name)) \in Nat
      BY <1>0, <3>3, ImportsType
    <3>5. CASE i = l - 1
      <4>1. stack'[i].name = stack[i].name /\ stack'[i].next = stack[i].next + 1
        <5>1. f[i] = stack[i] /\ stack'[i].name = f[i].name
          BY <2>2, <2>3, <3>1
        <5>2. stack'[i].next = f[i].next + 1
          BY <2>3, <3>5
        <5> QED BY <5>1, <5>2
      <4>2. /\ stack[i].next <= Len(Imports(stack[i].name))
            /\ Imports(stack[i].name)[stack[i].next] = Top.name
        BY <1>2, <3>1, <3>2, <3>5 DEF Waits
      <4>3. \A j \in 1..stack[i].next : Imports(stack[i].name)[j] \in registry'
        BY <1>0, <3>2, <3>3, <4>2 DEF Waits
      <4> QED BY <1>2, <1>4, <2>3, <3>3, <3>4, <3>5, <4>1, <4>2, <4>3 DEF Waits
    <3>6. CASE i < l - 1
      <4>1. i \in 1..(l - 2) /\ i + 1 \in 1..(l - 1)
        BY <1>2, <3>1, <3>6
      <4>2. stack'[i] = stack[i] /\ stack'[i + 1].name = stack[i + 1].name
        BY <2>2, <2>3, <3>1, <4>1
      <4> QED BY <1>0, <1>2, <1>4, <2>3, <3>1, <3>2, <4>2 DEF Waits
    <3> QED BY <1>2, <3>1, <3>5, <3>6
  <2> QED BY <1>5, <2>1, <2>5, <2>6 DEF Inv, Linking, Evaluating
<1> QED BY <1>6, <1>7

LEMMA EvaluateImportStep ==
  ASSUME Inv, EvaluateImport
  PROVE  Inv'
<1>0. /\ TypeOK /\ stack \in Seq(Frames) /\ pc = "evaluating" /\ pc' = pc /\ HasImport
      /\ stack # <<>> /\ started' = started \cup {Import}
      /\ stack' = IF Import \in started THEN Resumed(stack) ELSE Call(Import)
      /\ UNCHANGED <<registry, compiled, program>>
  BY DEF Inv, TypeOK, EvaluateImport
<1>1. /\ Import \in Names /\ Import = Imports(Top.name)[Top.next]
      /\ Top.next \in DOMAIN Imports(Top.name)
  BY <1>0, ImportType
<1>2. Len(stack) \in Nat /\ Len(stack) >= 1 /\ DOMAIN stack = 1..Len(stack) /\ Top = stack[Len(stack)]
  BY <1>0, TopFrame
<1>3. \A i \in DOMAIN stack : stack[i].name \in registry
  BY <1>0 DEF Inv, Evaluating
<1>4. Import \in registry
  BY <1>1, <1>2, <1>3 DEF Inv, Complete
<1>5. /\ stack' \in Seq(Frames) /\ stack' # <<>>
      /\ \A i \in DOMAIN stack' : stack'[i].name \in registry
  <2>1. CASE Import \in started
    <3>1. /\ stack' \in Seq(Frames) /\ Len(stack') = Len(stack)
          /\ \A i \in 1..Len(stack) : stack'[i].name = stack[i].name
      BY <1>0, <2>1, ResumedStack
    <3> QED BY <1>2, <1>3, <3>1
  <2>2. CASE Import \notin started
    <3>1. /\ stack' \in Seq(Frames) /\ Len(stack') = Len(stack) + 1
          /\ stack'[Len(stack) + 1] = [name |-> Import, next |-> 1]
          /\ \A i \in 1..Len(stack) : stack'[i] = stack[i]
      BY <1>0, <1>1, <2>2, CallStack
    <3>2. DOMAIN stack' = 1..(Len(stack) + 1)
      BY <1>2, <3>1
    <3> QED BY <1>2, <1>3, <1>4, <3>1, <3>2
  <2> QED BY <2>1, <2>2
<1>6. TypeOK'
  BY <1>0, <1>1, <1>5 DEF TypeOK, program
<1>7. Complete(registry)'
  BY <1>0 DEF Inv, Complete, Imports, program
<1> QED BY <1>0, <1>5, <1>6, <1>7 DEF Inv, Linking, Evaluating

LEMMA RunBodyStep ==
  ASSUME Inv, RunBody
  PROVE  Inv'
<1> DEFINE l == Len(stack)
<1>0. /\ TypeOK /\ stack \in Seq(Frames) /\ pc = "evaluating" /\ stack # <<>>
      /\ UNCHANGED <<registry, started, compiled, program>>
  BY DEF Inv, TypeOK, RunBody
<1>1. Complete(registry)'
  BY <1>0 DEF Inv, Complete, Imports, program
<1>2. CASE fault[FileOf[Top.name]] = "throws"
  <2>1. pc' = "rejected" /\ stack' = stack
    BY <1>2 DEF RunBody
  <2>2. TypeOK'
    BY <1>0, <2>1 DEF TypeOK, program, Ended
  <2> QED BY <1>1, <2>1, <2>2 DEF Inv, Linking, Evaluating
<1>3. CASE fault[FileOf[Top.name]] # "throws"
  <2>1. stack' = Resumed(Front(stack)) /\ pc' = IF l = 1 THEN "evaluated" ELSE "evaluating"
    BY <1>0, <1>3 DEF RunBody
  <2>2. /\ Front(stack) \in Seq(Frames) /\ Len(Front(stack)) = l - 1
        /\ \A i \in 1..(l - 1) : Front(stack)[i] = stack[i]
    BY <1>0, FrontStack
  <2>3. l \in Nat /\ l >= 1 /\ DOMAIN stack = 1..l
    BY <1>0, TopFrame
  <2>4. /\ stack' \in Seq(Frames) /\ Len(stack') = l - 1
        /\ \A i \in 1..(l - 1) : stack'[i].name = stack[i].name
    BY <2>1, <2>2, ResumedStack
  <2>5. l # 1 => stack' # <<>>
    BY <2>3, <2>4
  <2>6. TypeOK'
    BY <1>0, <2>1, <2>4, <2>5 DEF TypeOK, program, Ended
  <2>7. \A i \in DOMAIN stack : stack[i].name \in registry
    BY <1>0 DEF Inv, Evaluating
  <2>8. \A i \in DOMAIN stack' : stack'[i].name \in registry'
    BY <1>0, <2>3, <2>4, <2>7
  <2> QED BY <1>1, <2>1, <2>6, <2>8 DEF Inv, Linking, Evaluating
<1> QED BY <1>2, <1>3

LEMMA NextInv == Inv /\ [Next]_vars => Inv'
<1> SUFFICES ASSUME Inv, [Next]_vars PROVE Inv'
  OBVIOUS
<1>1. CASE OpenMain
  BY <1>1, NamesAssumption, CompileStep DEF OpenMain, Inv
<1>2. CASE Execute
  <2>1. TypeOK'
    BY <1>2 DEF Execute, Inv, TypeOK, program, Ended
  <2>2. Complete(registry)'
    BY <1>2 DEF Execute, Inv, Complete, Imports, program
  <2> QED BY <1>2, <2>1, <2>2 DEF Execute, Inv, Linking, Evaluating
<1>3. CASE OpenFails \/ ResolveFails \/ LinkFails
  BY <1>3, FailStep DEF OpenFails, ResolveFails, LinkFails
<1>4. CASE ResolveKnown
  BY <1>4, ResolveKnownStep
<1>5. CASE ResolveNew
  <2>1. pc = "linking" /\ HasImport /\ Compile(Import) /\ pc' = pc /\ UNCHANGED program
    BY <1>5 DEF ResolveNew
  <2>2. TypeOK /\ stack # <<>>
    BY <2>1 DEF Inv, TypeOK
  <2>3. Import \in Names
    BY <2>1, <2>2, ImportType
  <2> QED BY <2>1, <2>3, CompileStep
<1>6. CASE Linked
  BY <1>6, LinkedStep
<1>7. CASE EvaluateImport
  BY <1>7, EvaluateImportStep
<1>8. CASE RunBody
  BY <1>8, RunBodyStep
<1>9. CASE UNCHANGED vars
  <2>1. TypeOK'
    BY <1>9 DEF vars, Inv, TypeOK
  <2>2. Complete(registry)'
    BY <1>9 DEF vars, Inv, Complete, Imports
  <2>3. Linking' /\ Evaluating'
    BY <1>9 DEF vars, Inv, Linking, Evaluating, Waits, Imports
  <2> QED BY <1>9, <2>1, <2>2, <2>3 DEF vars, Inv
<1> QED BY <1>1, <1>2, <1>3, <1>4, <1>5, <1>6, <1>7, <1>8, <1>9 DEF Next

-----------------------------------------------------------------------------
(* What a program asks for: the imports do not change, nor what they lead to. *)

LEMMA ReachedHas ==
  ASSUME NEW S \in SUBSET Names
  PROVE  S \subseteq Reached(S) /\ Reached(S) \subseteq Names
BY DEF Reached

\* What is reached has its imports.
LEMMA ReachedIsClosed ==
  ASSUME TypeOK, NEW S, NEW n \in Reached(S)
  PROVE  /\ n \in Names /\ Range(Imports(n)) \subseteq Reached(S)
<1>1. n \in Names
  BY DEF Reached
<1>2. ASSUME NEW m \in Range(Imports(n)) PROVE m \in Reached(S)
  <2>1. m \in Names
    BY <1>1, <1>2, ImportsType DEF Range
  <2>2. ASSUME NEW T \in SUBSET Names, S \subseteq T, Closed(T) PROVE m \in T
    <3>1. n \in T
      BY <2>2 DEF Reached
    <3> QED BY <1>2, <2>2, <3>1 DEF Closed
  <2> QED BY <2>1, <2>2 DEF Reached
<1> QED BY <1>1, <1>2

LEMMA ReachedIsLeast ==
  ASSUME NEW S, NEW T \in SUBSET Names, S \subseteq T, Closed(T)
  PROVE  Reached(S) \subseteq T
BY DEF Reached

LEMMA ImportsBelow ==
  ASSUME TypeOK, NEW n \in Names
  PROVE  Range(Imports(n)) \subseteq Names /\ Range(Imports(n)) \subseteq Below(n)
<1>1. Range(Imports(n)) \in SUBSET Names
  BY ImportsType DEF Range
<1> QED BY <1>1, ReachedHas DEF Below

LEMMA MainNeeded == Main \in Needed
BY NamesAssumption, ReachedHas DEF Needed

LEMMA ProgramStays ==
  ASSUME UNCHANGED program
  PROVE  /\ moduleMode' = moduleMode /\ fault' = fault /\ Needed' = Needed
         /\ \A n : Imports(n)' = Imports(n)
         /\ \A n : Below(n)' = Below(n)
         /\ \A n : Linkable(n)' <=> Linkable(n)
         /\ Loadable' <=> Loadable
<1>1. moduleMode' = moduleMode /\ imports' = imports /\ fault' = fault
  BY DEF program
<1>2. ASSUME NEW n PROVE Imports(n)' = Imports(n)
  BY <1>1 DEF Imports
<1>3. ASSUME NEW n PROVE Below(n)' = Below(n)
  BY <1>1 DEF Below, Reached, Closed, Imports
<1>4. Needed' = Needed
  BY <1>1 DEF Needed, Reached, Closed, Imports
<1>5. ASSUME NEW n PROVE Linkable(n)' <=> Linkable(n)
  BY <1>1, <1>3 DEF Linkable
<1>6. Loadable <=> \A n \in Needed : Linkable(n)
  BY DEF Loadable, Linkable, Below
<1>7. Loadable' <=> \A n \in Needed' : Linkable(n)'
  BY DEF Loadable, Linkable, Below
<1> QED BY <1>1, <1>2, <1>3, <1>4, <1>5, <1>6, <1>7

\* A module that is needed and cannot be linked is a reason to fail.
LEMMA Unloadable ==
  ASSUME NEW n \in Needed, ~Linkable(n)
  PROVE  ~Loadable
BY DEF Loadable, Linkable, Below

\* What is registered is all that is needed, as the imports of each module of the
\* registry are in it.
LEMMA RegistryIsNeeded ==
  ASSUME Inv, LoadInv, Main \in registry
  PROVE  registry = Needed
<1>1. registry \in SUBSET Names /\ {Main} \subseteq registry
  BY DEF Inv, TypeOK
<1>2. Closed(registry)
  BY DEF Inv, Complete, Closed, Range
<1>3. Needed \subseteq registry
  BY <1>1, <1>2, ReachedIsLeast DEF Needed
<1> QED BY <1>3 DEF LoadInv

-----------------------------------------------------------------------------
(* The chain of modules that are being linked. *)

LEMMA InitLoad == Init => LoadInv
BY DEF Init, LoadInv, Chain, Counted

\* A module goes on top of the stack.
LEMMA CompileLoad ==
  ASSUME Inv, Inv', LoadInv, NEW n \in Names, Compile(n), pc' = "linking", UNCHANGED program,
         pc \in {"start", "linking"}, moduleMode,
         n \notin registry,
         IF pc = "start" THEN n = Main ELSE HasImport /\ n = Import
  PROVE  LoadInv'
<1> DEFINE l == Len(stack)
<1>0. stack \in Seq(Frames) /\ TypeOK /\ l \in Nat /\ DOMAIN stack = 1..l
  BY DEF Inv, TypeOK
<1>1. /\ \A i \in 1..l : stack'[i] = stack[i]
      /\ stack'[l + 1].name = n /\ DOMAIN stack' = 1..(l + 1)
  <2>1. /\ stack' \in Seq(Frames)
        /\ Len(stack') = Len(stack) + 1
        /\ stack'[Len(stack) + 1] = [name |-> n, next |-> 1]
        /\ \A i \in 1..Len(stack) : stack'[i] = stack[i]
    BY <1>0, CallStack DEF Compile
  <2> QED BY <1>0, <2>1
<1>2. /\ registry' = registry /\ fault[FileOf[n]] # "unreadable"
      /\ compiled' = [compiled EXCEPT ![n] = @ + 1]
  BY DEF Compile, Compiles
<1>3. /\ moduleMode' = moduleMode /\ fault' = fault /\ Needed' = Needed
      /\ \A m : Below(m)' = Below(m)
      /\ \A m : Linkable(m)' <=> Linkable(m)
  BY ProgramStays
<1>4. l # 0 => /\ pc = "linking" /\ stack[1].name = Main
               /\ n \in Range(Imports(stack[l].name)) /\ stack[l].name \in Names
               /\ stack[l].name \in Needed
  <2> SUFFICES ASSUME l # 0
               PROVE  /\ pc = "linking" /\ stack[1].name = Main
                      /\ n \in Range(Imports(stack[l].name)) /\ stack[l].name \in Names
                      /\ stack[l].name \in Needed
    OBVIOUS
  <2>1. pc = "linking" /\ HasImport /\ n = Import /\ stack # <<>>
    BY <1>0 DEF Inv
  <2>2. Top = stack[l] /\ Top.name \in Names
    BY <1>0, <2>1, TopFrame
  <2>3. n = Imports(Top.name)[Top.next] /\ Top.next \in DOMAIN Imports(Top.name)
    BY <1>0, <2>1, ImportType
  <2>4. stack[1].name = Main /\ stack[l].name \in Needed
    BY <1>0, <2>1 DEF LoadInv, Chain
  <2> QED BY <2>1, <2>2, <2>3, <2>4 DEF Range
<1>5. n \in Needed
  <2>1. CASE l = 0
    <3>1. pc = "start"
      BY <1>0, <2>1 DEF Inv, TypeOK
    <3> QED BY <3>1, MainNeeded
  <2>2. CASE l # 0
    BY <1>0, <1>4, <2>2, ReachedIsClosed DEF Needed
  <2> QED BY <2>1, <2>2
<1>6. ASSUME NEW i \in 1..l PROVE n \in Below(stack[i].name) /\ l # 0
  <2>1. l # 0 /\ i \in 1..l /\ l \in 1..l
    BY <1>0, <1>6
  <2>2. CASE i = l
    BY <1>0, <1>4, <2>1, <2>2, ImportsBelow
  <2>3. CASE i < l
    <3>1. stack[l].name \in Below(stack[i].name)
      BY <1>0, <1>4, <2>1, <2>3 DEF LoadInv, Chain
    <3> QED BY <1>0, <1>4, <2>1, <3>1, ReachedIsClosed DEF Below
  <2>4. i = l \/ i < l
    <3>1. l \in Nat /\ i \in 1..l
      BY <1>0, <1>6
    <3> HIDE DEF l
    <3> QED BY <3>1
  <2> QED BY <2>1, <2>2, <2>3, <2>4
<1>7. Chain'
  <2>1. stack'[1].name = Main
    <3>1. CASE l = 0
      <4>1. pc = "start"
        BY <1>0, <3>1 DEF Inv, TypeOK
      <4> QED BY <1>1, <3>1, <4>1
    <3>2. CASE l # 0
      BY <1>0, <1>1, <1>4, <3>2
    <3> QED BY <3>1, <3>2
  <2>2. ASSUME NEW i \in 1..(l + 1)
        PROVE  /\ stack'[i].name \in Needed \ registry
               /\ fault[FileOf[stack'[i].name]] # "unreadable"
    <3>1. CASE i = l + 1
      BY <1>1, <1>2, <1>5, <3>1
    <3>2. CASE i \in 1..l
      <4>1. pc = "linking" /\ stack'[i] = stack[i] /\ i \in DOMAIN stack
        BY <1>0, <1>1, <1>4, <1>6, <3>2
      <4> QED BY <4>1 DEF LoadInv, Chain
    <3> QED BY <1>0, <3>1, <3>2
  <2>3. ASSUME NEW i \in 1..(l + 1), NEW j \in 1..(l + 1), i < j
        PROVE  stack'[j].name \in Below(stack'[i].name)
    <3>1. i \in 1..l /\ stack'[i] = stack[i]
      BY <1>0, <1>1, <2>3
    <3>2. CASE j = l + 1
      BY <1>1, <1>6, <3>1, <3>2
    <3>3. CASE j \in 1..l
      <4>1. pc = "linking" /\ stack'[j] = stack[j] /\ i \in DOMAIN stack /\ j \in DOMAIN stack
        BY <1>0, <1>1, <1>4, <1>6, <3>1, <3>3
      <4> QED BY <2>3, <3>1, <4>1 DEF LoadInv, Chain
    <3> QED BY <1>0, <3>2, <3>3
  <2> QED BY <1>1, <1>2, <1>3, <2>1, <2>2, <2>3 DEF Chain
<1>8. Counted'
  <2>0. compiled \in [Names -> Nat] /\ registry \subseteq Names
    BY <1>0 DEF TypeOK
  <2>1. \A m \in registry' : compiled'[m] = 1
    BY <1>2, <2>0 DEF LoadInv, Counted
  <2>2. ASSUME NEW m \in Names \ registry', ~IsLinked(m)' PROVE compiled'[m] = 0
    <3>1. m # n /\ ~IsLinked(m) /\ pc # "failed"
      <4>1. \A i \in 1..(l + 1) : stack'[i].name # m
        BY <1>1, <2>2 DEF IsLinked
      <4>2. m # n
        BY <1>0, <1>1, <4>1
      <4>3. \A i \in 1..l : stack[i].name # m
        BY <1>0, <1>1, <4>1
      <4> QED BY <1>0, <4>2, <4>3 DEF IsLinked
    <3>2. compiled[m] = 0
      BY <1>2, <2>2, <3>1 DEF LoadInv, Counted
    <3> QED BY <1>2, <2>0, <3>1, <3>2
  <2>3. ASSUME NEW i \in 1..(l + 1), \A j \in 1..(l + 1) : j # i => stack'[j].name # stack'[i].name
        PROVE  compiled'[stack'[i].name] = 1
    <3>1. CASE i = l + 1
      <4>1. \A j \in 1..l : stack[j].name # n
        BY <1>0, <1>1, <2>3, <3>1
      <4>2. ~IsLinked(n) /\ pc # "failed"
        BY <1>0, <4>1 DEF IsLinked
      <4>3. compiled[n] = 0
        BY <4>2 DEF LoadInv, Counted
      <4> QED BY <1>1, <1>2, <2>0, <3>1, <4>3
    <3>2. CASE i \in 1..l
      <4>1. stack'[i] = stack[i] /\ i \in DOMAIN stack /\ pc = "linking"
        BY <1>0, <1>1, <1>4, <1>6, <3>2
      <4>2. \A j \in DOMAIN stack : j # i => stack[j].name # stack[i].name
        BY <1>0, <1>1, <2>3, <4>1
      <4>3. compiled[stack[i].name] = 1
        BY <4>1, <4>2 DEF LoadInv, Counted
      <4>4. stack[i].name # n
        <5>1. l + 1 \in 1..(l + 1) /\ l + 1 # i
          BY <1>0, <3>2
        <5> QED BY <1>1, <2>3, <4>1, <5>1
      <4>5. stack[i].name \in Names
        BY <1>0, <4>1, <3>2 DEF LoadInv, Chain, Needed, Reached
      <4> QED BY <1>2, <2>0, <4>1, <4>3, <4>4, <4>5
    <3> QED BY <1>0, <3>1, <3>2
  <2> QED BY <1>1, <2>1, <2>2, <2>3 DEF Counted
<1>9. \A m \in registry' : m \in Needed' /\ Linkable(m)'
  BY <1>2, <1>3 DEF LoadInv
<1> QED BY <1>3, <1>7, <1>8, <1>9 DEF LoadInv

\* get_module gives up.
LEMMA FailLoad ==
  ASSUME Inv, LoadInv, Fail, moduleMode => ~Loadable
  PROVE  LoadInv'
<1>1. /\ moduleMode' = moduleMode /\ Needed' = Needed
      /\ \A m : Linkable(m)' <=> Linkable(m)
      /\ Loadable' <=> Loadable
  BY ProgramStays DEF Fail
<1>2. pc' = "failed" /\ registry' = registry /\ compiled' = compiled
  BY DEF Fail
<1>3. Counted'
  BY <1>2 DEF LoadInv, Counted
<1> QED BY <1>1, <1>2, <1>3 DEF LoadInv, Chain

LEMMA OpenFailsLoad ==
  ASSUME Inv, LoadInv, OpenFails
  PROVE  LoadInv'
<1>1. ASSUME moduleMode PROVE ~Loadable
  <2>1. stack = <<>> /\ ~Compiles(Main)
    BY <1>1 DEF OpenFails, Inv
  <2>2. Cardinality(Names) \in Nat /\ Cardinality(Names) # 0
    BY NamesAssumption, FS_CardinalityType, FS_EmptySet
  <2>3. Len(stack) < MaxDepth
    BY <2>1, <2>2, BoundsAssumption, DepthAssumption
  <2>4. ~Linkable(Main)
    BY <2>1, <2>3 DEF Compiles, Linkable
  <2> QED BY <2>4, MainNeeded, Unloadable
<1> QED BY <1>1, FailLoad DEF OpenFails

\* More calls than there are names have two calls for one of them.
LEMMA DeepIsCircular ==
  ASSUME Inv, LoadInv, pc = "linking", NEW n \in Needed,
         \A i \in DOMAIN stack : n \in Below(stack[i].name),
         Len(stack) >= Cardinality(Names)
  PROVE  ~Loadable
<1> DEFINE l == Len(stack)
           Named(i) == IF i = l + 1 THEN n ELSE stack[i].name
           f == [i \in 1..(l + 1) |-> Named(i)]
<1>0. stack \in Seq(Frames) /\ l \in Nat /\ DOMAIN stack = 1..l
  BY DEF Inv, TypeOK
<1>1. \A i \in 1..l : stack[i].name \in Needed /\ i # l + 1
  BY <1>0 DEF LoadInv, Chain
<1>2. Needed \subseteq Names
  BY DEF Needed, Reached
<1>3. f \in [1..(l + 1) -> Names]
  BY <1>0, <1>1, <1>2
<1>4. /\ IsFiniteSet(1..(l + 1)) /\ Cardinality(1..(l + 1)) = l + 1
      /\ Cardinality(Names) \in Nat
  <2>1. /\ IsFiniteSet(1..(l + 1))
        /\ Cardinality(1..(l + 1)) = IF 1 > l + 1 THEN 0 ELSE (l + 1) - 1 + 1
    BY <1>0, FS_Interval
  <2> QED BY <1>0, <2>1, NamesAssumption, FS_CardinalityType
<1>5. Cardinality(Names) < Cardinality(1..(l + 1))
  BY <1>0, <1>4
<1>6. \E x, y \in 1..(l + 1) : x # y /\ f[x] = f[y]
  <2> HIDE DEF l, f
  <2> QED BY <1>3, <1>4, <1>5, NamesAssumption, FS_PigeonHole, Zenon
<1>7. PICK x, y \in 1..(l + 1) : x < y /\ f[x] = f[y]
  BY <1>0, <1>6
<1>8. x \in 1..l /\ f[x] = stack[x].name
  BY <1>0, <1>7
<1>9. f[y] \in Below(stack[x].name)
  <2>1. CASE y = l + 1
    BY <1>0, <1>8, <2>1
  <2>2. CASE y \in 1..l
    BY <1>0, <1>1, <1>7, <1>8, <2>2 DEF LoadInv, Chain
  <2> QED BY <1>0, <2>1, <2>2
<1>10. stack[x].name \in Needed /\ ~Linkable(stack[x].name)
  BY <1>1, <1>7, <1>8, <1>9 DEF Linkable
<1> QED BY <1>10, Unloadable

\* What the hook is asked for is below every module of the chain.
LEMMA ImportBelow ==
  ASSUME Inv, LoadInv, pc = "linking", HasImport
  PROVE  /\ Import \in Needed
         /\ \A i \in DOMAIN stack : Import \in Below(stack[i].name)
<1> DEFINE l == Len(stack)
<1>0. /\ TypeOK /\ stack # <<>> /\ l \in Nat /\ l >= 1 /\ DOMAIN stack = 1..l
      /\ Top = stack[l] /\ Top.name \in Names
  BY TopFrame DEF Inv, TypeOK
<1>1. Import \in Range(Imports(Top.name))
  BY <1>0, ImportType DEF Range
<1>2. Top.name \in Needed
  BY <1>0 DEF LoadInv, Chain
<1>3. Import \in Needed
  BY <1>0, <1>1, <1>2, ReachedIsClosed DEF Needed
<1>4. ASSUME NEW i \in 1..l PROVE Import \in Below(stack[i].name)
  <2>1. CASE i = l
    BY <1>0, <1>1, <2>1, ImportsBelow
  <2>2. CASE i < l
    <3>1. Top.name \in Below(stack[i].name)
      BY <1>0, <2>2 DEF LoadInv, Chain
    <3> QED BY <1>0, <1>1, <3>1, ReachedIsClosed DEF Below
  <2>3. i = l \/ i < l
    <3>1. l \in Nat /\ i \in 1..l
      BY <1>0, <1>4
    <3> HIDE DEF l
    <3> QED BY <3>1
  <2> QED BY <2>1, <2>2, <2>3
<1> QED BY <1>0, <1>3, <1>4

LEMMA ResolveFailsLoad ==
  ASSUME Inv, LoadInv, ResolveFails
  PROVE  LoadInv'
<1>1. pc = "linking" /\ HasImport /\ ~Compiles(Import) /\ Fail
  BY DEF ResolveFails
<1>2. /\ Import \in Needed
      /\ \A i \in DOMAIN stack : Import \in Below(stack[i].name)
  BY <1>1, ImportBelow
<1>3. ~Loadable
  <2>1. CASE fault[FileOf[Import]] = "unreadable"
    BY <1>2, <2>1, Unloadable DEF Linkable
  <2>2. CASE ~(Len(stack) < MaxDepth)
    <3>1. Len(stack) \in Nat /\ Cardinality(Names) \in Nat
      BY NamesAssumption, FS_CardinalityType DEF Inv, TypeOK
    <3>2. Len(stack) >= Cardinality(Names)
      BY <2>2, <3>1, BoundsAssumption, DepthAssumption
    <3> QED BY <1>1, <1>2, <3>2, DeepIsCircular
  <2> QED BY <1>1, <2>1, <2>2 DEF Compiles
<1> QED BY <1>1, <1>3, FailLoad

LEMMA LinkFailsLoad ==
  ASSUME Inv, LoadInv, LinkFails
  PROVE  LoadInv'
<1>1. pc = "linking" /\ fault[FileOf[Top.name]] = "unresolved" /\ Fail
  BY DEF LinkFails, Links
<1>2. stack # <<>> /\ TypeOK
  BY <1>1 DEF Inv, TypeOK
<1>3. Len(stack) \in DOMAIN stack /\ Top = stack[Len(stack)]
  BY <1>2, TopFrame
<1>4. Top.name \in Needed
  BY <1>1, <1>3 DEF LoadInv, Chain
<1> QED BY <1>1, <1>4, FailLoad, Unloadable DEF Linkable

LEMMA ResolveKnownLoad ==
  ASSUME Inv, LoadInv, ResolveKnown
  PROVE  LoadInv'
<1>0. /\ stack \in Seq(Frames) /\ pc = "linking" /\ pc' = pc
      /\ stack' = Resumed(stack)
      /\ UNCHANGED <<registry, started, compiled>> /\ UNCHANGED program
  BY DEF Inv, TypeOK, ResolveKnown, program
<1>1. /\ DOMAIN stack' = DOMAIN stack
      /\ \A i \in DOMAIN stack : stack'[i].name = stack[i].name
      /\ 1 \in DOMAIN stack
  <2>1. /\ stack' \in Seq(Frames) /\ Len(stack') = Len(stack)
        /\ \A i \in 1..Len(stack) : stack'[i].name = stack[i].name
    BY <1>0, ResumedStack
  <2> QED BY <1>0, <2>1 DEF Inv, TypeOK
<1>2. /\ moduleMode' = moduleMode /\ fault' = fault /\ Needed' = Needed
      /\ \A m : Below(m)' = Below(m)
      /\ \A m : Linkable(m)' <=> Linkable(m)
  BY <1>0, ProgramStays
<1>3. Chain'
  BY <1>0, <1>1, <1>2 DEF LoadInv, Chain
<1>4. Counted'
  BY <1>0, <1>1 DEF LoadInv, Counted, IsLinked
<1> QED BY <1>0, <1>2, <1>3, <1>4 DEF LoadInv

\* The top of the stack has all its imports in the registry, no module of the
\* stack is there: so it is not on the stack twice, and not below itself.
LEMMA LinkedIsNew ==
  ASSUME Inv, LoadInv, pc = "linking", ~HasImport
  PROVE  /\ \A i \in DOMAIN stack : i # Len(stack) => stack[i].name # Top.name
         /\ Range(Imports(Top.name)) \subseteq registry
         /\ Top.name \notin registry
<1> DEFINE l == Len(stack)
<1>0. /\ TypeOK /\ stack # <<>> /\ l \in Nat /\ l >= 1 /\ DOMAIN stack = 1..l
      /\ Top = stack[l] /\ Top.name \in Names /\ Top.next \in Nat
  BY TopFrame DEF Inv, TypeOK
<1>1. \A i \in DOMAIN stack : Waits(stack, registry, i) /\ stack[i].name \notin registry
  BY DEF Inv, Linking, LoadInv, Chain
<1>2. /\ Len(Imports(Top.name)) \in Nat
      /\ DOMAIN Imports(Top.name) = 1..Len(Imports(Top.name))
  BY <1>0, ImportsType
<1>3. Range(Imports(Top.name)) \subseteq registry
  <2>1. Waits(stack, registry, l)
    BY <1>0, <1>1
  <2>2. \A j \in DOMAIN Imports(Top.name) : Imports(Top.name)[j] \in registry
    BY <1>0, <1>2, <2>1 DEF Waits, HasImport
  <2> QED BY <2>2 DEF Range
<1>4. ASSUME NEW i \in DOMAIN stack, i # l, stack[i].name = Top.name PROVE FALSE
  <2>1. i \in 1..l /\ i < l /\ i + 1 \in DOMAIN stack
    BY <1>0, <1>4
  <2>2. /\ stack[i].next <= Len(Imports(Top.name))
        /\ Imports(Top.name)[stack[i].next] = stack[i + 1].name
    BY <1>1, <1>4, <2>1 DEF Waits
  <2>3. stack[i].next \in DOMAIN Imports(Top.name)
    <3>1. stack[i] \in Frames
      BY <1>0, <2>1 DEF TypeOK
    <3> QED BY <1>2, <2>2, <3>1 DEF Frames
  <2>4. stack[i + 1].name \in registry
    BY <1>3, <2>2, <2>3 DEF Range
  <2> QED BY <1>1, <2>1, <2>4
<1> QED BY <1>0, <1>1, <1>3, <1>4

\* It can be linked, then: nothing that is registered leads to it.
LEMMA LinkedIsLinkable ==
  ASSUME Inv, LoadInv, Linked
  PROVE  Top.name \in Needed /\ Linkable(Top.name)
<1>1. pc = "linking" /\ ~HasImport /\ fault[FileOf[Top.name]] # "unresolved"
  BY DEF Linked, Links
<1>2. stack # <<>> /\ TypeOK
  BY <1>1 DEF Inv, TypeOK
<1>3. Len(stack) \in DOMAIN stack /\ Top = stack[Len(stack)]
  BY <1>2, TopFrame
<1>4. Top.name \in Needed /\ fault[FileOf[Top.name]] # "unreadable"
  BY <1>1, <1>3 DEF LoadInv, Chain
<1>5. Range(Imports(Top.name)) \subseteq registry /\ Top.name \notin registry
  BY <1>1, LinkedIsNew
<1>6. registry \in SUBSET Names /\ Closed(registry)
  BY <1>2 DEF Inv, TypeOK, Complete, Closed, Range
<1>7. Below(Top.name) \subseteq registry
  BY <1>5, <1>6, ReachedIsLeast DEF Below
<1> QED BY <1>1, <1>4, <1>5, <1>7 DEF Linkable

\* What Linked does to the stack.
LEMMA LinkedStack ==
  ASSUME TypeOK, Linked
  PROVE  IF Len(stack) = 1
         THEN pc' = "evaluating" /\ stack[1].name = Top.name
         ELSE /\ pc' = "linking" /\ DOMAIN stack' = 1..(Len(stack) - 1)
              /\ \A i \in 1..(Len(stack) - 1) : stack'[i].name = stack[i].name
<1> DEFINE l == Len(stack)
           f == Front(stack)
<1>0. /\ stack \in Seq(Frames) /\ pc = "linking" /\ stack # <<>>
      /\ l \in Nat /\ l >= 1 /\ Top = stack[l]
  BY TopFrame DEF Linked, TypeOK
<1>1. CASE l = 1
  BY <1>0, <1>1 DEF Linked
<1>2. CASE l # 1
  <2>1. stack' = Resumed(f) /\ pc' = "linking"
    BY <1>0, <1>2 DEF Linked
  <2>2. f \in Seq(Frames) /\ Len(f) = l - 1 /\ \A i \in 1..(l - 1) : f[i] = stack[i]
    BY <1>0, FrontStack
  <2> HIDE DEF f
  <2>3. /\ stack' \in Seq(Frames) /\ Len(stack') = Len(f)
        /\ \A i \in 1..Len(f) : stack'[i].name = f[i].name
    BY <2>1, <2>2, ResumedStack
  <2> QED BY <1>0, <1>2, <2>1, <2>2, <2>3
<1> QED BY <1>1, <1>2

LEMMA LinkedLoad ==
  ASSUME Inv, LoadInv, Linked
  PROVE  LoadInv'
<1> DEFINE l == Len(stack)
           t == Top.name
<1>0. /\ TypeOK /\ pc = "linking" /\ ~HasImport /\ registry' = registry \cup {t}
      /\ compiled' = compiled /\ UNCHANGED program /\ stack # <<>>
  BY DEF Inv, TypeOK, Linked, Registered, program
<1>1. l \in Nat /\ l >= 1 /\ DOMAIN stack = 1..l /\ Top = stack[l] /\ t \in Names
  BY <1>0, TopFrame
<1>2. /\ \A i \in 1..l : i # l => stack[i].name # t
      /\ t \notin registry
  BY <1>0, <1>1, LinkedIsNew
<1>3. t \in Needed /\ Linkable(t)
  BY LinkedIsLinkable
<1>4. /\ moduleMode' = moduleMode /\ fault' = fault /\ Needed' = Needed
      /\ \A m : Below(m)' = Below(m)
      /\ \A m : Linkable(m)' <=> Linkable(m)
  BY <1>0, ProgramStays
<1> HIDE DEF l
<1>5. compiled[t] = 1
  <2>1. l \in DOMAIN stack /\ \A j \in DOMAIN stack : j # l => stack[j].name # stack[l].name
    BY <1>1, <1>2
  <2> QED BY <1>0, <1>1, <2>1 DEF LoadInv, Counted
<1>6. \A n \in registry' : n \in Needed' /\ Linkable(n)' /\ compiled'[n] = 1
  BY <1>0, <1>3, <1>4, <1>5 DEF LoadInv, Counted
<1> HIDE DEF t
<1>7. CASE l = 1
  <2>1. pc' = "evaluating" /\ stack[1].name = t
    BY <1>7, <1>0, LinkedStack DEF t, l
  <2>2. Main \in registry'
    BY <1>0, <1>1, <1>7, <2>1 DEF LoadInv, Chain
  <2>3. ASSUME NEW n \in Names \ registry' PROVE compiled'[n] = 0
    <3>1. n \notin registry /\ n # t
      BY <1>0, <2>3
    <3>2. ~IsLinked(n)
      BY <1>1, <1>7, <2>1, <3>1 DEF IsLinked
    <3> QED BY <1>0, <3>1, <3>2 DEF LoadInv, Counted
  <2>4. Counted'
    BY <1>6, <2>1, <2>3 DEF Counted
  <2>5. moduleMode'
    BY <1>0, <1>4 DEF LoadInv
  <2> QED BY <1>6, <2>1, <2>2, <2>4, <2>5 DEF LoadInv, Chain
<1>8. CASE l # 1
  <2>1. /\ pc' = "linking" /\ DOMAIN stack' = 1..(l - 1)
        /\ \A i \in 1..(l - 1) : stack'[i].name = stack[i].name
    BY <1>8, <1>0, LinkedStack DEF l
  <2>2. \A i \in 1..(l - 1) : i \in DOMAIN stack /\ stack[i].name # t
    BY <1>1, <1>2
  <2>3. 1 \in 1..(l - 1)
    BY <1>1, <1>8
  <2>4. Chain'
    <3>1. stack'[1].name = Main
      BY <1>0, <2>1, <2>3 DEF LoadInv, Chain
    <3>2. \A i \in 1..(l - 1) : /\ stack'[i].name \in Needed \ registry'
                                /\ fault[FileOf[stack'[i].name]] # "unreadable"
      BY <1>0, <2>1, <2>2 DEF LoadInv, Chain
    <3>3. \A i, j \in 1..(l - 1) : i < j => stack'[j].name \in Below(stack'[i].name)
      BY <1>0, <2>1, <2>2 DEF LoadInv, Chain
    <3> QED BY <1>4, <2>1, <3>1, <3>2, <3>3 DEF Chain
  <2>5. ASSUME NEW n \in Names \ registry', ~IsLinked(n)' PROVE compiled'[n] = 0
    <3>1. n \notin registry /\ n # t
      BY <1>0, <2>5
    <3>2. \A i \in 1..(l - 1) : stack[i].name # n
      BY <2>1, <2>5 DEF IsLinked
    <3>3. stack[l].name # n
      BY <1>1, <3>1 DEF t
    <3>4. ~IsLinked(n)
      BY <1>1, <3>2, <3>3 DEF IsLinked
    <3> QED BY <1>0, <3>1, <3>4 DEF LoadInv, Counted
  <2>6. ASSUME NEW i \in 1..(l - 1), \A j \in 1..(l - 1) : j # i => stack'[j].name # stack'[i].name
        PROVE  compiled'[stack'[i].name] = 1
    <3>1. i \in DOMAIN stack /\ stack'[i].name = stack[i].name /\ stack[l].name # stack[i].name
      BY <1>1, <2>1, <2>2, <2>6 DEF t
    <3>2. \A j \in 1..(l - 1) : j # i => stack[j].name # stack[i].name
      BY <2>1, <2>6, <3>1
    <3>3. \A j \in 1..l : j \in 1..(l - 1) \/ j = l
      BY <1>1
    <3>4. \A j \in DOMAIN stack : j # i => stack[j].name # stack[i].name
      BY <1>1, <3>1, <3>2, <3>3
    <3> QED BY <1>0, <3>1, <3>4 DEF LoadInv, Counted
  <2>7. Counted'
    BY <1>6, <2>1, <2>5, <2>6 DEF Counted
  <2>8. moduleMode'
    BY <1>0, <1>4 DEF LoadInv
  <2> QED BY <1>6, <2>1, <2>4, <2>7, <2>8 DEF LoadInv
<1> QED BY <1>7, <1>8

\* Evaluation neither compiles nor registers anything.
LEMMA EvaluateLoad ==
  ASSUME Inv, LoadInv, EvaluateImport \/ RunBody
  PROVE  LoadInv'
<1>1. /\ pc = "evaluating" /\ pc' \in {"evaluating", "evaluated", "rejected"}
      /\ registry' = registry /\ compiled' = compiled
      /\ UNCHANGED program
  BY DEF EvaluateImport, RunBody
<1>2. /\ moduleMode' = moduleMode /\ Needed' = Needed
      /\ \A m : Linkable(m)' <=> Linkable(m)
  BY <1>1, ProgramStays
<1>3. Counted'
  BY <1>1 DEF LoadInv, Counted, IsLinked
<1> QED BY <1>1, <1>2, <1>3 DEF LoadInv, Chain

LEMMA ExecuteLoad ==
  ASSUME Inv, LoadInv, Execute
  PROVE  LoadInv'
<1>1. /\ pc = "start" /\ ~moduleMode /\ pc' = "evaluated"
      /\ registry' = registry /\ compiled' = compiled
      /\ UNCHANGED program
  BY DEF Execute
<1>2. /\ moduleMode' = moduleMode /\ Needed' = Needed
      /\ \A m : Linkable(m)' <=> Linkable(m)
  BY <1>1, ProgramStays
<1>3. Counted'
  BY <1>1 DEF LoadInv, Counted, IsLinked
<1> QED BY <1>1, <1>2, <1>3 DEF LoadInv, Chain

LEMMA NextLoad == Inv /\ Inv' /\ LoadInv /\ [Next]_vars => LoadInv'
<1> SUFFICES ASSUME Inv, Inv', LoadInv, [Next]_vars PROVE LoadInv'
  OBVIOUS
<1>1. CASE OpenMain
  <2>1. /\ pc = "start" /\ pc' = "linking" /\ moduleMode /\ Compile(Main) /\ UNCHANGED program
    BY <1>1 DEF OpenMain
  <2>2. Main \in Names /\ Main \notin registry
    BY <2>1, NamesAssumption DEF LoadInv
  <2> QED BY <2>1, <2>2, CompileLoad
<1>2. CASE Execute
  BY <1>2, ExecuteLoad
<1>3. CASE OpenFails
  BY <1>3, OpenFailsLoad
<1>4. CASE ResolveKnown
  BY <1>4, ResolveKnownLoad
<1>5. CASE ResolveNew
  <2>1. /\ pc = "linking" /\ pc' = "linking" /\ HasImport /\ Import \notin registry
        /\ Compile(Import) /\ UNCHANGED program
    BY <1>5 DEF ResolveNew, Known
  <2>2. Import \in Names
    BY <2>1, ImportType DEF Inv, TypeOK
  <2>3. moduleMode
    BY <2>1 DEF LoadInv
  <2> QED BY <2>1, <2>2, <2>3, CompileLoad
<1>6. CASE ResolveFails
  BY <1>6, ResolveFailsLoad
<1>7. CASE Linked
  BY <1>7, LinkedLoad
<1>8. CASE LinkFails
  BY <1>8, LinkFailsLoad
<1>9. CASE EvaluateImport \/ RunBody
  BY <1>9, EvaluateLoad
<1>10. CASE UNCHANGED vars
  <2>1. UNCHANGED program
    BY <1>10 DEF vars, program
  <2>2. /\ Needed' = Needed /\ \A m : Below(m)' = Below(m)
        /\ \A m : Linkable(m)' <=> Linkable(m)
        /\ Loadable' <=> Loadable
    BY <2>1, ProgramStays
  <2>3. Chain'
    BY <1>10, <2>2 DEF vars, LoadInv, Chain
  <2>4. Counted'
    BY <1>10 DEF vars, LoadInv, Counted, IsLinked
  <2> QED BY <1>10, <2>2, <2>3, <2>4 DEF vars, LoadInv
<1> QED BY <1>1, <1>2, <1>3, <1>4, <1>5, <1>6, <1>7, <1>8, <1>9, <1>10 DEF Next

-----------------------------------------------------------------------------
\* The inductive invariant of the loader: what is registered is complete, and
\* each module that is being linked waits for the one above it.
THEOREM LoaderInvariance == Spec => []Inv
<1>1. Inv /\ [Next]_vars => Inv'
  BY NextInv
<1> QED BY InitInv, <1>1, PTL DEF Spec

\* The variables keep their types.
THEOREM LoaderTypeCorrect == Spec => []TypeOK
<1>1. Inv => TypeOK
  BY DEF Inv
<1> QED BY LoaderInvariance, <1>1, PTL

\* While modules are evaluated, the resolve hook never compiles another copy.
THEOREM NothingIsCompiledTwice == Spec => []EvaluationFindsModules
<1>1. Inv => EvaluationFindsModules
  <2> SUFFICES ASSUME Inv, pc = "evaluating", NEW i \in DOMAIN stack
               PROVE  Known(stack[i].name) /\ Range(Imports(stack[i].name)) \subseteq registry
    BY DEF EvaluationFindsModules
  <2>1. stack[i].name \in registry
    BY DEF Inv, Evaluating
  <2> QED BY <2>1 DEF Inv, Complete, Known, Range
<1> QED BY LoaderInvariance, <1>1, PTL

\* The modules that are being linked are a chain of imports, which leads to
\* nothing that is registered; what is registered was compiled once, and can be
\* linked; and loading fails for a reason only.
THEOREM ChainInvariance == Spec => []LoadInv
<1>1. Inv /\ Inv' /\ LoadInv /\ [Next]_vars => LoadInv'
  BY NextLoad
<1> QED BY InitLoad, LoaderInvariance, <1>1, PTL DEF Spec

\* However many modules import another, it is compiled once, and nothing is
\* compiled that is not imported: for programs of any size and shape.
THEOREM ModulesAreCompiledOnce == Spec => []CompiledOnce
<1>1. Inv /\ LoadInv => CompiledOnce
  <2> SUFFICES ASSUME Inv, LoadInv, moduleMode, pc \in {"evaluating", "evaluated", "rejected"},
                      NEW n \in Names
               PROVE  compiled[n] = IF n \in Needed THEN 1 ELSE 0
    BY DEF CompiledOnce
  <2>1. registry = Needed
    BY RegistryIsNeeded DEF LoadInv
  <2> QED BY <2>1 DEF LoadInv, Counted, IsLinked
<1> QED BY ChainInvariance, LoaderInvariance, <1>1, PTL

\* A program of modules fails to load if and only if a module that it needs is
\* missing, does not compile or link, or imports itself by way of others.
THEOREM LoadingFailsForAReason == Spec => []FailsForAReason
<1>1. Inv /\ LoadInv => FailsForAReason
  <2> SUFFICES ASSUME Inv, LoadInv, moduleMode, pc \in {"evaluating", "evaluated", "rejected"}
               PROVE  Loadable
    BY DEF FailsForAReason, LoadInv
  <2>1. registry = Needed
    BY RegistryIsNeeded DEF LoadInv
  <2> QED BY <2>1 DEF LoadInv, Loadable, Linkable, Below
<1> QED BY ChainInvariance, LoaderInvariance, <1>1, PTL
=============================================================================
